---------------------------- MODULE ModbusClient ----------------------------
(***************************************************************************)
(* ModbusBackend and the request/answer discipline of ModbusClient: one    *)
(* request at a time over a connection that is opened on demand, closed on *)
(* every error of the transport, and kept when an answer does not decode.  *)
(* The slave (or a gateway before it) answers late, twice or wrongly.      *)
(***************************************************************************)
EXTENDS IntegrationBackend

CONSTANTS
    TidMod,       \* how many transaction ids there are (2^16)
    MaxReads,     \* bound: reads of the poll loop
    MaxExtra,     \* bound: answers sent twice
    MaxLate       \* bound: requests a slave takes before it answers an earlier one

ASSUME ModbusAssumption ==
    /\ {TidMod, MaxReads, MaxExtra, MaxLate} \subseteq Nat
    /\ MaxLate + MaxExtra < TidMod

VARIABLES
    connected,    \* connected_
    read,         \* readImpl: "idle", "sent" (waiting for the answer)
    tid,          \* the requests made; nextTid_ counts them in 16 bits
    asked,        \* requests of this connection the slave has not answered
    answers,      \* what is in the socket: the request it answers, and a kind
    results,      \* how each read ended, and for which answer
    extra

modbus == <<connected, read, tid, asked, answers, results, extra>>

ModbusInit ==
    /\ connected = FALSE /\ read = "idle" /\ tid = 0 /\ asked = {} /\ answers = <<>>
    /\ results = <<>> /\ extra = 0

PollLoop == thread["modbus"] = "live"

registerModbusBackend == registerBackend("modbus") /\ UNCHANGED modbus
modbusStart == At("start", "modbus", "call") /\ Started("modbus") /\ UNCHANGED modbus
modbusStop  == StopLatch("modbus") /\ UNCHANGED modbus

\* Every wait of a read is bounded by a timeout; the loop returns after it.
modbusRunLoop == Stopping("modbus") /\ read = "idle" /\ LoopReturns("modbus") /\ UNCHANGED modbus
modbusJoin    == Joined("modbus") /\ UNCHANGED modbus

\* connectionState() of the health bar.
modbusState ==
    IF "modbus" \notin running THEN "Disconnected"
    ELSE IF \A i \in DOMAIN results : results[i].end # "ok" THEN "Connecting"
    ELSE IF connected THEN "Connected" ELSE "Degraded"

-----------------------------------------------------------------------------
disconnect == connected' = FALSE /\ answers' = <<>> /\ asked' = {}

Ends(result) == read' = "idle" /\ results' = Append(results, [end |-> result, for |-> 0, req |-> tid])

\* ensureConnected() does not get through: unknown host, refused or timeout.
NoConnection ==
    /\ PollLoop /\ read = "idle" /\ ~connected /\ Len(results) < MaxReads
    /\ Ends("no connection")
    /\ UNCHANGED <<life, connected, tid, asked, answers, extra>>

\* The request with the next transaction id is on the wire.
Request ==
    /\ PollLoop /\ "modbus" \in running /\ read = "idle" /\ Len(results) < MaxReads
    /\ connected' = TRUE /\ tid' = tid + 1 /\ read' = "sent"
    /\ asked' = asked \cup {tid + 1}
    /\ UNCHANGED <<life, answers, results, extra>>

\* The write fails or times out.
RequestFails ==
    /\ PollLoop /\ "modbus" \in running /\ read = "idle" /\ Len(results) < MaxReads
    /\ tid' = tid + 1
    /\ disconnect /\ results' = Append(results, [end |-> "write", for |-> 0, req |-> tid + 1])
    /\ UNCHANGED <<life, read, extra>>

Kinds_ == {"registers", "exception", "garbled", "bad length"}

\* A request that is passed over goes unanswered.
SlaveAnswers(kind) ==
    /\ \E t \in asked : /\ tid - t <= MaxLate
                        /\ answers' = Append(answers, [tid |-> t, kind |-> kind])
                        /\ asked' = asked \ {t}
    /\ UNCHANGED <<life, connected, read, tid, results, extra>>

\* An answer that was on its way arrives twice.
AnswerTwice ==
    /\ answers # <<>> /\ extra < MaxExtra /\ extra' = extra + 1
    /\ answers' = <<Head(answers)>> \o answers
    /\ UNCHANGED <<life, connected, read, tid, asked, results>>

\* decodeReadResponse() that does not look at the transaction id.
decodeAnyTid(answer) ==
    CASE answer.kind = "garbled" -> "decode" [] answer.kind = "exception" -> "exception"
      [] OTHER -> "ok"

\* The transaction id of a request, as encodeReadRequest() writes it.
TransactionId(request) == request % TidMod

\* decodeReadResponse(): protocol, transaction and unit id, lengths, function
\* code and byte count have to match the request.
decodeReadResponse(answer) ==
    IF answer.kind = "garbled" \/ TransactionId(answer.tid) # TransactionId(tid) THEN "decode"
    ELSE IF answer.kind = "exception" THEN "exception"
    ELSE "ok"

\* The header and the body are read and decoded.  An impossible length closes
\* the connection; an answer that does not decode leaves it open, with
\* whatever follows still in the socket.
readImpl ==
    /\ PollLoop /\ read = "sent" /\ answers # <<>> /\ read' = "idle"
    /\ LET answer == Head(answers) IN
       IF answer.kind = "bad length"
       THEN disconnect /\ results' = Append(results, [end |-> "decode", for |-> 0, req |-> tid])
       ELSE /\ answers' = Tail(answers) /\ UNCHANGED <<connected, asked>>
            /\ results' = Append(results, [end |-> decodeReadResponse(answer),
                                           for |-> answer.tid, req |-> tid])
    /\ UNCHANGED <<life, tid, extra>>

\* Nothing came in time, or the peer closed: the connection is given up, so
\* the answer can no longer be taken for that of a later request.
ReadTimesOut ==
    /\ PollLoop /\ read = "sent" /\ disconnect /\ Ends("timeout")
    /\ UNCHANGED <<life, tid, extra>>

ModbusNext ==
    \/ registerModbusBackend \/ modbusStart \/ modbusStop \/ modbusRunLoop \/ modbusJoin
    \/ NoConnection \/ Request \/ RequestFails \/ readImpl \/ ReadTimesOut \/ AnswerTwice
    \/ \E k \in Kinds_ : SlaveAnswers(k)

ModbusFairness ==
    /\ WF_<<life, modbus>>(registerModbusBackend \/ modbusStart \/ modbusStop \/ modbusJoin)
    /\ WF_<<life, modbus>>(readImpl \/ ReadTimesOut) /\ WF_<<life, modbus>>(modbusRunLoop)

-----------------------------------------------------------------------------
\* A value is taken, or an exception reported, only from the answer to the
\* request that was made for it, whatever the slave delays or repeats: a late
\* answer dies with its connection and a repeated one, which puts every later
\* answer one read behind, never gets as far behind as the ids repeat.
AnswersMatchRequests ==
    \A i \in DOMAIN results :
        results[i].end \in {"ok", "exception"} => results[i].for = results[i].req
=============================================================================
