--------------------------- MODULE SerialBackend ----------------------------
(***************************************************************************)
(* SerialBackend: one io_context thread reads the port in chunks of any    *)
(* size, splits the stream into flash frames and text, and writes what     *)
(* other threads sent, one write at a time.                                *)
(*                                                                         *)
(* The byte stream is over four classes: the flash start byte, the field   *)
(* delimiter, the line end and everything else.  The frame's header and    *)
(* trailer sizes are parameters; which length a byte means and when the    *)
(* checksum agrees are fixed maps that make every branch happen.           *)
(***************************************************************************)
EXTENDS IntegrationBackend

CONSTANTS
    Streams,        \* the byte streams the device may send
    HeaderBytes,    \* kFlashHeaderBytes; the last one is the length
    TrailerBytes,   \* kFlashTrailerBytes; the last one is the checksum
    MaxPayload,     \* kFlashMaxPayloadBytes
    kMaxBufferBytes,  \* the longest unfinished line the parser keeps
    MaxSends        \* bound: calls of send()

Bytes == {"S", ",", "n", "x"}

ASSUME SerialAssumption ==
    /\ Streams \subseteq Seq(Bytes)
    /\ HeaderBytes \in Nat \ {0, 1} /\ TrailerBytes \in Nat \ {0}
    /\ MaxPayload \in Nat /\ kMaxBufferBytes \in Nat /\ MaxSends \in Nat

VARIABLES
    stream, fed,          \* what the device sends, and how much has arrived
    frameBuffer, lineBuffer,  \* the two parsers' leftovers
    frames_, readings,    \* what reached the sinks
    reading,              \* the read is armed
    accepted,             \* what send() took, numbered
    posted, writeQueue, line,  \* on its way to the port, and on the line
    writeFailed

serial == <<stream, fed, frameBuffer, lineBuffer, frames_, readings, reading, accepted,
            posted, writeQueue, line, writeFailed>>

SerialInit ==
    /\ stream \in (IF "serial" \in configured THEN Streams ELSE {<<>>}) /\ fed = 0
    /\ frameBuffer = <<>> /\ lineBuffer = <<>> /\ frames_ = <<>> /\ readings = <<>>
    /\ reading = FALSE /\ accepted = 0 /\ posted = <<>> /\ writeQueue = <<>> /\ line = <<>>
    /\ writeFailed = FALSE

-----------------------------------------------------------------------------
(* FlashFrameParser and SerialFrameParser.                                 *)

Drop(s, n) == SubSeq(s, n + 1, Len(s))

LengthOf(byte)   == CASE byte = "x" -> 0 [] byte = "," -> 1 [] OTHER -> MaxPayload + 1
ChecksumOk(byte) == byte = "x"

\* FlashFrameParser::consume over what is buffered and the new bytes.  A start
\* byte that turns out to be none is dropped, not passed on as text.
consumeFrames[work \in Seq(Bytes)] ==
    LET Incomplete == [buffer |-> work, frames |-> <<>>, text |-> <<>>]
        len        == LengthOf(work[HeaderBytes])
        total      == HeaderBytes + len + TrailerBytes
    IN  IF work = <<>> THEN Incomplete
        ELSE IF Head(work) # "S"
             THEN [consumeFrames[Tail(work)] EXCEPT !.text = <<Head(work)>> \o @]
        ELSE IF Len(work) < HeaderBytes THEN Incomplete
        ELSE IF len > MaxPayload THEN consumeFrames[Tail(work)]
        ELSE IF Len(work) < total THEN Incomplete
        ELSE IF ~ChecksumOk(work[total]) THEN consumeFrames[Tail(work)]
        ELSE [consumeFrames[Drop(work, total)] EXCEPT !.frames = <<SubSeq(work, 1, total)>> \o @]

\* parseLine(): exactly one delimiter, with something on either side.
parseLine(row) ==
    /\ Cardinality({i \in DOMAIN row : row[i] = ","}) = 1
    /\ row[1] # "," /\ row[Len(row)] # ","

\* The loop of SerialFrameParser::consume: whole lines are parsed, the rest is
\* kept.
consumeLines[buffer \in Seq(Bytes)] ==
    LET ends == {i \in DOMAIN buffer : buffer[i] = "n"}
        end  == CHOOSE i \in ends : \A j \in ends : i <= j
        row  == SubSeq(buffer, 1, end - 1)
        rest == consumeLines[Drop(buffer, end)]
    IN  IF ends = {} THEN [buffer |-> buffer, readings |-> <<>>]
        ELSE IF parseLine(row) THEN [rest EXCEPT !.readings = <<row>> \o @]
        ELSE rest

\* Its end: an unfinished line that has grown too long is thrown away.
Kept(buffer) == IF Len(buffer) > kMaxBufferBytes THEN <<>> ELSE buffer

-----------------------------------------------------------------------------
(* start(), stop() and the read chain.                                     *)

KeepParsers == UNCHANGED <<stream, fed, frameBuffer, lineBuffer, frames_, readings>>
KeepWriter  == UNCHANGED <<accepted, posted, writeQueue, line, writeFailed>>

registerSerialBackend == registerBackend("serial") /\ UNCHANGED serial

\* Fresh parsers, the port opened and configured, the first read armed.
serialStart ==
    /\ At("start", "serial", "call") /\ "serial" \notin running
    /\ \/ Started("serial") /\ reading' = TRUE
       \/ StartThrew("serial") /\ UNCHANGED reading
    /\ frameBuffer' = <<>> /\ lineBuffer' = <<>>
    /\ UNCHANGED <<stream, fed, frames_, readings>> /\ KeepWriter

\* The flash parser forgets its leftover at a chunk's end.
routeForgetful(chunk) ==
    LET split == consumeFrames[chunk]
        lines == consumeLines[lineBuffer \o split.text]
    IN  /\ frameBuffer' = <<>> /\ lineBuffer' = Kept(lines.buffer)
        /\ frames_' = frames_ \o split.frames /\ readings' = readings \o lines.readings

\* One chunk: frames to the frame sink, the text left over to the line parser,
\* its readings to the sink.
routeChunk(chunk) ==
    LET split == consumeFrames[frameBuffer \o chunk]
        lines == consumeLines[lineBuffer \o split.text]
    IN  /\ frameBuffer' = split.buffer /\ lineBuffer' = Kept(lines.buffer)
        /\ frames_' = frames_ \o split.frames /\ readings' = readings \o lines.readings

armRead ==
    /\ thread["serial"] = "live" /\ reading
    /\ \E n \in 1..(Len(stream) - fed) :
         routeChunk(SubSeq(stream, fed + 1, fed + n)) /\ fed' = fed + n
    /\ UNCHANGED <<life, stream, reading>> /\ KeepWriter

\* A read error: the read is not armed again.  The thread still works off the
\* writes it has been given.
serialReadFails ==
    /\ thread["serial"] = "live" /\ reading /\ reading' = FALSE
    /\ UNCHANGED life /\ KeepParsers /\ KeepWriter

\* Then the io_context has no work left and its run() returns: the flag stays
\* up and nothing is reported.
serialRunsDry ==
    /\ ~reading /\ posted = <<>> /\ writeQueue = <<>>
    /\ LoopReturns("serial") /\ UNCHANGED serial

serialStop == StopLatch("serial") /\ UNCHANGED serial
serialRunIoLoop == Stopping("serial") /\ LoopReturns("serial") /\ UNCHANGED serial

\* The port, the queue and every posted handler go with the old io_context.
serialJoin ==
    /\ Joined("serial") /\ reading' = FALSE /\ posted' = <<>> /\ writeQueue' = <<>>
    /\ UNCHANGED <<accepted, line, writeFailed>> /\ KeepParsers

-----------------------------------------------------------------------------
(* Writing.                                                                *)

\* send() answers true once the bytes are posted, also to an io_context that
\* nobody runs any more.
send ==
    /\ "serial" \in running /\ thread["serial"] # "none" /\ accepted < MaxSends
    /\ accepted' = accepted + 1 /\ posted' = Append(posted, accepted + 1)
    /\ UNCHANGED <<life, reading, writeQueue, line, writeFailed>> /\ KeepParsers

\* Every posted buffer starts a write, also while one is on its way.
EnqueueEager ==
    /\ thread["serial"] = "live" /\ posted # <<>>
    /\ posted' = Tail(posted) /\ line' = Append(line, Head(posted))
    /\ writeQueue' = Append(writeQueue, Head(posted))
    /\ UNCHANGED <<life, reading, accepted, writeFailed>> /\ KeepParsers

\* The posted handler queues its bytes; the first in the queue is being
\* written.
Enqueue ==
    /\ thread["serial"] = "live" /\ posted # <<>>
    /\ posted' = Tail(posted) /\ writeQueue' = Append(writeQueue, Head(posted))
    /\ UNCHANGED <<life, reading, accepted, line, writeFailed>> /\ KeepParsers

\* A write is through: the next one starts, if there is one.
writeNext ==
    /\ thread["serial"] = "live" /\ writeQueue # <<>>
    /\ line' = Append(line, Head(writeQueue)) /\ writeQueue' = Tail(writeQueue)
    /\ UNCHANGED <<life, reading, accepted, posted, writeFailed>> /\ KeepParsers

\* A failed write empties the queue, although send() has said yes to all of it.
WriteFails ==
    /\ thread["serial"] = "live" /\ writeQueue # <<>>
    /\ writeQueue' = <<>> /\ writeFailed' = TRUE
    /\ UNCHANGED <<life, reading, accepted, posted, line>> /\ KeepParsers

SerialNext ==
    \/ registerSerialBackend \/ serialStart \/ armRead \/ serialReadFails \/ serialRunsDry
    \/ send \/ Enqueue \/ writeNext \/ WriteFails
    \/ serialStop \/ serialRunIoLoop \/ serialJoin

SerialFairness ==
    /\ WF_<<life, serial>>(registerSerialBackend \/ serialStart \/ serialStop \/ serialJoin)
    /\ WF_<<life, serial>>(serialRunIoLoop)

-----------------------------------------------------------------------------
\* Where a line of the text may begin: before the first byte, after a line end.
LineStarts(text) == {0} \cup {i \in 1..Len(text) : text[i] = "n"}

\* No stretch longer than kMaxBufferBytes is without a line end.
Fits(text) ==
    \A i \in 0..(Len(text) - kMaxBufferBytes - 1) :
        \E k \in (i + 1)..(i + kMaxBufferBytes + 1) : text[k] = "n"

\* However the port cuts the stream into chunks, the frame sink gets the frames
\* the stream holds, also when a start byte that is none hides in the text.
\* What becomes of a line longer than kMaxBufferBytes depends on the chunks,
\* since the parser may discard part of it; but it spoils nothing after it.
\* From every line start on after which the lines fit, the last readings the
\* sink got are those of the text from there: none lost, repeated or invented
\* at a chunk boundary.  If all lines fit, that is all it got.
ChunkingInvisible ==
    LET split == consumeFrames[SubSeq(stream, 1, fed)]
    IN  /\ frames_ = split.frames
        /\ \A i \in LineStarts(split.text) :
             Fits(Drop(split.text, i)) =>
                 \E n \in 0..Len(readings) :
                     /\ Drop(readings, n) = consumeLines[Drop(split.text, i)].readings
                     /\ i = 0 => n = 0

\* What is on the line is what send() took, in its order and once each.  Until
\* a write fails, nothing of it is missing: it is written, queued or posted.
SerialWritesInOrder ==
    /\ \A i, j \in DOMAIN line : i < j => line[i] < line[j]
    /\ (thread["serial"] # "none" /\ ~writeFailed) =>
           line \o writeQueue \o posted = [i \in 1..accepted |-> i]
=============================================================================
