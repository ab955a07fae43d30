-------------------------- MODULE OtaUpdateProofs --------------------------
(***************************************************************************)
(* For every image size, chunk size, resend budget and line depth: what    *)
(* the two ends of an update know of each other, whatever the line loses   *)
(* and however often a frame is sent again.                                *)
(***************************************************************************)
EXTENDS OtaUpdate, SequenceTheorems, TLAPS

-----------------------------------------------------------------------------
(* The inductive invariant.                                                *)

\* What the board may answer with a number up to n.
Answers(n) ==
  [type : {"ACK", "MALFORMED"}, seq : 0 .. n]
    \cup [type : {"NAK"}, seq : 0 .. n, code : NakCodes]
    \cup [type : {"INFO"}, seq : 0 .. n, version : {OldVersion, Version},
          state : {"CONFIRMED", "TRIAL"}]

\* TypeOK without the Booleans, and with the types of the answers.
StateOK ==
  /\ imageBytes \in ImageSizes
  /\ sm \in Waiting \cup {"idle", "rebooting", "done", "failed"}
  /\ failure \in Failures /\ nakCode \in NakCodes \cup {NoCode}
  /\ seq \in Nat /\ (sm # "idle" /\ sm # "failed" => seq > 0)
  /\ sm = "idle" => failure = "None"
  /\ inFlight \in HostFrames \cup {NoFrame}
  /\ outbox \in {NoFrame, inFlight}
  /\ resends \in 0 .. ResendBudget
  /\ sentBytes \in 0 .. imageBytes /\ chunkBytes \in 0 .. ChunkBytes
  /\ boardVersion \in {NoVersion, OldVersion, Version}
  /\ toBoard \in Seq(HostFrames) /\ Len(toBoard) <= LineDepth
  /\ toHost \in Seq(Answers(seq)) /\ Len(toHost) <= LineDepth
  /\ running \in {OldVersion, Version} /\ state \in {"CONFIRMED", "TRIAL"}
  /\ written \in Nat /\ announced \in Nat /\ lastSeq \in Number

FlagsOK == waitingOut \in BOOLEAN /\ alreadyUpToDate \in BOOLEAN /\ receiving \in BOOLEAN

\* How far the transfer has come in each state of the table.
TransferInv ==
  /\ sm \in {"idle", "probing", "beginning"} => sentBytes = 0
  /\ sm = "sending" => sentBytes + chunkBytes <= imageBytes
  /\ sm \in {"committing", "rebooting", "rechecking"} => sentBytes = imageBytes
  /\ sm \in {"confirming", "done"} => sentBytes \in {0, imageBytes}

\* The frame whose number is the session's is the one the table waits on.
Expected(f) ==
  /\ sm \in {"probing", "rechecking"} => f.type = "INFO_REQ"
  /\ sm = "beginning" => f.type = "BEGIN"
  /\ sm = "sending" => f.type = "DATA" /\ f.offset = sentBytes /\ f.len >= chunkBytes
  /\ sm \in {"committing", "rebooting"} => f.type = "COMMIT"
  /\ sm = "confirming" => f.type = "CONFIRM"

\* Kinds of frames come in the order the table sends them.
InPlace(f) ==
  /\ f.type = "BEGIN" => sm \notin {"idle", "probing"}
  /\ f.type \in {"DATA", "COMMIT"} => sm \notin {"idle", "probing", "beginning"}
  /\ f.type = "CONFIRM" => sm \in {"confirming", "done", "failed"}

Fits(f) == (f.seq = seq => Expected(f)) /\ InPlace(f)

FlightInv == inFlight # NoFrame => inFlight.seq = seq /\ sm \in Waiting /\ Expected(inFlight)

WireInv ==
  /\ FlightInv
  /\ \A i \in 1 .. Len(toBoard) : Fits(toBoard[i])
  /\ \A i, j \in 1 .. Len(toBoard) : i < j =>
       /\ toBoard[j].type = "BEGIN" => toBoard[i].type \in {"INFO_REQ", "BEGIN"}
       /\ toBoard[i].type = "CONFIRM" => toBoard[j].type = "CONFIRM"

NoneOf(type) == \A i \in 1 .. Len(toBoard) : toBoard[i].type # type

\* The answer to the current frame is on the line.
Acked == \E i \in 1 .. Len(toHost) : toHost[i].type = "ACK" /\ toHost[i].seq = seq

\* The board keeps the target, and no commit on the line can change that.
Kept == running = Version /\ state = "CONFIRMED" /\ NoneOf("COMMIT")

\* So many bytes are in the empty bank, and no frame on the line erases it.
Stored(n) == n <= written /\ NoneOf("BEGIN")

\* What an answer on the line still says of the board.
StillTrue(f) ==
  f.type = "INFO" =>
    /\ f.version # Version => running # Version
    /\ f.version = Version /\ f.state = "CONFIRMED" => running = Version /\ state = "CONFIRMED"

BoardInv ==
  /\ state = "TRIAL" => running = Version
  /\ sm \in {"idle", "probing"} => \A i \in 1 .. Len(toHost) : StillTrue(toHost[i])
  /\ sm = "beginning" => running # Version
  /\ TargetNeverErased
  /\ sm = "confirming" => boardVersion = Version
  /\ ConfirmsWhatItChecked
  /\ sm = "confirming" /\ (lastSeq = seq \/ Acked) => Kept
  /\ sm = "done" => Kept

FlashInv ==
  /\ sm = "sending" /\ sentBytes > 0 => Stored(sentBytes)
  /\ sm = "sending" /\ (lastSeq = seq \/ Acked) => Stored(sentBytes + chunkBytes)
  /\ sm \in {"committing", "rebooting"} => Stored(sentBytes)

UpdateInv == StateOK /\ TransferInv /\ WireInv /\ BoardInv /\ FlashInv

-----------------------------------------------------------------------------
(* Constants, frames and the line.                                         *)

LEMMA Constants ==
  /\ \A n \in ImageSizes : n \in Nat
  /\ WordBytes \in Nat /\ WordBytes > 0 /\ ChunkBytes \in Nat /\ ChunkBytes > 0
  /\ ResendBudget \in Nat /\ OldVersion # Version /\ LineDepth \in Nat
  BY OtaConstants, LineConstants

\* Padding never shortens a chunk.
LEMMA PaddedCovers ==
  ASSUME NEW n \in Nat
  PROVE  Padded(n) \in Nat /\ Padded(n) >= n
  <1> DEFINE m == n + WordBytes - 1
  <1> DEFINE k == m \div WordBytes
  <1>1. m \in Nat /\ WordBytes \in Nat /\ WordBytes > 0
    BY Constants
  <1>2. k \in Int /\ m = WordBytes * k + (m % WordBytes) /\ m % WordBytes \in 0 .. WordBytes - 1
    BY <1>1
  <1>3. WordBytes * k = k * WordBytes /\ k * WordBytes \in Int
    BY <1>1, <1>2
  <1>4. Padded(n) = k * WordBytes
    BY DEF Padded
  <1> HIDE DEF k
  <1>5. QED
    BY <1>1, <1>2, <1>3, <1>4

\* One end of the line gets a frame, or loses it.
LEMMA TransmitParts ==
  ASSUME NEW S, NEW q \in Seq(S), Len(q) <= LineDepth, NEW f, f = NoFrame \/ f \in S
  PROVE  LET t == Transmit(q, f) IN
         /\ t \in Seq(S) /\ Len(t) <= LineDepth /\ Len(q) \in Nat
         /\ \A i \in 1 .. Len(q) : t[i] = q[i]
         /\ \/ Len(t) = Len(q)
            \/ Len(t) = Len(q) + 1 /\ t[Len(q) + 1] = f /\ f \in S /\ f # NoFrame
  <1>1. Len(q) \in Nat
    BY LenProperties
  <1>2. CASE f = NoFrame \/ Len(q) >= LineDepth
    BY <1>1, <1>2 DEF Transmit
  <1>3. CASE ~(f = NoFrame \/ Len(q) >= LineDepth)
    <2>1. f \in S /\ Transmit(q, f) = Append(q, f)
      BY <1>3 DEF Transmit
    <2>2. QED
      BY <1>1, <1>3, <2>1, AppendProperties, Constants
  <1>4. QED
    BY <1>2, <1>3

LEMMA TailParts ==
  ASSUME NEW S, NEW q \in Seq(S), q # <<>>
  PROVE  /\ Len(q) \in Nat /\ Len(q) >= 1 /\ Head(q) = q[1] /\ Head(q) \in S
         /\ Tail(q) \in Seq(S) /\ Len(Tail(q)) = Len(q) - 1
         /\ \A i \in 1 .. Len(q) - 1 : Tail(q)[i] = q[i + 1]
  <1>1. Len(q) \in Nat /\ Len(q) >= 1 /\ Head(q) = q[1]
    BY LenProperties
  <1>2. QED
    BY <1>1, HeadTailProperties

LEMMA SeqGrows ==
  ASSUME NEW S, NEW T, S \subseteq T, NEW q \in Seq(S)
  PROVE  q \in Seq(T)
  OBVIOUS

\* The numbers on the line stay known when the session counts on.
LEMMA NumbersGrow ==
  ASSUME StateOK, seq' \in Nat, seq' >= seq, UNCHANGED imageBytes
  PROVE  /\ toBoard \in Seq(HostFrames') /\ toHost \in Seq(Answers(seq'))
         /\ HostFrames \subseteq HostFrames' /\ Number \subseteq Number'
  <1>1. Number \subseteq Number'
    BY DEF Number, StateOK
  <1>2. HostFrames \subseteq HostFrames'
    BY <1>1 DEF HostFrames
  <1>3. Answers(seq) \subseteq Answers(seq')
    BY DEF Answers, StateOK
  <1>4. QED
    BY <1>1, <1>2, <1>3, SeqGrows DEF StateOK

-----------------------------------------------------------------------------
(* What one call of the session may do.                                    *)

\* Nothing, or the frame in flight once more.
Quiet ==
  /\ UNCHANGED <<sm, failure, seq, inFlight, sentBytes, chunkBytes, boardVersion>>
  /\ outbox' \in {NoFrame, inFlight}

\* The session fails; only a re-check may have learned a version by then.
Halt ==
  /\ failure' # "None" /\ outbox' = NoFrame /\ inFlight' = NoFrame
  /\ UNCHANGED <<seq, sentBytes, chunkBytes>>
  /\ failure = "None" /\ sm # "done" /\ sm' \in {sm, "failed"} /\ sm' # "idle"
  /\ boardVersion' = boardVersion \/ (sm = "rechecking" /\ sm' = "failed")

\* The table goes on with a frame of its own number.
Advance(from, to, type) ==
  /\ sm = from /\ sm' = to
  /\ seq' = seq + 1
  /\ inFlight' \in HostFrames' /\ inFlight'.seq = seq' /\ inFlight'.type = type
  /\ outbox' = inFlight'
  /\ UNCHANGED failure

Silent(from, to) ==
  /\ sm = from /\ sm' = to
  /\ inFlight' = NoFrame /\ outbox' = NoFrame
  /\ UNCHANGED <<failure, seq, sentBytes, chunkBytes>>

KeepTransfer == UNCHANGED <<sentBytes, chunkBytes>>

\* The chunk in flight is the one at sentBytes.
ChunkSent ==
  /\ inFlight'.offset = sentBytes' /\ inFlight'.len >= chunkBytes'
  /\ sentBytes' + chunkBytes' <= imageBytes

ProbeMove == Advance("idle", "probing", "INFO_REQ") /\ KeepTransfer /\ UNCHANGED boardVersion
FirstMove == Advance("beginning", "sending", "DATA") /\ sentBytes' = 0 /\ ChunkSent
             /\ UNCHANGED boardVersion
MoreMove  == Advance("sending", "sending", "DATA") /\ sentBytes' = sentBytes + chunkBytes
             /\ ChunkSent /\ UNCHANGED boardVersion
CommitMove == Advance("sending", "committing", "COMMIT") /\ sentBytes' = sentBytes + chunkBytes
              /\ sentBytes' = imageBytes /\ UNCHANGED boardVersion
RebootMove == Silent("committing", "rebooting") /\ UNCHANGED boardVersion
RecheckMove == Advance("rebooting", "rechecking", "INFO_REQ") /\ KeepTransfer /\ UNCHANGED boardVersion
FinishMove == Silent("confirming", "done") /\ UNCHANGED boardVersion

BeginMove(f) == Advance("probing", "beginning", "BEGIN") /\ KeepTransfer /\ f.version # Version
                /\ boardVersion' = f.version
TrialMove(f) == Advance("probing", "confirming", "CONFIRM") /\ KeepTransfer /\ boardVersion' = Version
KeptMove(f)  == Silent("probing", "done") /\ f.version = Version /\ f.state = "CONFIRMED"
                /\ boardVersion' = Version
ConfirmMove  == Advance("rechecking", "confirming", "CONFIRM") /\ KeepTransfer /\ boardVersion' = Version

AckMove  == MoreMove \/ CommitMove \/ FinishMove
InfoMove(f) == BeginMove(f) \/ TrialMove(f) \/ KeptMove(f) \/ ConfirmMove

\* The session's own variables are typed after every call.
SessionOK ==
  /\ imageBytes' = imageBytes
  /\ failure' \in Failures /\ nakCode' \in NakCodes \cup {NoCode}
  /\ resends' \in 0 .. ResendBudget
  /\ chunkBytes' \in 0 .. ChunkBytes
  /\ boardVersion' \in {NoVersion, OldVersion, Version}

\* Send() as the rows of the table call it.
LEMMA SendAdvances ==
  ASSUME StateOK, imageBytes' = imageBytes,
         NEW type \in {"INFO_REQ", "BEGIN", "DATA", "COMMIT", "CONFIRM"},
         NEW offset \in 0 .. imageBytes, NEW len \in Nat, Send(type, offset, len)
  PROVE  /\ seq' = seq + 1 /\ inFlight' \in HostFrames' /\ inFlight'.seq = seq'
         /\ inFlight'.type = type /\ inFlight'.offset = offset /\ inFlight'.len = len
         /\ outbox' = inFlight' /\ resends' = 0 /\ resends' \in 0 .. ResendBudget
  <1>1. seq' = seq + 1 /\ inFlight' = Frame(type, seq + 1, offset, len) /\ outbox' = inFlight'
        /\ resends' = 0
    BY DEF Send
  <1>2. seq + 1 \in 0 .. seq' /\ offset \in 0 .. imageBytes'
    BY <1>1 DEF StateOK
  <1>3. QED
    BY <1>1, <1>2, Constants DEF Frame, HostFrames, Number

LEMMA ResendQuiet ==
  ASSUME StateOK, Resend, CanResend
  PROVE  outbox' \in {NoFrame, inFlight} /\ UNCHANGED <<seq, inFlight>>
         /\ resends' \in 0 .. ResendBudget
  BY Constants DEF Resend, CanResend, StateOK

LEMMA StopHalts ==
  ASSUME StateOK, NEW why \in Failures \ {"None"}, NEW code \in NakCodes \cup {NoCode},
         StopWith(why, code)
  PROVE  /\ failure' # "None" /\ outbox' = NoFrame /\ inFlight' = NoFrame /\ UNCHANGED seq
         /\ failure' \in Failures /\ nakCode' \in NakCodes \cup {NoCode}
         /\ resends' \in 0 .. ResendBudget
  BY DEF StopWith, FallSilent, StateOK

LEMMA ChunkAdvances ==
  ASSUME StateOK, imageBytes' = imageBytes, NEW from \in 0 .. imageBytes, SendDataChunk(from)
  PROVE  /\ seq' = seq + 1 /\ inFlight' \in HostFrames' /\ inFlight'.seq = seq'
         /\ inFlight'.type = "DATA" /\ outbox' = inFlight' /\ resends' \in 0 .. ResendBudget
         /\ sentBytes' = from /\ ChunkSent /\ chunkBytes' \in 0 .. ChunkBytes
  <1>1. imageBytes \in Nat /\ ChunkBytes \in Nat /\ ChunkBytes > 0
    BY Constants DEF StateOK
  <1>2. /\ sentBytes' = from /\ chunkBytes' \in 0 .. ChunkBytes
        /\ from + chunkBytes' <= imageBytes /\ Send("DATA", from, Padded(chunkBytes'))
    BY <1>1 DEF SendDataChunk
  <1>3. Padded(chunkBytes') \in Nat /\ Padded(chunkBytes') >= chunkBytes'
    BY <1>1, <1>2, PaddedCovers
  <1>4. QED
    BY <1>2, <1>3, SendAdvances DEF ChunkSent

LEMMA AckMoves ==
  ASSUME StateOK, TransferInv, imageBytes' = imageBytes, EvAck
  PROVE  SessionOK /\ (FirstMove \/ RebootMove \/ AckMove)
  <1>1. UNCHANGED <<failure, nakCode, boardVersion, alreadyUpToDate>> /\ imageBytes \in Nat
        /\ sentBytes \in Nat /\ chunkBytes \in Nat
    BY Constants DEF EvAck, verdict, learned, StateOK
  <1>2. CASE sm = "beginning" /\ SendDataChunk(0) /\ sm' = "sending"
    BY <1>1, <1>2, ChunkAdvances DEF FirstMove, Advance, SessionOK, StateOK
  <1>3. CASE sm = "sending" /\ MoreToSend /\ SendDataChunk(sentBytes + chunkBytes) /\ sm' = "sending"
    <2>1. sentBytes + chunkBytes \in 0 .. imageBytes
      BY <1>1, <1>3 DEF MoreToSend
    <2>2. QED
      BY <1>1, <1>3, <2>1, ChunkAdvances DEF AckMove, MoreMove, Advance, SessionOK, StateOK
  <1>4. CASE /\ sm = "sending" /\ ~MoreToSend /\ sentBytes' = sentBytes + chunkBytes
             /\ chunkBytes' = 0 /\ Send("COMMIT", 0, 0) /\ sm' = "committing"
    <2>1. sentBytes + chunkBytes = imageBytes
      BY <1>1, <1>4 DEF MoreToSend, TransferInv
    <2>2. 0 \in 0 .. imageBytes /\ 0 \in 0 .. ChunkBytes
      BY <1>1, Constants
    <2>3. QED
      BY <1>1, <1>4, <2>1, <2>2, SendAdvances DEF AckMove, CommitMove, Advance, SessionOK, StateOK
  <1>5. CASE sm = "committing" /\ FallSilent /\ sm' = "rebooting" /\ UNCHANGED transfer
    BY <1>1, <1>5 DEF FallSilent, transfer, RebootMove, Silent, SessionOK, StateOK
  <1>6. CASE sm = "confirming" /\ FallSilent /\ sm' = "done" /\ UNCHANGED transfer
    BY <1>1, <1>6 DEF FallSilent, transfer, AckMove, FinishMove, Silent, SessionOK, StateOK
  <1>7. QED
    BY <1>2, <1>3, <1>4, <1>5, <1>6 DEF EvAck, transfer

LEMMA InfoMoves ==
  ASSUME StateOK, imageBytes' = imageBytes, failure = "None", NEW f,
         f.version \in {OldVersion, Version}, EvInfo(f.version, f.state)
  PROVE  SessionOK /\ (Halt \/ InfoMove(f))
  <1>1. UNCHANGED <<sentBytes, chunkBytes>> /\ boardVersion' = f.version
        /\ 0 \in 0 .. imageBytes /\ imageBytes \in Nat /\ 0 \in Nat
    BY Constants DEF EvInfo, transfer, StateOK
  <1>2. CASE /\ sm = "probing" /\ IsConfirmedTarget(f.version, f.state) /\ FallSilent /\ sm' = "done"
             /\ UNCHANGED verdict
    BY <1>1, <1>2 DEF IsConfirmedTarget, FallSilent, verdict, InfoMove, KeptMove, Silent, SessionOK,
                      StateOK
  <1>3. CASE /\ sm \in {"probing", "rechecking"} /\ f.version = Version /\ Send("CONFIRM", 0, 0)
             /\ sm' = "confirming" /\ UNCHANGED verdict
    BY <1>1, <1>3, SendAdvances DEF verdict, InfoMove, TrialMove, ConfirmMove, Advance, KeepTransfer,
                                    SessionOK, StateOK
  <1>4. CASE /\ sm = "probing" /\ f.version # Version /\ Send("BEGIN", 0, imageBytes)
             /\ sm' = "beginning" /\ UNCHANGED verdict
    BY <1>1, <1>4, SendAdvances DEF verdict, InfoMove, BeginMove, Advance, KeepTransfer, SessionOK,
                                    StateOK
  <1>5. CASE sm = "rechecking" /\ StopWith("WrongVersion", NoCode) /\ sm' = "failed"
    BY <1>1, <1>5, StopHalts DEF Halt, SessionOK, StateOK, Failures
  <1>6. QED
    BY <1>2, <1>3, <1>4, <1>5 DEF EvInfo, IsTrialTarget

LEMMA OtherMoves ==
  ASSUME StateOK, imageBytes' = imageBytes, failure = "None", sm \notin {"done", "idle"},
         \/ EvTimeout \/ Unhandled \/ \E code \in NakCodes : EvNak(code)
  PROVE  SessionOK /\ (Halt \/ Quiet)
  <1>1. UNCHANGED <<sentBytes, chunkBytes, boardVersion>>
    BY DEF EvTimeout, Unhandled, EvNak, transfer, learned
  <1>2. CASE Resend /\ CanResend /\ UNCHANGED <<sm, verdict>>
    BY <1>1, <1>2, ResendQuiet DEF verdict, Quiet, SessionOK, StateOK
  <1>3. CASE \E why \in Failures \ {"None"}, code \in NakCodes \cup {NoCode} :
               StopWith(why, code) /\ sm' \in {sm, "failed"}
    BY <1>1, <1>3, StopHalts DEF Halt, SessionOK, StateOK
  <1>4. QED
    BY <1>2, <1>3 DEF EvTimeout, Unhandled, EvNak, DamagedAndCanResend, Failures

LEMMA StartMoves ==
  ASSUME StateOK, Start
  PROVE  SessionOK /\ (Halt \/ ProbeMove)
  <1>1. imageBytes' = imageBytes /\ UNCHANGED <<sentBytes, chunkBytes, boardVersion>> /\ sm = "idle"
        /\ 0 \in 0 .. imageBytes /\ 0 \in Nat
    BY Constants DEF Start, EvStart, transfer, learned, StateOK
  <1>2. CASE Send("INFO_REQ", 0, 0) /\ sm' = "probing" /\ UNCHANGED verdict
    BY <1>1, <1>2, SendAdvances DEF verdict, ProbeMove, Advance, KeepTransfer, SessionOK, StateOK
  <1>3. CASE imageBytes = 0 /\ StopWith("ProtocolError", NoCode) /\ sm' = "failed"
    BY <1>1, <1>3, StopHalts DEF Halt, SessionOK, StateOK, Failures
  <1>4. QED
    BY <1>2, <1>3 DEF Start, EvStart

\* The answers, taken apart.
LEMMA AnswerIs ==
  ASSUME NEW n, NEW f \in Answers(n)
  PROVE  /\ f.seq \in 0 .. n
         /\ f.type = "NAK" => f.code \in NakCodes
         /\ f.type = "INFO" => f.version \in {OldVersion, Version}
  BY DEF Answers

\* A frame from the board: acted on only when it answers the frame in flight,
\* or is INFO.
LEMMA FrameMoves ==
  ASSUME StateOK, TransferInv, NEW f \in Answers(seq), OnFrame(f)
  PROVE  /\ SessionOK
         /\ \/ Quiet \/ Halt
            \/ f.type = "ACK" /\ f.seq = seq /\ (FirstMove \/ RebootMove \/ AckMove)
            \/ f.type = "INFO" /\ InfoMove(f)
  <1>1. imageBytes' = imageBytes
    BY DEF OnFrame
  <1>2. CASE /\ outbox' = NoFrame
             /\ UNCHANGED <<sm, verdict, seq, inFlight, resends, waitingOut, transfer, learned>>
    BY <1>1, <1>2 DEF verdict, transfer, learned, Quiet, SessionOK, StateOK
  <1>3. CASE ~Inert /\ ~Stale(f)
    <2>1. failure = "None" /\ sm \notin {"done", "idle", "failed"}
      BY <1>3 DEF Inert, Stage
    <2>2. f.type = "ACK" => f.seq = seq
      BY <1>3 DEF Stale
    <2>3. \/ f.type = "ACK" /\ EvAck
          \/ \E code \in NakCodes : EvNak(code)
          \/ f.type = "INFO" /\ EvInfo(f.version, f.state)
          \/ Unhandled
      BY <1>3, AnswerIs DEF OnFrame
    <2>4. CASE f.type = "ACK" /\ EvAck
      BY <1>1, <2>2, <2>4, AckMoves
    <2>5. CASE f.type = "INFO" /\ EvInfo(f.version, f.state)
      BY <1>1, <2>1, <2>5, AnswerIs, InfoMoves
    <2>6. QED
      BY <1>1, <2>1, <2>3, <2>4, <2>5, OtherMoves
  <1>4. QED
    BY <1>2, <1>3 DEF OnFrame

LEMMA TickMoves ==
  ASSUME StateOK, OnTick
  PROVE  SessionOK /\ (Quiet \/ Halt \/ RecheckMove)
  <1>1. imageBytes' = imageBytes /\ failure = "None" /\ sm \notin {"done", "idle", "failed"}
    BY DEF OnTick, Inert, Stage
  <1>2. CASE /\ sm = "rebooting" /\ Send("INFO_REQ", 0, 0) /\ sm' = "rechecking"
             /\ UNCHANGED <<verdict, transfer, learned>>
    <2>1. 0 \in 0 .. imageBytes /\ 0 \in Nat
      BY Constants DEF StateOK
    <2>2. QED
      BY <1>1, <1>2, <2>1, SendAdvances
      DEF verdict, transfer, learned, RecheckMove, Advance, KeepTransfer, SessionOK, StateOK
  <1>3. CASE EvTimeout
    BY <1>1, <1>3, OtherMoves
  <1>4. QED
    BY <1>2, <1>3 DEF OnTick

-----------------------------------------------------------------------------
(* A step of the host.                                                     *)

HostLine ==
  /\ toBoard' = Transmit(toBoard, outbox')
  /\ toHost' = toHost \/ (toHost # <<>> /\ toHost' = Tail(toHost))
  /\ UNCHANGED board

Heard == \E i \in 1 .. Len(toHost) : toHost[i].type = "INFO" /\ InfoMove(toHost[i])

HostMove ==
  \/ Quiet \/ Halt
  \/ ProbeMove \/ RecheckMove \/ FirstMove \/ RebootMove
  \/ Acked /\ AckMove
  \/ Heard

LEMMA HostMoves ==
  ASSUME StateOK, TransferInv, Host
  PROVE  SessionOK /\ HostLine /\ HostMove
  <1>1. CASE HostStart
    BY <1>1, StartMoves DEF HostStart, HostLine, HostMove
  <1>2. CASE HostTick
    BY <1>2, TickMoves DEF HostTick, HostLine, HostMove
  <1>3. CASE HostFrame
    <2>1. toHost # <<>> /\ OnFrame(Head(toHost)) /\ HostLine
      BY <1>3 DEF HostFrame, HostLine
    <2>2. 1 \in 1 .. Len(toHost) /\ Head(toHost) = toHost[1] /\ Head(toHost) \in Answers(seq)
      BY <2>1, TailParts DEF StateOK
    <2> DEFINE f == Head(toHost)
    <2>3. /\ SessionOK
          /\ \/ Quiet \/ Halt
             \/ f.type = "ACK" /\ f.seq = seq /\ (FirstMove \/ RebootMove \/ AckMove)
             \/ f.type = "INFO" /\ InfoMove(f)
      BY <2>1, <2>2, FrameMoves
    <2>4. f.type = "ACK" /\ f.seq = seq => Acked
      BY <2>2 DEF Acked
    <2>5. f.type = "INFO" /\ InfoMove(f) => Heard
      BY <2>2 DEF Heard
    <2> HIDE DEF f
    <2>6. QED
      BY <2>1, <2>3, <2>4, <2>5 DEF HostMove
  <1>4. QED
    BY <1>1, <1>2, <1>3 DEF Host

\* The number either stands or is counted on by one, with the new frame.
LEMMA NumberMoves ==
  ASSUME StateOK, HostMove
  PROVE  /\ seq' \in Nat
         /\ \/ seq' = seq /\ outbox' \in {NoFrame, inFlight}
               /\ inFlight' \in {NoFrame, inFlight}
            \/ /\ seq' = seq + 1 /\ outbox' = inFlight' /\ inFlight' \in HostFrames'
               /\ inFlight'.seq = seq'
  BY DEF StateOK, HostMove, Quiet, Halt, ProbeMove, RecheckMove, FirstMove, RebootMove, AckMove,
         MoreMove, CommitMove, FinishMove, Heard, InfoMove, BeginMove, TrialMove, KeptMove,
         ConfirmMove, Advance, Silent

LEMMA HostTyped ==
  ASSUME StateOK, TransferInv, SessionOK, HostLine, HostMove
  PROVE  StateOK'
  <1>1. imageBytes' = imageBytes /\ imageBytes \in Nat /\ sentBytes \in Nat /\ chunkBytes \in Nat
    BY Constants DEF SessionOK, StateOK
  <1>2. /\ seq' \in Nat /\ seq' >= seq
        /\ outbox' \in {NoFrame, inFlight'} \cup {inFlight}
        /\ inFlight' \in HostFrames' \cup {NoFrame} /\ outbox' \in HostFrames' \cup {NoFrame}
    <2>1. CASE seq' = seq /\ outbox' \in {NoFrame, inFlight} /\ inFlight' \in {NoFrame, inFlight}
      <3>1. HostFrames' = HostFrames
        BY <1>1, <2>1 DEF HostFrames, Number
      <3>2. QED
        BY <2>1, <3>1 DEF StateOK
    <2>2. CASE seq' = seq + 1 /\ outbox' = inFlight' /\ inFlight' \in HostFrames'
      BY <2>2 DEF StateOK
    <2>3. QED
      BY <2>1, <2>2, NumberMoves
  <1>3. outbox' \in {NoFrame, inFlight'}
    BY <1>2 DEF HostMove, Quiet, Halt, ProbeMove, RecheckMove, FirstMove, RebootMove, AckMove,
         MoreMove, CommitMove, FinishMove, Heard, InfoMove, BeginMove, TrialMove, KeptMove,
         ConfirmMove, Advance, Silent
  <1>4. /\ toBoard \in Seq(HostFrames') /\ toHost \in Seq(Answers(seq')) /\ Number \subseteq Number'
    BY <1>1, <1>2, NumbersGrow
  <1>5. toBoard' \in Seq(HostFrames') /\ Len(toBoard') <= LineDepth
    BY <1>2, <1>4, TransmitParts DEF HostLine, StateOK
  <1>6. toHost' \in Seq(Answers(seq')) /\ Len(toHost') <= LineDepth
    <2>1. CASE toHost' = toHost
      BY <1>4, <2>1 DEF StateOK
    <2>2. CASE toHost # <<>> /\ toHost' = Tail(toHost)
      <3>1. /\ Len(toHost) \in Nat /\ Len(toHost') = Len(toHost) - 1
            /\ toHost' \in Seq(Answers(seq'))
        BY <1>4, <2>2, TailParts
      <3>2. QED
        BY <3>1, Constants DEF StateOK
    <2>3. QED
      BY <2>1, <2>2 DEF HostLine
  <1>7. /\ sm' \in Waiting \cup {"idle", "rebooting", "done", "failed"}
        /\ sentBytes' \in 0 .. imageBytes'
        /\ sm' # "idle" /\ sm' # "failed" => seq' > 0
        /\ sm' = "idle" => failure' = "None"
    <2>1. CASE Quiet \/ Halt
      BY <1>1, <2>1 DEF StateOK, Quiet, Halt
    <2>2. CASE ProbeMove \/ RecheckMove
      BY <1>1, <2>2 DEF StateOK, ProbeMove, RecheckMove, Advance, KeepTransfer, Waiting
    <2>3. CASE FirstMove \/ MoreMove \/ CommitMove
      BY <1>1, <2>3 DEF StateOK, TransferInv, FirstMove, MoreMove, CommitMove, Advance, ChunkSent,
                        Waiting
    <2>4. CASE RebootMove \/ FinishMove
      BY <1>1, <2>4 DEF StateOK, RebootMove, FinishMove, Silent
    <2>5. CASE Heard
      BY <1>1, <2>5 DEF StateOK, Heard, InfoMove, BeginMove, TrialMove, KeptMove, ConfirmMove,
                        Advance, Silent, KeepTransfer, Waiting
    <2>6. QED
      BY <2>1, <2>2, <2>3, <2>4, <2>5 DEF HostMove, AckMove
  <1>8. QED
    BY <1>2, <1>3, <1>4, <1>5, <1>6, <1>7 DEF StateOK, SessionOK, HostLine, board

LEMMA HostTransfer ==
  ASSUME StateOK, TransferInv, SessionOK, HostMove
  PROVE  TransferInv'
  <1>1. imageBytes' = imageBytes /\ imageBytes \in Nat /\ sentBytes \in Nat /\ chunkBytes \in Nat
    BY Constants DEF SessionOK, StateOK
  <1>2. CASE Quiet \/ Halt
    BY <1>1, <1>2 DEF TransferInv, Quiet, Halt
  <1>3. CASE ProbeMove \/ RecheckMove
    BY <1>1, <1>3 DEF TransferInv, ProbeMove, RecheckMove, Advance, KeepTransfer
  <1>4. CASE FirstMove \/ MoreMove \/ CommitMove
    BY <1>1, <1>4 DEF TransferInv, FirstMove, MoreMove, CommitMove, Advance, ChunkSent
  <1>5. CASE RebootMove \/ FinishMove
    BY <1>1, <1>5 DEF TransferInv, RebootMove, FinishMove, Silent
  <1>6. CASE Heard
    BY <1>1, <1>6 DEF TransferInv, Heard, InfoMove, BeginMove, TrialMove, KeptMove, ConfirmMove,
                      Advance, Silent, KeepTransfer
  <1>7. QED
    BY <1>2, <1>3, <1>4, <1>5, <1>6 DEF HostMove, AckMove

\* The line after a call: what was on it, and perhaps the new frame.
LEMMA LineParts ==
  ASSUME StateOK, StateOK', HostLine
  PROVE  /\ Len(toBoard) \in Nat /\ Len(toBoard') \in Nat
         /\ \A i \in 1 .. Len(toBoard') :
              \/ i \in 1 .. Len(toBoard) /\ toBoard'[i] = toBoard[i]
              \/ i = Len(toBoard) + 1 /\ toBoard'[i] = inFlight' /\ inFlight' # NoFrame
                 /\ outbox' = inFlight'
         /\ \A j \in 1 .. Len(toHost') : \E i \in 1 .. Len(toHost) : toHost'[j] = toHost[i]
  <1> DEFINE S == HostFrames \cup HostFrames'
  <1>2. toBoard \in Seq(S)
    BY SeqGrows DEF StateOK
  <1>3. (outbox' = NoFrame \/ outbox' \in S) /\ outbox' \in {NoFrame, inFlight'}
    BY DEF StateOK
  <1>4. Len(toBoard) <= LineDepth /\ toBoard' = Transmit(toBoard, outbox')
    BY DEF StateOK, HostLine
  <1> HIDE DEF S
  <1>5. /\ Len(toBoard) \in Nat /\ Len(toBoard') \in Nat
        /\ \A i \in 1 .. Len(toBoard) : toBoard'[i] = toBoard[i]
        /\ \/ Len(toBoard') = Len(toBoard)
           \/ /\ Len(toBoard') = Len(toBoard) + 1
              /\ toBoard'[Len(toBoard) + 1] = outbox' /\ outbox' # NoFrame
    <2>1. LET t == Transmit(toBoard, outbox') IN
          /\ t \in Seq(S) /\ Len(t) <= LineDepth /\ Len(toBoard) \in Nat
          /\ \A i \in 1 .. Len(toBoard) : t[i] = toBoard[i]
          /\ \/ Len(t) = Len(toBoard)
             \/ /\ Len(t) = Len(toBoard) + 1 /\ t[Len(toBoard) + 1] = outbox' /\ outbox' \in S
                /\ outbox' # NoFrame
      BY <1>2, <1>3, <1>4, TransmitParts
    <2>2. QED
      BY <1>4, <2>1, LenProperties
  <1>6. \A j \in 1 .. Len(toHost') : \E i \in 1 .. Len(toHost) : toHost'[j] = toHost[i]
    <2>1. CASE toHost' = toHost
      BY <2>1
    <2>2. CASE toHost # <<>> /\ toHost' = Tail(toHost)
      BY <2>2, TailParts DEF StateOK
    <2>3. QED
      BY <2>1, <2>2 DEF HostLine
  <1>7. QED
    BY <1>3, <1>5, <1>6

LEMMA FramesStay ==
  ASSUME StateOK, HostMove, NEW f \in HostFrames, Fits(f)
  PROVE  Fits(f)'
  <1>1. f.seq <= seq /\ f.seq \in Nat /\ seq \in Nat
    BY DEF HostFrames, Number, StateOK
  <1>2. CASE Quiet
    BY <1>2 DEF Quiet, Fits, Expected, InPlace
  <1>3. CASE Halt
    BY <1>3 DEF Halt, Fits, Expected, InPlace
  <1>4. CASE ProbeMove \/ RecheckMove \/ FirstMove \/ MoreMove \/ CommitMove
    BY <1>1, <1>4 DEF ProbeMove, RecheckMove, FirstMove, MoreMove, CommitMove, Advance, Fits, InPlace
  <1>5. CASE RebootMove \/ FinishMove
    BY <1>5 DEF RebootMove, FinishMove, Silent, Fits, Expected, InPlace
  <1>6. CASE Heard
    BY <1>1, <1>6 DEF Heard, InfoMove, BeginMove, TrialMove, KeptMove, ConfirmMove, Advance, Silent,
                      Fits, InPlace, Expected
  <1>7. QED
    BY <1>2, <1>3, <1>4, <1>5, <1>6 DEF HostMove, AckMove

LEMMA FlightFits ==
  ASSUME StateOK, WireInv, HostMove
  PROVE  FlightInv'
  <1>1. CASE Quiet
    BY <1>1 DEF WireInv, FlightInv, Quiet, Expected
  <1>2. CASE ProbeMove \/ RecheckMove \/ FirstMove \/ MoreMove \/ CommitMove
    BY <1>2 DEF ProbeMove, RecheckMove, FirstMove, MoreMove, CommitMove, Advance, ChunkSent,
                FlightInv, Expected, Waiting
  <1>3. CASE RebootMove \/ FinishMove \/ Halt
    BY <1>3 DEF RebootMove, FinishMove, Silent, Halt, FlightInv
  <1>4. CASE Heard
    BY <1>4 DEF Heard, InfoMove, BeginMove, TrialMove, KeptMove, ConfirmMove, Advance, Silent,
                FlightInv, Expected, Waiting
  <1>5. QED
    BY <1>1, <1>2, <1>3, <1>4 DEF HostMove, AckMove

\* A frame the table waits on is of a kind that may be sent now.
LEMMA FlightKind ==
  ASSUME FlightInv, inFlight # NoFrame
  PROVE  /\ sm \in Waiting /\ Fits(inFlight)
         /\ inFlight.type = "BEGIN" => sm = "beginning"
         /\ inFlight.type = "CONFIRM" <=> sm = "confirming"
         /\ inFlight.type = "COMMIT" => sm = "committing"
  BY DEF FlightInv, Fits, Expected, InPlace, Waiting

LEMMA HostWire ==
  ASSUME StateOK, StateOK', WireInv, HostLine, HostMove
  PROVE  WireInv'
  <1>1. FlightInv'
    BY FlightFits
  <1>2. /\ Len(toBoard) \in Nat /\ Len(toBoard') \in Nat
        /\ \A i \in 1 .. Len(toBoard') :
             \/ i \in 1 .. Len(toBoard) /\ toBoard'[i] = toBoard[i]
             \/ i = Len(toBoard) + 1 /\ toBoard'[i] = inFlight' /\ inFlight' # NoFrame
    BY LineParts
  <1>3. \A i \in 1 .. Len(toBoard) : toBoard[i] \in HostFrames /\ Fits(toBoard[i])
    BY ElementOfSeq DEF WireInv, StateOK
  <1>4. inFlight' # NoFrame =>
          /\ sm' \in Waiting /\ Fits(inFlight)'
          /\ inFlight'.type = "BEGIN" => sm' = "beginning"
          /\ inFlight'.type = "CONFIRM" <=> sm' = "confirming"
    <2>1. (FlightInv /\ inFlight # NoFrame =>
            /\ sm \in Waiting /\ Fits(inFlight)
            /\ inFlight.type = "BEGIN" => sm = "beginning"
            /\ inFlight.type = "CONFIRM" <=> sm = "confirming")'
      BY FlightKind, PTL
    <2>2. QED
      BY <1>1, <2>1
  <1>5. \A i \in 1 .. Len(toBoard') : Fits(toBoard[i])'
    <2> SUFFICES ASSUME NEW i \in 1 .. Len(toBoard')
                 PROVE  Fits(toBoard[i])'
      OBVIOUS
    <2>1. \A f \in HostFrames : Fits(f) => Fits(f)'
      BY FramesStay
    <2>2. CASE i \in 1 .. Len(toBoard) /\ toBoard'[i] = toBoard[i]
      BY <1>3, <2>1, <2>2 DEF Fits, Expected, InPlace
    <2>3. CASE toBoard'[i] = inFlight' /\ inFlight' # NoFrame
      BY <1>4, <2>3 DEF Fits, Expected, InPlace
    <2>4. QED
      BY <1>2, <2>2, <2>3
  <1>6. ASSUME NEW i \in 1 .. Len(toBoard'), NEW j \in 1 .. Len(toBoard'), i < j
        PROVE  /\ toBoard'[j].type = "BEGIN" => toBoard'[i].type \in {"INFO_REQ", "BEGIN"}
               /\ toBoard'[i].type = "CONFIRM" => toBoard'[j].type = "CONFIRM"
    <2>1. i \in 1 .. Len(toBoard) /\ toBoard'[i] = toBoard[i]
      BY <1>2, <1>6
    <2>2. CASE j \in 1 .. Len(toBoard) /\ toBoard'[j] = toBoard[j]
      BY <1>6, <2>1, <2>2 DEF WireInv
    <2>3. CASE toBoard'[j] = inFlight' /\ inFlight' # NoFrame
      <3>1. InPlace(toBoard[i])' /\ toBoard'[i].type \in {"INFO_REQ", "BEGIN", "DATA", "COMMIT", "CONFIRM"}
        BY <1>3, <1>5, <2>1 DEF Fits, HostFrames
      <3>2. QED
        BY <1>4, <2>3, <3>1 DEF InPlace, Waiting
    <2>4. QED
      BY <1>2, <2>2, <2>3
  <1>7. QED
    BY <1>1, <1>5, <1>6 DEF WireInv

\* No new kind of frame gets on the line but the one in flight.
LEMMA NoneOfStays ==
  ASSUME StateOK, StateOK', HostLine, NEW type, NoneOf(type),
         inFlight' # NoFrame => inFlight'.type # type
  PROVE  NoneOf(type)'
  BY LineParts DEF NoneOf

\* An answer to a frame the session has just sent cannot be there yet.
LEMMA NotAckedYet ==
  ASSUME StateOK, StateOK', HostLine, seq' = seq + 1
  PROVE  ~Acked' /\ lastSeq' # seq'
  <1>1. seq \in Nat /\ lastSeq' = lastSeq /\ lastSeq \in 0 .. seq
    BY DEF StateOK, HostLine, board, Number
  <1>2. \A i \in 1 .. Len(toHost) : toHost[i].seq \in 0 .. seq
    BY ElementOfSeq, AnswerIs DEF StateOK
  <1>3. QED
    BY <1>1, <1>2, LineParts DEF Acked

LEMMA AckedBefore ==
  ASSUME StateOK, StateOK', HostLine, seq' = seq, lastSeq' = seq' \/ Acked'
  PROVE  lastSeq = seq \/ Acked
  BY LineParts DEF Acked, HostLine, board

\* Primed FlightKind.
LEMMA FlightKindNext ==
  ASSUME FlightInv', inFlight' # NoFrame
  PROVE  /\ sm' \in Waiting
         /\ inFlight'.type = "BEGIN" => sm' = "beginning"
         /\ inFlight'.type = "CONFIRM" <=> sm' = "confirming"
         /\ inFlight'.type = "COMMIT" => sm' = "committing"
  BY DEF FlightInv, Expected, Waiting

LEMMA KeptStays ==
  ASSUME StateOK, StateOK', WireInv', HostLine, Kept, sm' # "committing"
  PROVE  Kept'
  BY NoneOfStays, FlightKindNext DEF Kept, WireInv, HostLine, board

LEMMA StoredStays ==
  ASSUME StateOK, StateOK', WireInv', HostLine, NEW n \in Nat, Stored(n), sm' # "beginning"
  PROVE  Stored(n)'
  BY NoneOfStays, FlightKindNext DEF Stored, WireInv, HostLine, board

\* Which state the table came from.
LEMMA CameFrom ==
  ASSUME StateOK, HostMove
  PROVE  /\ sm' \in {"idle", "probing"} => sm \in {"idle", "probing"}
         /\ sm' = "beginning" =>
              \/ sm = "beginning" /\ (Quiet \/ Halt)
              \/ \E i \in 1 .. Len(toHost) : toHost[i].type = "INFO" /\ BeginMove(toHost[i])
         /\ sm' = "sending" =>
              \/ sm = "sending" /\ (Quiet \/ Halt)
              \/ FirstMove \/ (Acked /\ MoreMove)
         /\ sm' = "committing" => (sm = "committing" /\ (Quiet \/ Halt)) \/ (Acked /\ CommitMove)
         /\ sm' = "rebooting" => (sm = "rebooting" /\ (Quiet \/ Halt)) \/ RebootMove
         /\ sm' = "confirming" =>
              \/ sm = "confirming" /\ (Quiet \/ Halt)
              \/ seq' = seq + 1 /\ boardVersion' = Version
         /\ sm' = "done" =>
              \/ sm = "done" /\ Quiet
              \/ Acked /\ FinishMove
              \/ \E i \in 1 .. Len(toHost) : toHost[i].type = "INFO" /\ KeptMove(toHost[i])
  <1>1. CASE Quiet \/ Halt
    BY <1>1 DEF Quiet, Halt
  <1>2. CASE ProbeMove \/ RecheckMove \/ FirstMove \/ RebootMove
    BY <1>2 DEF ProbeMove, RecheckMove, FirstMove, RebootMove, Advance, Silent
  <1>3. CASE Acked /\ AckMove
    BY <1>3 DEF AckMove, MoreMove, CommitMove, FinishMove, Advance, Silent
  <1>4. CASE Heard
    BY <1>4 DEF Heard, InfoMove, BeginMove, TrialMove, KeptMove, ConfirmMove, Advance, Silent
  <1>5. QED
    BY <1>1, <1>2, <1>3, <1>4 DEF HostMove

LEMMA VersionMoves ==
  ASSUME StateOK, HostMove, boardVersion' # boardVersion
  PROVE  sm \in {"probing", "rechecking"}
  BY DEF HostMove, Quiet, Halt, ProbeMove, RecheckMove, FirstMove, RebootMove, AckMove,
         MoreMove, CommitMove, FinishMove, Heard, InfoMove, BeginMove, TrialMove, KeptMove,
         ConfirmMove, Advance, Silent

LEMMA HostBoard ==
  ASSUME StateOK, StateOK', WireInv, WireInv', BoardInv, HostLine, HostMove
  PROVE  BoardInv'
  <1>1. UNCHANGED <<running, state, lastSeq>>
    BY DEF HostLine, board
  <1>2. sm' \in {"idle", "probing"} => \A i \in 1 .. Len(toHost') : StillTrue(toHost[i])'
    BY <1>1, CameFrom, LineParts DEF BoardInv, StillTrue
  <1>3. sm' = "beginning" => running # Version
    <2>1. CASE sm = "beginning"
      BY <2>1 DEF BoardInv
    <2>2. ASSUME NEW i \in 1 .. Len(toHost), toHost[i].type = "INFO", BeginMove(toHost[i])
          PROVE  running # Version
      BY <2>2 DEF BeginMove, Advance, BoardInv, StillTrue
    <2>3. QED
      BY <2>1, <2>2, CameFrom
  <1>4. TargetNeverErased'
    BY <1>1, <1>3, LineParts, FlightKindNext DEF BoardInv, TargetNeverErased, WireInv
  <1>5. sm' = "confirming" => boardVersion' = Version
    BY CameFrom, VersionMoves DEF BoardInv
  <1>6. ConfirmsWhatItChecked'
    <2> SUFFICES ASSUME NEW i \in 1 .. Len(toBoard'), toBoard'[i].type = "CONFIRM"
                 PROVE  boardVersion' = Version
      BY DEF ConfirmsWhatItChecked
    <2>1. CASE i \in 1 .. Len(toBoard) /\ toBoard'[i] = toBoard[i]
      <3>1. boardVersion = Version /\ sm \in {"confirming", "done", "failed"}
        BY <2>1 DEF BoardInv, ConfirmsWhatItChecked, WireInv, Fits, InPlace
      <3>2. QED
        BY <3>1, VersionMoves
    <2>2. CASE toBoard'[i] = inFlight' /\ inFlight' # NoFrame
      BY <1>5, <2>2, FlightKindNext DEF WireInv
    <2>3. QED
      BY <2>1, <2>2, LineParts
  <1>7. sm' = "confirming" /\ (lastSeq' = seq' \/ Acked') => Kept'
    <2> SUFFICES ASSUME sm' = "confirming", lastSeq' = seq' \/ Acked' PROVE Kept'
      OBVIOUS
    <2>1. sm = "confirming" /\ seq' = seq
      BY CameFrom, NotAckedYet DEF Quiet, Halt
    <2>2. Kept
      BY <2>1, AckedBefore DEF BoardInv
    <2>3. QED
      BY <2>2, KeptStays
  <1>8. sm' = "done" => Kept'
    <2> SUFFICES ASSUME sm' = "done" PROVE Kept'
      OBVIOUS
    <2>1. CASE sm = "done" \/ (Acked /\ FinishMove)
      BY <2>1, KeptStays DEF FinishMove, Silent, BoardInv
    <2>2. ASSUME NEW i \in 1 .. Len(toHost), toHost[i].type = "INFO", KeptMove(toHost[i])
          PROVE  Kept'
      <3>1. running = Version /\ state = "CONFIRMED" /\ sm = "probing"
        BY <2>2 DEF KeptMove, Silent, BoardInv, StillTrue
      <3>2. NoneOf("COMMIT")
        BY <3>1 DEF NoneOf, WireInv, Fits, InPlace
      <3>3. QED
        BY <3>1, <3>2, KeptStays DEF Kept
    <2>3. QED
      BY <2>1, <2>2, CameFrom
  <1>9. QED
    BY <1>1, <1>2, <1>3, <1>4, <1>5, <1>6, <1>7, <1>8 DEF BoardInv

LEMMA HostFlash ==
  ASSUME StateOK, StateOK', WireInv', FlashInv, HostLine, HostMove
  PROVE  FlashInv'
  <1>1. sentBytes \in Nat /\ chunkBytes \in Nat /\ sentBytes + chunkBytes \in Nat
    BY Constants DEF StateOK
  <1>2. sm' = "sending" /\ sentBytes' > 0 => Stored(sentBytes)'
    <2> SUFFICES ASSUME sm' = "sending", sentBytes' > 0 PROVE Stored(sentBytes)'
      OBVIOUS
    <2>1. \E n \in Nat : n = sentBytes' /\ Stored(n)
      <3>1. CASE sm = "sending" /\ (Quiet \/ Halt)
        BY <1>1, <3>1 DEF Quiet, Halt, FlashInv
      <3>2. CASE Acked /\ MoreMove
        BY <1>1, <3>2 DEF MoreMove, Advance, FlashInv
      <3>3. QED
        BY <3>1, <3>2, CameFrom DEF FirstMove
    <2>2. PICK n \in Nat : n = sentBytes' /\ Stored(n)
      BY <2>1
    <2>3. Stored(n)'
      BY <2>2, StoredStays
    <2>4. QED
      BY <2>2, <2>3 DEF Stored
  <1>3. sm' = "sending" /\ (lastSeq' = seq' \/ Acked') => Stored(sentBytes + chunkBytes)'
    <2> SUFFICES ASSUME sm' = "sending", lastSeq' = seq' \/ Acked' PROVE Stored(sentBytes + chunkBytes)'
      OBVIOUS
    <2>1. sm = "sending" /\ (Quiet \/ Halt)
      BY CameFrom, NotAckedYet DEF FirstMove, MoreMove, Advance
    <2>2. PICK n \in Nat : n = sentBytes + chunkBytes /\ n = sentBytes' + chunkBytes' /\ Stored(n)
      BY <1>1, <2>1, AckedBefore DEF Quiet, Halt, FlashInv
    <2>3. Stored(n)'
      BY <2>2, StoredStays
    <2>4. QED
      BY <2>2, <2>3 DEF Stored
  <1>4. sm' \in {"committing", "rebooting"} => Stored(sentBytes)'
    <2> SUFFICES ASSUME sm' \in {"committing", "rebooting"} PROVE Stored(sentBytes)'
      OBVIOUS
    <2>1. \E n \in Nat : n = sentBytes' /\ Stored(n)
      <3>1. CASE sm \in {"committing", "rebooting"} /\ (Quiet \/ Halt \/ RebootMove)
        BY <1>1, <3>1 DEF Quiet, Halt, RebootMove, Silent, FlashInv
      <3>2. CASE Acked /\ CommitMove
        BY <1>1, <3>2 DEF CommitMove, Advance, FlashInv
      <3>3. QED
        BY <3>1, <3>2, CameFrom DEF RebootMove, Silent
    <2>2. PICK n \in Nat : n = sentBytes' /\ Stored(n)
      BY <2>1
    <2>3. Stored(n)'
      BY <2>2, StoredStays
    <2>4. QED
      BY <2>2, <2>3 DEF Stored
  <1>5. QED
    BY <1>2, <1>3, <1>4 DEF FlashInv

LEMMA HostStep ==
  ASSUME UpdateInv, Host
  PROVE  UpdateInv'
  <1>1. SessionOK /\ HostLine /\ HostMove
    BY HostMoves DEF UpdateInv
  <1>2. StateOK' /\ TransferInv'
    BY <1>1, HostTyped, HostTransfer DEF UpdateInv
  <1>3. WireInv'
    BY <1>1, <1>2, HostWire DEF UpdateInv
  <1>4. QED
    BY <1>1, <1>2, <1>3, HostBoard, HostFlash DEF UpdateInv

-----------------------------------------------------------------------------
(* A step of the line or of the board.                                     *)

\* A frame may leave the one direction; the other may lose one or get f.
OtherLine(f) ==
  /\ UNCHANGED sessionVars
  /\ toBoard' = toBoard \/ (toBoard # <<>> /\ toBoard' = Tail(toBoard))
  /\ toHost' = toHost \/ (toHost # <<>> /\ toHost' = Tail(toHost)) \/ toHost' = Transmit(toHost, f)

LEMMA TakeParts ==
  ASSUME StateOK, NEW f, OtherLine(f)
  PROVE  /\ toBoard' \in Seq(HostFrames) /\ Len(toBoard') <= LineDepth
         /\ Len(toBoard) \in Nat /\ Len(toBoard') \in Nat
         /\ \A i \in 1 .. Len(toBoard') : \E k \in 1 .. Len(toBoard) : toBoard'[i] = toBoard[k]
         /\ \A i, j \in 1 .. Len(toBoard') : i < j =>
              \E k, l \in 1 .. Len(toBoard) :
                k < l /\ toBoard'[i] = toBoard[k] /\ toBoard'[j] = toBoard[l]
  <1>1. Len(toBoard) \in Nat /\ LineDepth \in Nat
    BY Constants, LenProperties DEF StateOK
  <1>2. CASE toBoard' = toBoard
    BY <1>1, <1>2 DEF StateOK
  <1>3. CASE toBoard # <<>> /\ toBoard' = Tail(toBoard)
    <2>1. /\ Len(toBoard) >= 1 /\ toBoard' \in Seq(HostFrames) /\ Len(toBoard') = Len(toBoard) - 1
          /\ \A i \in 1 .. Len(toBoard) - 1 : toBoard'[i] = toBoard[i + 1]
      BY <1>3, TailParts DEF StateOK
    <2>2. \A i \in 1 .. Len(toBoard') : i + 1 \in 1 .. Len(toBoard) /\ toBoard'[i] = toBoard[i + 1]
      BY <1>1, <2>1
    <2>3. ASSUME NEW i \in 1 .. Len(toBoard'), NEW j \in 1 .. Len(toBoard'), i < j
          PROVE  \E k, l \in 1 .. Len(toBoard) :
                   k < l /\ toBoard'[i] = toBoard[k] /\ toBoard'[j] = toBoard[l]
      <3>1. i + 1 < j + 1
        BY <2>3
      <3>2. QED
        BY <2>2, <3>1
    <2>4. QED
      BY <1>1, <2>1, <2>2, <2>3 DEF StateOK
  <1>4. QED
    BY <1>2, <1>3 DEF OtherLine

LEMMA HearParts ==
  ASSUME StateOK, NEW f \in Answers(seq), OtherLine(f)
  PROVE  /\ toHost' \in Seq(Answers(seq)) /\ Len(toHost') <= LineDepth
         /\ \A j \in 1 .. Len(toHost') :
              toHost'[j] = f \/ \E i \in 1 .. Len(toHost) : toHost'[j] = toHost[i]
  <1>1. Len(toHost) \in Nat /\ LineDepth \in Nat /\ Len(toHost) <= LineDepth
    BY Constants, LenProperties DEF StateOK
  <1>2. CASE toHost' = toHost
    BY <1>1, <1>2 DEF StateOK
  <1>3. CASE toHost # <<>> /\ toHost' = Tail(toHost)
    <2>1. /\ Len(toHost) >= 1 /\ toHost' \in Seq(Answers(seq)) /\ Len(toHost') = Len(toHost) - 1
          /\ \A i \in 1 .. Len(toHost) - 1 : toHost'[i] = toHost[i + 1]
      BY <1>3, TailParts DEF StateOK
    <2>2. QED
      BY <1>1, <2>1
  <1>4. CASE toHost' = Transmit(toHost, f)
    <2> DEFINE S == Answers(seq)
    <2>1. toHost \in Seq(S) /\ f \in S
      BY DEF StateOK
    <2> HIDE DEF S
    <2>2. LET t == Transmit(toHost, f) IN
          /\ t \in Seq(S) /\ Len(t) <= LineDepth /\ Len(toHost) \in Nat
          /\ \A i \in 1 .. Len(toHost) : t[i] = toHost[i]
          /\ \/ Len(t) = Len(toHost)
             \/ Len(t) = Len(toHost) + 1 /\ t[Len(toHost) + 1] = f /\ f \in S /\ f # NoFrame
      BY <1>1, <2>1, TransmitParts
    <2>3. /\ toHost' \in Seq(S) /\ Len(toHost') <= LineDepth
          /\ \A i \in 1 .. Len(toHost) : toHost'[i] = toHost[i]
          /\ Len(toHost') = Len(toHost) \/ (Len(toHost') = Len(toHost) + 1 /\ toHost'[Len(toHost) + 1] = f)
      BY <1>4, <2>2
    <2>4. \A j \in 1 .. Len(toHost') :
            toHost'[j] = f \/ \E i \in 1 .. Len(toHost) : toHost'[j] = toHost[i]
      BY <1>1, <2>3
    <2>5. QED
      BY <2>3, <2>4 DEF S
  <1>5. QED
    BY <1>2, <1>3, <1>4 DEF OtherLine

LEMMA OtherTyped ==
  ASSUME StateOK, NEW f \in Answers(seq), OtherLine(f),
         running' \in {OldVersion, Version}, state' \in {"CONFIRMED", "TRIAL"},
         written' \in Nat, announced' \in Nat, lastSeq' \in Number
  PROVE  StateOK'
  <1>1. UNCHANGED <<imageBytes, sm, failure, nakCode, seq, inFlight, resends, sentBytes, chunkBytes,
                    boardVersion, outbox>>
    BY DEF OtherLine, sessionVars, verdict, wire, transfer, learned
  <1>2. HostFrames' = HostFrames /\ Answers(seq)' = Answers(seq) /\ Number' = Number
    BY <1>1 DEF HostFrames, Answers, Number
  <1>3. QED
    BY <1>1, <1>2, TakeParts, HearParts DEF StateOK

LEMMA OtherWire ==
  ASSUME StateOK, TransferInv, WireInv, NEW f, OtherLine(f)
  PROVE  TransferInv' /\ WireInv'
  <1>1. UNCHANGED <<imageBytes, sm, seq, inFlight, sentBytes, chunkBytes>>
    BY DEF OtherLine, sessionVars, verdict, wire, transfer, learned
  <1>2. TransferInv' /\ FlightInv'
    BY <1>1 DEF TransferInv, WireInv, FlightInv, Expected
  <1>3. \A i \in 1 .. Len(toBoard') : Fits(toBoard[i])'
    <2> SUFFICES ASSUME NEW i \in 1 .. Len(toBoard')
                 PROVE  Fits(toBoard[i])'
      OBVIOUS
    <2>1. PICK k \in 1 .. Len(toBoard) : toBoard'[i] = toBoard[k]
      BY TakeParts
    <2>2. Fits(toBoard[k])
      BY DEF WireInv
    <2>3. QED
      BY <1>1, <2>1, <2>2 DEF Fits, Expected, InPlace
  <1>4. ASSUME NEW i \in 1 .. Len(toBoard'), NEW j \in 1 .. Len(toBoard'), i < j
        PROVE  /\ toBoard'[j].type = "BEGIN" => toBoard'[i].type \in {"INFO_REQ", "BEGIN"}
               /\ toBoard'[i].type = "CONFIRM" => toBoard'[j].type = "CONFIRM"
    <2>1. PICK k, l \in 1 .. Len(toBoard) : k < l /\ toBoard'[i] = toBoard[k] /\ toBoard'[j] = toBoard[l]
      BY <1>4, TakeParts
    <2>2. QED
      BY <2>1 DEF WireInv
  <1>5. QED
    BY <1>2, <1>3, <1>4 DEF WireInv

\* What the rest of the proof needs of such a step.
LEMMA OtherFacts ==
  ASSUME StateOK, NEW f \in Answers(seq), OtherLine(f)
  PROVE  /\ UNCHANGED <<sm, seq, sentBytes, chunkBytes, boardVersion>>
         /\ \A type : NoneOf(type) => NoneOf(type)'
         /\ Acked' => Acked \/ (f.type = "ACK" /\ f.seq = seq)
         /\ ConfirmsWhatItChecked => ConfirmsWhatItChecked'
         /\ TargetNeverErased /\ UNCHANGED running => TargetNeverErased'
  <1>1. UNCHANGED <<sm, seq, sentBytes, chunkBytes, boardVersion>>
    BY DEF OtherLine, sessionVars, verdict, wire, transfer, learned
  <1>2. \A type : NoneOf(type) => NoneOf(type)'
    BY TakeParts DEF NoneOf
  <1>3. Acked' => Acked \/ (f.type = "ACK" /\ f.seq = seq)
    BY <1>1, HearParts DEF Acked
  <1>4. ConfirmsWhatItChecked => ConfirmsWhatItChecked'
    BY <1>1, TakeParts DEF ConfirmsWhatItChecked
  <1>5. TargetNeverErased /\ UNCHANGED running => TargetNeverErased'
    BY TakeParts DEF TargetNeverErased
  <1>6. QED
    BY <1>1, <1>2, <1>3, <1>4, <1>5

\* Nothing the invariant looks at changes on the board: what it acknowledges it
\* has acted on before.
LEMMA BoardKeeps ==
  ASSUME StateOK, BoardInv, FlashInv, NEW f \in Answers(seq), OtherLine(f),
         UNCHANGED <<running, state, written, lastSeq>>,
         f.type = "ACK" => f.seq = lastSeq,
         f.type = "INFO" => f.version = running /\ f.state = state
  PROVE  BoardInv' /\ FlashInv'
  <1>1. Acked' => Acked \/ lastSeq = seq
    BY OtherFacts
  <1>2. StillTrue(f)
    BY DEF StillTrue
  <1>3. sm' \in {"idle", "probing"} => \A i \in 1 .. Len(toHost') : StillTrue(toHost[i])'
    BY <1>2, HearParts, OtherFacts DEF StillTrue, BoardInv
  <1>4. Kept => Kept'
    BY OtherFacts DEF Kept
  <1>5. BoardInv'
    BY <1>1, <1>3, <1>4, OtherFacts DEF BoardInv
  <1>6. NoneOf("BEGIN") => NoneOf("BEGIN")'
    BY OtherFacts
  <1>7. FlashInv'
    BY <1>1, <1>6, OtherFacts DEF FlashInv, Stored
  <1>8. QED
    BY <1>5, <1>7

\* The frame at the head of the line.
LEMMA HeadIs ==
  ASSUME StateOK, WireInv, toBoard # <<>>
  PROVE  /\ Head(toBoard) = toBoard[1] /\ 1 \in 1 .. Len(toBoard)
         /\ Head(toBoard) \in HostFrames /\ Fits(Head(toBoard))
         /\ Head(toBoard).seq \in Number /\ Head(toBoard).len \in Nat
  <1>1. /\ Head(toBoard) = toBoard[1] /\ 1 \in 1 .. Len(toBoard)
        /\ Head(toBoard) \in HostFrames
    BY TailParts DEF StateOK
  <1>2. QED
    BY <1>1 DEF WireInv, HostFrames

\* What stands behind it: nothing is erased after data or a commit was sent,
\* and only the confirmation follows a confirmation.
LEMMA BehindHead ==
  ASSUME StateOK, WireInv, toBoard # <<>>, toBoard' = Tail(toBoard)
  PROVE  /\ Head(toBoard).type \in {"DATA", "COMMIT"} => NoneOf("BEGIN")'
         /\ Head(toBoard).type = "CONFIRM" => NoneOf("COMMIT")' /\ NoneOf("BEGIN")'
  <1>1. /\ Head(toBoard) = toBoard[1] /\ 1 \in 1 .. Len(toBoard) /\ Len(toBoard) \in Nat
        /\ Len(toBoard') = Len(toBoard) - 1
        /\ \A i \in 1 .. Len(toBoard) - 1 : toBoard'[i] = toBoard[i + 1]
    BY TailParts DEF StateOK
  <1>2. ASSUME NEW i \in 1 .. Len(toBoard')
        PROVE  /\ toBoard'[i].type = "BEGIN" => Head(toBoard).type \in {"INFO_REQ", "BEGIN"}
               /\ Head(toBoard).type = "CONFIRM" => toBoard'[i].type = "CONFIRM"
    <2>1. i + 1 \in 1 .. Len(toBoard) /\ 1 < i + 1 /\ toBoard'[i] = toBoard[i + 1]
      BY <1>1
    <2>2. QED
      BY <1>1, <2>1 DEF WireInv
  <1>3. QED
    BY <1>2 DEF NoneOf

LEMMA AckTyped ==
  ASSUME NEW n \in Number
  PROVE  Ack(n) \in Answers(seq) /\ \A code \in NakCodes : Nak(n, code) \in Answers(seq)
  BY DEF Ack, Nak, Answers, Number

LEMMA AnswerLine ==
  ASSUME toBoard # <<>>, NEW f, Answer(f)
  PROVE  OtherLine(f) /\ toBoard' = Tail(toBoard)
  BY DEF Answer, OtherLine

\* A step that leaves what the invariant says of the board as it was.
KeepStep ==
  \E f \in Answers(seq) :
    /\ OtherLine(f)
    /\ UNCHANGED <<running, state, written, announced, lastSeq>>
    /\ f.type = "ACK" => f.seq = lastSeq
    /\ f.type = "INFO" => f.version = running /\ f.state = state

LEMMA KeepStepKeeps ==
  ASSUME UpdateInv, KeepStep
  PROVE  UpdateInv'
  <1>1. PICK f \in Answers(seq) :
          /\ OtherLine(f)
          /\ UNCHANGED <<running, state, written, announced, lastSeq>>
          /\ f.type = "ACK" => f.seq = lastSeq
          /\ f.type = "INFO" => f.version = running /\ f.state = state
    BY DEF KeepStep
  <1>2. StateOK'
    BY <1>1, OtherTyped DEF UpdateInv, StateOK
  <1>3. TransferInv' /\ WireInv'
    BY <1>1, OtherWire DEF UpdateInv
  <1>4. BoardInv' /\ FlashInv'
    BY <1>1, BoardKeeps DEF UpdateInv
  <1>5. QED
    BY <1>2, <1>3, <1>4 DEF UpdateInv

\* Refusals, repetitions, reports and losses are such steps.
LEMMA LineKeeps ==
  ASSUME UpdateInv, Line \/ BoardMisbehaves
  PROVE  KeepStep
  <1>1. seq \in Nat
    BY DEF UpdateInv, StateOK
  <1> DEFINE f == [type |-> "MALFORMED", seq |-> seq]
  <1>2. f \in Answers(seq) /\ f.type = "MALFORMED"
    BY <1>1 DEF Answers
  <1>3. OtherLine(f) /\ UNCHANGED board
    BY DEF Line, LoseToBoard, LoseToHost, BoardMisbehaves, OtherLine, line
  <1> HIDE DEF f
  <1>4. QED
    BY <1>2, <1>3 DEF KeepStep, board

LEMMA InfoKeeps ==
  ASSUME UpdateInv, BoardInfo
  PROVE  KeepStep
  <1>1. Head(toBoard).seq \in Number /\ toBoard # <<>>
    BY HeadIs DEF BoardInfo, UpdateInv
  <1> DEFINE f == Info(Head(toBoard).seq)
  <1>2. f \in Answers(seq) /\ f.type = "INFO" /\ f.version = running /\ f.state = state
    BY <1>1 DEF Info, Answers, UpdateInv, StateOK, Number
  <1>3. OtherLine(f) /\ UNCHANGED board
    BY <1>1, AnswerLine DEF BoardInfo
  <1> HIDE DEF f
  <1>4. QED
    BY <1>2, <1>3 DEF KeepStep, board

LEMMA RefusalKeeps ==
  ASSUME UpdateInv, toBoard # <<>>, NEW code \in NakCodes, Answer(Nak(Head(toBoard).seq, code)),
         UNCHANGED <<running, state, written, announced, lastSeq>>
  PROVE  KeepStep
  <1>1. Head(toBoard).seq \in Number
    BY HeadIs DEF UpdateInv
  <1> DEFINE f == Nak(Head(toBoard).seq, code)
  <1>2. f \in Answers(seq)
    BY <1>1, AckTyped
  <1>3. f.type = "NAK" /\ OtherLine(f)
    BY AnswerLine DEF Nak
  <1> HIDE DEF f
  <1>4. QED
    BY <1>2, <1>3 DEF KeepStep

LEMMA RepeatKeeps ==
  ASSUME UpdateInv, toBoard # <<>>, Head(toBoard).seq = lastSeq, Answer(Ack(Head(toBoard).seq)),
         UNCHANGED <<running, state, written, announced, lastSeq>>
  PROVE  KeepStep
  <1>1. Head(toBoard).seq \in Number
    BY HeadIs DEF UpdateInv
  <1> DEFINE f == Ack(Head(toBoard).seq)
  <1>2. f \in Answers(seq)
    BY <1>1, AckTyped
  <1>3. f.type = "ACK" /\ f.seq = lastSeq /\ OtherLine(f)
    BY AnswerLine DEF Ack
  <1> HIDE DEF f
  <1>4. QED
    BY <1>2, <1>3 DEF KeepStep

\* A step that acts on the head of the line and acknowledges it.
LEMMA ActingStep ==
  ASSUME UpdateInv, toBoard # <<>>, Answer(Ack(Head(toBoard).seq)),
         running' \in {OldVersion, Version}, state' \in {"CONFIRMED", "TRIAL"},
         written' \in Nat, announced' \in Nat, lastSeq' \in {Head(toBoard).seq, NoSeq}
  PROVE  /\ StateOK' /\ TransferInv' /\ WireInv'
         /\ UNCHANGED <<sm, seq, sentBytes, chunkBytes, boardVersion>>
         /\ \A type : NoneOf(type) => NoneOf(type)'
         /\ Acked' => Acked \/ Head(toBoard).seq = seq
         /\ ConfirmsWhatItChecked'
         /\ UNCHANGED running => TargetNeverErased'
         /\ toBoard' = Tail(toBoard)
         /\ \A j \in 1 .. Len(toHost') :
              toHost'[j].type # "INFO" \/ \E i \in 1 .. Len(toHost) : toHost'[j] = toHost[i]
  <1>1. Head(toBoard).seq \in Number /\ lastSeq' \in Number
    BY HeadIs DEF UpdateInv, Number, StateOK, NoSeq
  <1> DEFINE f == Ack(Head(toBoard).seq)
  <1>2. f \in Answers(seq) /\ f.type = "ACK" /\ f.seq = Head(toBoard).seq
    BY <1>1, AckTyped DEF Ack
  <1>3. OtherLine(f) /\ toBoard' = Tail(toBoard)
    BY AnswerLine
  <1> HIDE DEF f
  <1>4. StateOK'
    BY <1>1, <1>2, <1>3, OtherTyped DEF UpdateInv
  <1>5. TransferInv' /\ WireInv'
    BY <1>3, OtherWire DEF UpdateInv
  <1>6. \A j \in 1 .. Len(toHost') :
          toHost'[j].type # "INFO" \/ \E i \in 1 .. Len(toHost) : toHost'[j] = toHost[i]
    BY <1>2, <1>3, HearParts DEF UpdateInv
  <1>7. /\ UNCHANGED <<sm, seq, sentBytes, chunkBytes, boardVersion>>
        /\ \A type : NoneOf(type) => NoneOf(type)'
        /\ Acked' => Acked \/ (f.type = "ACK" /\ f.seq = seq)
        /\ ConfirmsWhatItChecked => ConfirmsWhatItChecked'
        /\ TargetNeverErased /\ UNCHANGED running => TargetNeverErased'
    BY <1>2, <1>3, OtherFacts DEF UpdateInv
  <1>8. ConfirmsWhatItChecked /\ TargetNeverErased
    BY DEF UpdateInv, BoardInv
  <1>9. QED
    BY <1>2, <1>3, <1>4, <1>5, <1>6, <1>7, <1>8

LEMMA BeginStep ==
  ASSUME UpdateInv, BoardBegin
  PROVE  UpdateInv'
  <1> DEFINE h == Head(toBoard)
  <1>1. /\ toBoard # <<>> /\ h.type = "BEGIN" /\ written' = 0 /\ announced' = h.len
        /\ lastSeq' = h.seq /\ Answer(Ack(h.seq)) /\ UNCHANGED <<running, state>>
    BY DEF BoardBegin
  <1>2. h = toBoard[1] /\ 1 \in 1 .. Len(toBoard) /\ Fits(h) /\ h.len \in Nat
    BY <1>1, HeadIs DEF UpdateInv
  <1>3. /\ StateOK' /\ TransferInv' /\ WireInv'
        /\ UNCHANGED <<sm, seq, sentBytes, chunkBytes, boardVersion>>
        /\ Acked' => Acked \/ h.seq = seq
        /\ ConfirmsWhatItChecked' /\ TargetNeverErased'
        /\ \A j \in 1 .. Len(toHost') :
             toHost'[j].type # "INFO" \/ \E i \in 1 .. Len(toHost) : toHost'[j] = toHost[i]
    BY <1>1, <1>2, ActingStep DEF UpdateInv, StateOK
  \* The bank is erased: nothing that speaks of its bytes can be in force.
  <1>4. running # Version /\ ~NoneOf("BEGIN")
    BY <1>1, <1>2 DEF UpdateInv, BoardInv, TargetNeverErased, NoneOf
  <1>5. sm \in {"sending", "confirming"} => h.seq # seq
    BY <1>1, <1>2 DEF Fits, Expected
  <1> HIDE DEF h
  <1>6. \A i \in 1 .. Len(toHost') : sm \in {"idle", "probing"} => StillTrue(toHost[i])'
    BY <1>1, <1>3 DEF UpdateInv, BoardInv, StillTrue
  <1>7. BoardInv'
    BY <1>1, <1>3, <1>4, <1>5, <1>6 DEF UpdateInv, BoardInv, Kept
  <1>8. FlashInv'
    BY <1>1, <1>3, <1>4, <1>5 DEF UpdateInv, FlashInv, Stored
  <1>9. QED
    BY <1>3, <1>7, <1>8 DEF UpdateInv

LEMMA DataStep ==
  ASSUME UpdateInv, BoardData
  PROVE  UpdateInv'
  <1> DEFINE h == Head(toBoard)
  <1>1. toBoard # <<>> /\ h.type = "DATA"
    BY DEF BoardData
  <1>2. h = toBoard[1] /\ 1 \in 1 .. Len(toBoard) /\ Fits(h) /\ h.len \in Nat /\ h.seq \in Number
    BY <1>1, HeadIs DEF UpdateInv
  <1>3. CASE /\ h.offset = written /\ written' = written + h.len /\ lastSeq' = h.seq
             /\ Answer(Ack(h.seq)) /\ UNCHANGED <<running, state, announced>>
    <2>1. written \in Nat /\ sentBytes \in Nat /\ chunkBytes \in Nat /\ written' \in Nat
      BY <1>2, <1>3, Constants DEF UpdateInv, StateOK
    <2>2. /\ StateOK' /\ TransferInv' /\ WireInv'
          /\ UNCHANGED <<sm, seq, sentBytes, chunkBytes, boardVersion>>
          /\ \A type : NoneOf(type) => NoneOf(type)'
          /\ Acked' => Acked \/ h.seq = seq
          /\ ConfirmsWhatItChecked' /\ TargetNeverErased'
          /\ toBoard' = Tail(toBoard)
          /\ \A j \in 1 .. Len(toHost') :
               toHost'[j].type # "INFO" \/ \E i \in 1 .. Len(toHost) : toHost'[j] = toHost[i]
      BY <1>1, <1>2, <1>3, <2>1, ActingStep DEF UpdateInv, StateOK
    <2>3. sm = "confirming" => h.seq # seq
      BY <1>1, <1>2 DEF Fits, Expected
    \* The bytes behind what the session counts are the frame's.
    <2>4. sm = "sending" /\ h.seq = seq => sentBytes = written /\ h.len >= chunkBytes
      BY <1>1, <1>2, <1>3 DEF Fits, Expected
    <2>5. NoneOf("BEGIN")'
      BY <1>1, <2>2, BehindHead DEF UpdateInv
    <2>6. written' >= written
      BY <1>2, <1>3, <2>1
    <2>7. sm = "sending" /\ h.seq = seq => sentBytes + chunkBytes <= written'
      BY <1>2, <1>3, <2>1, <2>4
    <2>8. lastSeq' = h.seq /\ UNCHANGED <<running, state>>
      BY <1>3
    <2> HIDE DEF h
    <2>9. \A i \in 1 .. Len(toHost') : sm \in {"idle", "probing"} => StillTrue(toHost[i])'
      BY <2>2, <2>8 DEF UpdateInv, BoardInv, StillTrue
    <2>10. Kept => Kept'
      BY <2>2, <2>8 DEF Kept
    <2>11. BoardInv'
      BY <2>2, <2>3, <2>8, <2>9, <2>10 DEF UpdateInv, BoardInv
    <2>12. \A n \in Nat : Stored(n) => n <= written'
      BY <2>1, <2>6 DEF Stored
    <2>13. sm = "sending" /\ (lastSeq' = seq \/ Acked') => sentBytes + chunkBytes <= written'
      BY <2>1, <2>2, <2>7, <2>8, <2>12 DEF UpdateInv, FlashInv
    <2>14. FlashInv'
      BY <2>1, <2>2, <2>5, <2>12, <2>13 DEF UpdateInv, FlashInv, Stored
    <2>15. QED
      BY <2>2, <2>11, <2>14 DEF UpdateInv
  <1>4. CASE /\ h.seq = lastSeq /\ Answer(Ack(h.seq))
             /\ UNCHANGED <<running, state, written, announced, lastSeq>>
    BY <1>1, <1>4, RepeatKeeps, KeepStepKeeps
  <1>5. CASE /\ \E code \in NakCodes : Answer(Nak(h.seq, code))
             /\ UNCHANGED <<running, state, written, announced, lastSeq>>
    BY <1>1, <1>5, RefusalKeeps, KeepStepKeeps
  <1>6. \A code \in {"BAD_STATE", "BAD_OFFSET", "FLASH_ERROR"} : code \in NakCodes
    BY DEF NakCodes
  <1>7. QED
    BY <1>3, <1>4, <1>5, <1>6 DEF BoardData, board

LEMMA CommitStep ==
  ASSUME UpdateInv, BoardCommit
  PROVE  UpdateInv'
  <1> DEFINE h == Head(toBoard)
  <1>1. toBoard # <<>> /\ h.type = "COMMIT"
    BY DEF BoardCommit
  <1>2. h = toBoard[1] /\ 1 \in 1 .. Len(toBoard) /\ Fits(h) /\ h.seq \in Number
    BY <1>1, HeadIs DEF UpdateInv
  <1>3. CASE /\ running' = Version /\ state' = "TRIAL" /\ lastSeq' = NoSeq
             /\ Answer(Ack(h.seq)) /\ UNCHANGED <<written, announced>>
    <2>1. /\ StateOK' /\ TransferInv' /\ WireInv'
          /\ UNCHANGED <<sm, seq, sentBytes, chunkBytes, boardVersion>>
          /\ \A type : NoneOf(type) => NoneOf(type)'
          /\ Acked' => Acked \/ h.seq = seq
          /\ ConfirmsWhatItChecked' /\ toBoard' = Tail(toBoard)
      BY <1>1, <1>3, ActingStep DEF UpdateInv, StateOK
    <2>2. sm \in {"sending", "confirming"} => h.seq # seq
      BY <1>1, <1>2 DEF Fits, Expected
    <2>3. sm \notin {"idle", "probing", "beginning"}
      BY <1>1, <1>2 DEF Fits, InPlace
    <2>4. ~NoneOf("COMMIT")
      BY <1>1, <1>2 DEF NoneOf
    <2>5. NoneOf("BEGIN")'
      BY <1>1, <2>1, BehindHead DEF UpdateInv
    <2>6. TargetNeverErased'
      BY <2>5 DEF TargetNeverErased, NoneOf
    <2>7. sm \in {"sending", "confirming"} => lastSeq' # seq
      BY <1>3 DEF NoSeq, UpdateInv, StateOK
    <2>8. UNCHANGED written /\ running' = Version
      BY <1>3
    <2> HIDE DEF h
    <2>9. BoardInv'
      BY <2>1, <2>2, <2>3, <2>4, <2>6, <2>7, <2>8 DEF UpdateInv, BoardInv, Kept
    <2>10. FlashInv'
      BY <2>1, <2>2, <2>5, <2>7, <2>8 DEF UpdateInv, FlashInv, Stored
    <2>11. QED
      BY <2>1, <2>9, <2>10 DEF UpdateInv
  <1>4. CASE /\ \E code \in NakCodes : Answer(Nak(h.seq, code))
             /\ UNCHANGED <<running, state, written, announced, lastSeq>>
    BY <1>1, <1>4, RefusalKeeps, KeepStepKeeps
  <1>5. \A code \in {"BAD_STATE", "VERIFY_FAILED"} : code \in NakCodes
    BY DEF NakCodes
  <1>6. QED
    BY <1>3, <1>4, <1>5 DEF BoardCommit, board

LEMMA ConfirmStep ==
  ASSUME UpdateInv, BoardConfirm
  PROVE  UpdateInv'
  <1> DEFINE h == Head(toBoard)
  <1>1. toBoard # <<>> /\ h.type = "CONFIRM"
    BY DEF BoardConfirm
  <1>2. h = toBoard[1] /\ 1 \in 1 .. Len(toBoard) /\ Fits(h) /\ h.seq \in Number
    BY <1>1, HeadIs DEF UpdateInv
  <1>3. CASE /\ state = "TRIAL" /\ state' = "CONFIRMED" /\ lastSeq' = h.seq
             /\ Answer(Ack(h.seq)) /\ UNCHANGED <<running, written, announced>>
    <2>1. /\ StateOK' /\ TransferInv' /\ WireInv'
          /\ UNCHANGED <<sm, seq, sentBytes, chunkBytes, boardVersion>>
          /\ ConfirmsWhatItChecked' /\ TargetNeverErased' /\ toBoard' = Tail(toBoard)
      BY <1>1, <1>3, ActingStep DEF UpdateInv, StateOK
    <2>2. sm \in {"confirming", "done", "failed"}
      BY <1>1, <1>2 DEF Fits, InPlace
    <2>3. running' = Version /\ state' = "CONFIRMED"
      BY <1>3 DEF UpdateInv, BoardInv
    <2>4. Kept'
      BY <1>1, <2>1, <2>3, BehindHead DEF Kept, UpdateInv
    <2>5. BoardInv'
      BY <2>1, <2>2, <2>3, <2>4 DEF UpdateInv, BoardInv
    <2>6. FlashInv'
      BY <2>1, <2>2 DEF FlashInv
    <2>7. QED
      BY <2>1, <2>5, <2>6 DEF UpdateInv
  <1>4. CASE /\ h.seq = lastSeq /\ Answer(Ack(h.seq))
             /\ UNCHANGED <<running, state, written, announced, lastSeq>>
    BY <1>1, <1>4, RepeatKeeps, KeepStepKeeps
  <1>5. CASE /\ \E code \in NakCodes : Answer(Nak(h.seq, code))
             /\ UNCHANGED <<running, state, written, announced, lastSeq>>
    BY <1>1, <1>5, RefusalKeeps, KeepStepKeeps
  <1>6. "BAD_STATE" \in NakCodes
    BY DEF NakCodes
  <1>7. QED
    BY <1>3, <1>4, <1>5, <1>6 DEF BoardConfirm, board

\* The session is dropped, or the old image is back: the number 0 answers no
\* frame the table waits on.
LEMMA ResetStep ==
  ASSUME UpdateInv, BoardGivesUp \/ BoardRollsBack
  PROVE  UpdateInv'
  <1> DEFINE f == [type |-> "MALFORMED", seq |-> seq]
  <1>1. f \in Answers(seq) /\ f.type = "MALFORMED"
    BY DEF Answers, UpdateInv, StateOK
  <1>2. OtherLine(f) /\ toBoard' = toBoard /\ toHost' = toHost /\ UNCHANGED <<written, announced>>
        /\ lastSeq' = NoSeq
    BY DEF BoardGivesUp, BoardRollsBack, OtherLine, line
  <1> HIDE DEF f
  <1>3. \/ UNCHANGED <<running, state>>
        \/ state = "TRIAL" /\ running' = OldVersion /\ state' = "CONFIRMED"
    BY DEF BoardGivesUp, BoardRollsBack
  <1>4. StateOK'
    BY <1>1, <1>2, <1>3, OtherTyped DEF UpdateInv, StateOK, NoSeq, Number
  <1>5. TransferInv' /\ WireInv'
    BY <1>2, OtherWire DEF UpdateInv
  <1>6. UNCHANGED <<sm, seq, sentBytes, chunkBytes, boardVersion>>
    BY <1>1, <1>2, OtherFacts DEF UpdateInv
  <1>7. sm \in {"sending", "confirming"} => lastSeq' # seq
    BY <1>2 DEF NoSeq, UpdateInv, StateOK
  <1>8. OldVersion # Version /\ (Acked' => Acked) /\ (NoneOf("BEGIN") => NoneOf("BEGIN")')
    BY <1>2, <1>6, Constants DEF Acked, NoneOf
  <1>9. Kept => Kept'
    BY <1>2, <1>3 DEF Kept, NoneOf
  <1>10. TargetNeverErased' /\ ConfirmsWhatItChecked'
    BY <1>2, <1>3, <1>6, <1>8 DEF UpdateInv, BoardInv, TargetNeverErased, ConfirmsWhatItChecked
  <1>11. sm \in {"idle", "probing"} => \A i \in 1 .. Len(toHost') : StillTrue(toHost[i])'
    BY <1>2, <1>3, <1>8 DEF UpdateInv, BoardInv, StillTrue
  <1>12. BoardInv'
    BY <1>3, <1>6, <1>7, <1>8, <1>9, <1>10, <1>11 DEF UpdateInv, BoardInv
  <1>13. FlashInv'
    BY <1>2, <1>6, <1>7, <1>8 DEF UpdateInv, FlashInv, Stored
  <1>14. QED
    BY <1>4, <1>5, <1>12, <1>13 DEF UpdateInv

LEMMA DamagedStep ==
  ASSUME UpdateInv, BoardDamaged
  PROVE  UpdateInv'
  <1>1. BadCrc \in NakCodes
    BY DEF NakCodes
  <1>2. QED
    BY <1>1, RefusalKeeps, KeepStepKeeps DEF BoardDamaged, board

-----------------------------------------------------------------------------
(* The invariant of the specification.                                     *)

LEMMA InitInv ==
  ASSUME UpdateInit
  PROVE  UpdateInv
  <1>1. imageBytes \in Nat /\ ResendBudget \in Nat /\ ChunkBytes \in Nat /\ LineDepth \in Nat
    BY Constants DEF UpdateInit, Init
  <1>2. Len(toBoard) = 0 /\ Len(toHost) = 0 /\ toBoard \in Seq(HostFrames) /\ toHost \in Seq(Answers(seq))
    BY EmptySeq DEF UpdateInit
  <1>3. StateOK
    BY <1>1, <1>2 DEF UpdateInit, Init, StateOK, Failures, NakCodes, NoCode, Number, NoSeq
  <1>4. TransferInv /\ WireInv /\ FlashInv
    BY <1>2 DEF UpdateInit, Init, TransferInv, WireInv, FlightInv, FlashInv
  <1>5. BoardInv
    BY <1>2 DEF UpdateInit, Init, BoardInv, TargetNeverErased, ConfirmsWhatItChecked
  <1>6. QED
    BY <1>3, <1>4, <1>5 DEF UpdateInv

LEMMA StutterInv ==
  ASSUME UpdateInv, UNCHANGED vars
  PROVE  UpdateInv'
  <1>1. KeepStep
    <2> DEFINE f == [type |-> "MALFORMED", seq |-> seq]
    <2>1. f \in Answers(seq) /\ f.type = "MALFORMED"
      BY DEF Answers, UpdateInv, StateOK
    <2>2. OtherLine(f) /\ UNCHANGED board
      BY DEF vars, OtherLine, line
    <2> HIDE DEF f
    <2>3. QED
      BY <2>1, <2>2 DEF KeepStep, board
  <1>2. QED
    BY <1>1, KeepStepKeeps

LEMMA NextInv ==
  ASSUME UpdateInv, [Next]_vars
  PROVE  UpdateInv'
  <1>1. CASE Host
    BY <1>1, HostStep
  <1>2. CASE Line \/ BoardMisbehaves
    BY <1>2, LineKeeps, KeepStepKeeps
  <1>3. CASE BoardInfo
    BY <1>3, InfoKeeps, KeepStepKeeps
  <1>4. CASE BoardBegin
    BY <1>4, BeginStep
  <1>5. CASE BoardData
    BY <1>5, DataStep
  <1>6. CASE BoardCommit
    BY <1>6, CommitStep
  <1>7. CASE BoardConfirm
    BY <1>7, ConfirmStep
  <1>8. CASE BoardDamaged
    BY <1>8, DamagedStep
  <1>9. CASE BoardGivesUp \/ BoardRollsBack
    BY <1>9, ResetStep
  <1>10. CASE UNCHANGED vars
    BY <1>10, StutterInv
  <1>11. QED
    BY <1>1, <1>2, <1>3, <1>4, <1>5, <1>6, <1>7, <1>8, <1>9, <1>10 DEF Next, Board

\* What the two ends know of each other holds in every reachable state.
THEOREM UpdateInvariant == Spec => []UpdateInv
  <1>1. UpdateInit => UpdateInv
    BY InitInv
  <1>2. UpdateInv /\ [Next]_vars => UpdateInv'
    BY NextInv
  <1>3. QED
    BY <1>1, <1>2, PTL DEF Spec

LEMMA FlagsStep ==
  ASSUME FlagsOK, [Next]_vars
  PROVE  FlagsOK'
  <1>1. receiving' \in {receiving, TRUE, FALSE}
    BY DEF Next, Host, HostStart, HostFrame, HostTick, Line, LoseToBoard, LoseToHost, Board, BoardInfo,
           BoardBegin, BoardData, BoardCommit, BoardConfirm, BoardDamaged, BoardGivesUp,
           BoardRollsBack, BoardMisbehaves, vars, board
  <1>2. waitingOut' \in {waitingOut, TRUE, FALSE} /\ alreadyUpToDate' \in {alreadyUpToDate, TRUE}
    <2>1. CASE UNCHANGED sessionVars
      BY <2>1 DEF sessionVars, wire, learned
    <2>2. CASE Host
      <3>1. \/ UNCHANGED <<waitingOut, alreadyUpToDate>>
            \/ \E e \in {1} : EvStart \/ EvAck \/ EvTimeout \/ Unhandled \/ OnTick
            \/ \E code : EvNak(code)
            \/ \E version, s : EvInfo(version, s)
        BY <2>2 DEF Host, HostStart, Start, HostFrame, OnFrame, HostTick, learned
      <3>2. CASE EvStart \/ EvTimeout \/ Unhandled \/ \E code : EvNak(code)
        BY <3>2 DEF EvStart, EvTimeout, Unhandled, EvNak, Send, Resend, StopWith, learned
      <3>3. CASE EvAck
        BY <3>3 DEF EvAck, SendDataChunk, Send, learned
      <3>4. CASE \E version, s : EvInfo(version, s)
        BY <3>4 DEF EvInfo, Send, StopWith
      <3>5. CASE OnTick
        BY <3>5 DEF OnTick, Send, EvTimeout, Resend, StopWith, learned
      <3>6. QED
        BY <3>1, <3>2, <3>3, <3>4, <3>5
    <2>3. QED
      BY <2>1, <2>2
      DEF Next, Line, LoseToBoard, LoseToHost, Board, BoardInfo, BoardBegin, BoardData, BoardCommit,
          BoardConfirm, BoardDamaged, BoardGivesUp, BoardRollsBack, BoardMisbehaves, Answer, vars
  <1>3. QED
    BY <1>1, <1>2, Zenon DEF FlagsOK

\* Every variable keeps its type: the numbers on the line are the session's, an
\* offset is inside the image, and a frame is sent again no more often than the
\* budget of Timing allows.
THEOREM TypeInvariant == Spec => []TypeOK
  <1>1. UpdateInit => FlagsOK
    BY DEF UpdateInit, Init, FlagsOK
  <1>2. FlagsOK /\ [Next]_vars => FlagsOK'
    BY FlagsStep
  <1>3. UpdateInv /\ FlagsOK => TypeOK
    BY Zenon DEF UpdateInv, StateOK, FlagsOK, TypeOK
  <1>4. QED
    BY <1>1, <1>2, <1>3, UpdateInvariant, PTL DEF Spec

\* A session that reports done left a board that runs the target version and
\* will not roll back, whatever the line lost, damaged or repeated.
THEOREM DoneIsKept == Spec => []DoneMeansKept
  <1>1. UpdateInv => DoneMeansKept
    BY DEF UpdateInv, BoardInv, DoneMeansKept, Stage, Kept
  <1>2. QED
    BY <1>1, UpdateInvariant, PTL

\* The bytes bytesAcknowledged() counts are in the board's flash.
THEOREM AckedIsWritten == Spec => []AckedBytesAreInFlash
  <1>1. UpdateInv => AckedBytesAreInFlash
    BY Constants DEF UpdateInv, StateOK, FlashInv, AckedBytesAreInFlash, Stage, Stored
  <1>2. QED
    BY <1>1, UpdateInvariant, PTL

\* No BEGIN is on the line while the board runs the target version.
THEOREM TargetKeptWhole == Spec => []TargetNeverErased
  BY UpdateInvariant, PTL DEF UpdateInv, BoardInv

\* No CONFIRM is on the line unless the board reported the target version.
THEOREM ConfirmsChecked == Spec => []ConfirmsWhatItChecked
  BY UpdateInvariant, PTL DEF UpdateInv, BoardInv

-----------------------------------------------------------------------------
(* The promise of OneUpdate, without its fairness.                         *)

PromiseSafety == Promise!Init /\ [][Promise!Next]_(Promise!updateVars)

Phase == IF Stage \in {"idle", "done", "failed"} THEN Stage ELSE "active"

\* A session that has failed does not move again.
LEMMA FailedIsFinal ==
  ASSUME StateOK, Host, failure # "None"
  PROVE  UNCHANGED <<sm, failure, sentBytes, imageBytes>>
  BY DEF StateOK, Host, HostStart, Start, EvStart, HostFrame, OnFrame, HostTick, OnTick, Inert, Stage,
         verdict, transfer

PromiseStep ==
  \/ UNCHANGED <<Phase, sentBytes, imageBytes>>
  \/ /\ Phase = "idle" /\ Phase' \in {"active", "failed"} /\ UNCHANGED <<sentBytes, imageBytes>>
  \/ /\ Phase = "active" /\ sentBytes' \in sentBytes .. imageBytes /\ UNCHANGED <<Phase, imageBytes>>
  \/ /\ Phase = "active" /\ Phase' \in {"done", "failed"}
     /\ Phase' = "done" => sentBytes \in {0, imageBytes}
     /\ UNCHANGED <<sentBytes, imageBytes>>

LEMMA CountGrows ==
  ASSUME NEW count \in Nat, NEW next \in Nat, NEW chunk \in Nat, NEW nextChunk \in Nat,
         NEW size \in Nat,
         \/ count = 0 /\ next = 0
         \/ next = count + chunk /\ next + nextChunk <= size
         \/ next = count + chunk /\ next = size
  PROVE  next \in count .. size
  OBVIOUS

LEMMA HostPromise ==
  ASSUME UpdateInv, Host
  PROVE  PromiseStep
  <1>1. SessionOK /\ HostMove
    BY HostMoves DEF UpdateInv
  <1>2. /\ imageBytes' = imageBytes /\ imageBytes \in Nat /\ sentBytes \in Nat /\ chunkBytes \in Nat
        /\ chunkBytes' \in Nat /\ sentBytes' \in Nat
    BY <1>1, HostTransfer, HostTyped, HostMoves, Constants DEF SessionOK, StateOK, UpdateInv
  <1>3. CASE failure # "None"
    BY <1>3, FailedIsFinal DEF UpdateInv, PromiseStep, Phase, Stage
  <1>4. CASE failure = "None" /\ Quiet
    BY <1>2, <1>4 DEF Quiet, PromiseStep, Phase, Stage
  <1>5. CASE Halt
    BY <1>2, <1>5 DEF Halt, PromiseStep, Phase, Stage
  <1>6. CASE failure = "None" /\ (ProbeMove \/ RecheckMove \/ RebootMove)
    BY <1>2, <1>6 DEF ProbeMove, RecheckMove, RebootMove, Advance, Silent, KeepTransfer, PromiseStep,
                      Phase, Stage
  <1>7. CASE failure = "None" /\ (FirstMove \/ MoreMove \/ CommitMove)
    <2>1. /\ sm \in {"beginning", "sending"} /\ sm' \in {"sending", "committing"}
          /\ failure' = "None"
      BY <1>7 DEF FirstMove, MoreMove, CommitMove, Advance
    <2>2. Phase = "active" /\ Phase' = "active"
      BY <1>7, <2>1 DEF Phase, Stage
    <2>3. sm = "beginning" => sentBytes = 0
      BY DEF UpdateInv, TransferInv
    <2>4. sentBytes' \in sentBytes .. imageBytes
      <3>1. \/ sentBytes = 0 /\ sentBytes' = 0
            \/ sentBytes' = sentBytes + chunkBytes /\ sentBytes' + chunkBytes' <= imageBytes
            \/ sentBytes' = sentBytes + chunkBytes /\ sentBytes' = imageBytes
        BY <1>7, <2>3 DEF FirstMove, MoreMove, CommitMove, Advance, ChunkSent
      <3>2. QED
        BY <1>2, <3>1, CountGrows
    <2>5. QED
      BY <1>2, <2>2, <2>4 DEF PromiseStep
  <1>8. CASE failure = "None" /\ FinishMove
    BY <1>2, <1>8 DEF FinishMove, Silent, PromiseStep, Phase, Stage, UpdateInv, TransferInv
  <1>9. CASE failure = "None" /\ Heard
    BY <1>2, <1>9 DEF Heard, InfoMove, BeginMove, TrialMove, KeptMove, ConfirmMove, Advance, Silent,
                      KeepTransfer, PromiseStep, Phase, Stage, UpdateInv, TransferInv
  <1>10. QED
    BY <1>1, <1>3, <1>4, <1>5, <1>6, <1>7, <1>8, <1>9 DEF HostMove, AckMove

\* The session keeps the safety half of the promise: it starts once, its
\* acknowledged bytes only grow and stay inside the image, done and failed are
\* final, and done is reached with all of the image acknowledged or none sent.
THEOREM UpdateImplementsOneUpdate == Spec => PromiseSafety
  <1>1. UpdateInit => Promise!Init
    BY Constants DEF UpdateInit, Init, Promise!Init, Stage
  <1>2. UpdateInv /\ [Next]_vars => [Promise!Next]_(Promise!updateVars)
    <2> SUFFICES ASSUME UpdateInv, [Next]_vars
                 PROVE  [Promise!Next]_(Promise!updateVars)
      OBVIOUS
    <2>1. PromiseStep
      <3>1. CASE Host
        BY <3>1, HostPromise
      <3>2. CASE UNCHANGED sessionVars
        BY <3>2 DEF sessionVars, verdict, transfer, PromiseStep, Phase, Stage
      <3>3. QED
        BY <3>1, <3>2
        DEF Next, Line, LoseToBoard, LoseToHost, Board, BoardInfo, BoardBegin, BoardData, BoardCommit,
            BoardConfirm, BoardDamaged, BoardGivesUp, BoardRollsBack, BoardMisbehaves, Answer, vars
    <2>2. QED
      BY <2>1 DEF PromiseStep, Phase, Promise!Next, Promise!Begin, Promise!Advance, Promise!End,
                  Promise!updateVars
  <1>3. QED
    BY <1>1, <1>2, UpdateInvariant, PTL DEF Spec, PromiseSafety
============================================================================
