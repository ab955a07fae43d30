----------------------------- MODULE OtaUpdate -----------------------------
(***************************************************************************)
(* One update: OtaSession at one end of a serial line, the board at the    *)
(* other.  The line keeps frames in order and may lose or damage any of    *)
(* them; it has no flow control, so a frame that finds LineDepth others    *)
(* before it is overrun.  Repetitions come from the session's resends,     *)
(* which a late answer provokes as well as a lost one.                     *)
(*                                                                         *)
(* The board is not part of the repository.  It is modelled from what the  *)
(* session relies on (and docs/protocols/uart-flash-v1.md writes down): it *)
(* answers a repeated frame without acting twice, refuses what its state   *)
(* does not allow, ends its session after a silence, and goes back to the  *)
(* old image when a trial is not confirmed.                                *)
(***************************************************************************)
EXTENDS OtaSession, Sequences

CONSTANTS LineDepth,   \* frames one direction of the line can hold
          Misbehaves   \* whether the board may send frames the protocol has not

ASSUME LineConstants == LineDepth \in Nat \ {0} /\ Misbehaves \in BOOLEAN

VARIABLES toBoard, toHost,  \* the two directions of the line
          running,          \* version of the running image
          state,            \* "CONFIRMED" or "TRIAL"
          receiving,        \* inside an update session
          written,          \* contiguous bytes in the empty bank
          announced,        \* image size from BEGIN
          lastSeq           \* number of the last frame acted on

line == <<toBoard, toHost>>
board == <<running, state, receiving, written, announced, lastSeq>>
vars == <<sessionVars, line, board>>

NoSeq == 0

\* What a send, or an answer, does to one direction of the line.
Transmit(queue, frame) ==
  IF frame = NoFrame \/ Len(queue) >= LineDepth THEN queue ELSE Append(queue, frame)

Ack(number) == [type |-> "ACK", seq |-> number]
Nak(number, code) == [type |-> "NAK", seq |-> number, code |-> code]
Info(number) == [type |-> "INFO", seq |-> number, version |-> running, state |-> state]

UpdateInit ==
  /\ Init
  /\ toBoard = <<>> /\ toHost = <<>>
  /\ \/ running = OldVersion /\ state = "CONFIRMED"
     \/ running = Version /\ state \in {"CONFIRMED", "TRIAL"}
  /\ receiving = FALSE /\ written = 0 /\ announced = 0 /\ lastSeq = NoSeq

-----------------------------------------------------------------------------
(* The host: the owner of the session transmits what each call leaves in   *)
(* the outbox.                                                             *)

HostStart ==
  /\ Start
  /\ toBoard' = Transmit(toBoard, outbox')
  /\ UNCHANGED <<toHost, board>>

HostFrame ==
  /\ toHost # <<>>
  /\ OnFrame(Head(toHost))
  /\ toHost' = Tail(toHost)
  /\ toBoard' = Transmit(toBoard, outbox')
  /\ UNCHANGED board

HostTick ==
  /\ OnTick
  /\ toBoard' = Transmit(toBoard, outbox')
  /\ UNCHANGED <<toHost, board>>

-----------------------------------------------------------------------------
(* The line *)

LoseToBoard ==
  /\ toBoard # <<>>
  /\ toBoard' = Tail(toBoard)
  /\ UNCHANGED <<sessionVars, toHost, board>>

LoseToHost ==
  /\ toHost # <<>>
  /\ toHost' = Tail(toHost)
  /\ UNCHANGED <<sessionVars, toBoard, board>>

-----------------------------------------------------------------------------
(* The board *)

\* The frame at the head of the line is taken and answered.
Answer(frame) ==
  /\ toBoard' = Tail(toBoard)
  /\ toHost' = Transmit(toHost, frame)
  /\ UNCHANGED sessionVars

\* A damaged frame is answered inside a session only.
BoardDamaged ==
  /\ toBoard # <<>>
  /\ receiving
  /\ Answer(Nak(Head(toBoard).seq, BadCrc))
  /\ UNCHANGED board

BoardInfo ==
  /\ toBoard # <<>> /\ Head(toBoard).type = "INFO_REQ"
  /\ Answer(Info(Head(toBoard).seq))
  /\ UNCHANGED board

\* The empty bank is erased, also when a session was open.
BoardBegin ==
  /\ toBoard # <<>> /\ Head(toBoard).type = "BEGIN"
  /\ receiving' = TRUE
  /\ written' = 0
  /\ announced' = Head(toBoard).len
  /\ lastSeq' = Head(toBoard).seq
  /\ Answer(Ack(Head(toBoard).seq))
  /\ UNCHANGED <<running, state>>

BoardData ==
  /\ toBoard # <<>> /\ Head(toBoard).type = "DATA"
  /\ LET frame == Head(toBoard) IN
     \/ /\ ~receiving
        /\ Answer(Nak(frame.seq, "BAD_STATE"))
        /\ UNCHANGED board
     \/ /\ receiving /\ frame.seq = lastSeq
        /\ Answer(Ack(frame.seq))
        /\ UNCHANGED board
     \/ /\ receiving /\ frame.seq # lastSeq /\ frame.offset # written
        /\ Answer(Nak(frame.seq, "BAD_OFFSET"))
        /\ UNCHANGED board
     \/ /\ receiving /\ frame.seq # lastSeq /\ frame.offset = written
        /\ written' = written + frame.len
        /\ lastSeq' = frame.seq
        /\ Answer(Ack(frame.seq))
        /\ UNCHANGED <<running, state, receiving, announced>>
     \/ /\ receiving /\ frame.seq # lastSeq /\ frame.offset = written
        /\ receiving' = FALSE
        /\ Answer(Nak(frame.seq, "FLASH_ERROR"))
        /\ UNCHANGED <<running, state, written, announced, lastSeq>>

\* The bank is switched only when all of the announced image is there.  The
\* reset forgets the session, so a repeated COMMIT is refused.
BoardCommit ==
  /\ toBoard # <<>> /\ Head(toBoard).type = "COMMIT"
  /\ LET frame == Head(toBoard) IN
     \/ /\ ~receiving
        /\ Answer(Nak(frame.seq, "BAD_STATE"))
        /\ UNCHANGED board
     \/ /\ receiving
        /\ receiving' = FALSE
        /\ \/ /\ written >= announced
              /\ running' = Version /\ state' = "TRIAL"
              /\ lastSeq' = NoSeq
              /\ Answer(Ack(frame.seq))
           \/ /\ Answer(Nak(frame.seq, "VERIFY_FAILED"))
              /\ UNCHANGED <<running, state, lastSeq>>
        /\ UNCHANGED <<written, announced>>

BoardConfirm ==
  /\ toBoard # <<>> /\ Head(toBoard).type = "CONFIRM"
  /\ LET frame == Head(toBoard) IN
     \/ /\ state = "TRIAL"
        /\ state' = "CONFIRMED"
        /\ lastSeq' = frame.seq
        /\ Answer(Ack(frame.seq))
        /\ UNCHANGED <<running, receiving, written, announced>>
     \/ /\ state = "CONFIRMED" /\ frame.seq = lastSeq
        /\ Answer(Ack(frame.seq))
        /\ UNCHANGED board
     \/ /\ state = "CONFIRMED" /\ frame.seq # lastSeq
        /\ Answer(Nak(frame.seq, "BAD_STATE"))
        /\ UNCHANGED board

\* Silence, or a reset, during the transfer.
BoardGivesUp ==
  /\ receiving
  /\ receiving' = FALSE
  /\ lastSeq' = NoSeq
  /\ UNCHANGED <<sessionVars, line, running, state, written, announced>>

\* The trial was not confirmed in time, or the new image crashed.
BoardRollsBack ==
  /\ state = "TRIAL"
  /\ running' = OldVersion /\ state' = "CONFIRMED"
  /\ receiving' = FALSE /\ lastSeq' = NoSeq
  /\ UNCHANGED <<sessionVars, line, written, announced>>

\* A frame of an unknown type, or one whose payload has the wrong length.
BoardMisbehaves ==
  /\ Misbehaves
  /\ toHost' = Transmit(toHost, [type |-> "MALFORMED", seq |-> seq])
  /\ UNCHANGED <<sessionVars, toBoard, board>>

-----------------------------------------------------------------------------
Host == HostStart \/ HostFrame \/ HostTick
Line == LoseToBoard \/ LoseToHost
Board ==
  \/ BoardInfo \/ BoardBegin \/ BoardData \/ BoardCommit \/ BoardConfirm
  \/ BoardDamaged \/ BoardGivesUp \/ BoardRollsBack \/ BoardMisbehaves

Next == Host \/ Line \/ Board

\* The owner's tick timer keeps firing; nothing is assumed of the line and
\* of the board.
Fairness == WF_vars(HostTick)

Spec == UpdateInit /\ [][Next]_vars /\ Fairness

-----------------------------------------------------------------------------
Number == 0 .. seq
HostFrames ==
  [type : {"INFO_REQ", "BEGIN", "DATA", "COMMIT", "CONFIRM"}, seq : Number,
   offset : 0 .. imageBytes, len : Nat]

\* Types; a frame is sent again no more often than the budget allows.
TypeOK ==
  /\ imageBytes \in ImageSizes
  /\ sm \in Waiting \cup {"idle", "rebooting", "done", "failed"}
  /\ failure \in Failures /\ nakCode \in NakCodes \cup {NoCode}
  /\ seq \in Nat
  /\ inFlight \in HostFrames \cup {NoFrame}
  /\ outbox \in {NoFrame, inFlight}
  /\ resends \in 0 .. ResendBudget
  /\ waitingOut \in BOOLEAN
  /\ sentBytes \in 0 .. imageBytes /\ chunkBytes \in 0 .. ChunkBytes
  /\ boardVersion \in {NoVersion, OldVersion, Version}
  /\ alreadyUpToDate \in BOOLEAN
  /\ toBoard \in Seq(HostFrames) /\ Len(toBoard) <= LineDepth
  /\ Len(toHost) <= LineDepth
  /\ running \in {OldVersion, Version} /\ state \in {"CONFIRMED", "TRIAL"}
  /\ receiving \in BOOLEAN
  /\ written \in Nat /\ announced \in Nat /\ lastSeq \in Number

\* "Done" is a promise about the other end of the line: the board runs the
\* target version and will not roll back, whatever was lost or repeated.
DoneMeansKept ==
  Stage = "done" => running = Version /\ state = "CONFIRMED"

\* The progress bytesAcknowledged() reports is in the board's flash: an ACK
\* counts for the chunk in flight only.
AckedBytesAreInFlash ==
  Stage \in {"sending", "committing", "rebooting"} => sentBytes <= written

\* A bank is erased for an update only while the board runs something else:
\* an image that only lacks its confirmation is not sent again.
TargetNeverErased ==
  \A i \in 1 .. Len(toBoard) : toBoard[i].type = "BEGIN" => running # Version

\* The board is asked to keep an image only after the session heard it report
\* the target version.
ConfirmsWhatItChecked ==
  \A i \in 1 .. Len(toBoard) : toBoard[i].type = "CONFIRM" => boardVersion = Version

\* The session keeps the promise of OneUpdate: done and failed are final (no
\* late answer, duplicate or tick moves it again), acknowledged bytes only grow,
\* and every update ends, however the line and the board behave.
Promise == INSTANCE OneUpdate WITH
             phase <- IF Stage \in {"idle", "done", "failed"} THEN Stage ELSE "active",
             acked <- sentBytes,
             size <- imageBytes
ImplementsOneUpdate == Promise!Spec

\* What OtaSession.cpp says of repeated answers ("normal traffic, not an
\* error") and the protocol of resends ("a resend is harmless"): a board that
\* keeps to the protocol never makes the session stop with ProtocolError.
ResendIsHarmless == imageBytes > 0 => failure # "ProtocolError"
=============================================================================
