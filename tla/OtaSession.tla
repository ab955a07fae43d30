---------------------------- MODULE OtaSession ----------------------------
(***************************************************************************)
(* OtaSession (src/integration/OtaSession.cpp): the host's half of one     *)
(* firmware update, as the pure state machine the repository keeps it in.  *)
(* Three calls drive it: start(), onFrame() with a decoded answer of the   *)
(* board, and onTick().  Each leaves in `outbox' the frame the caller has  *)
(* to send now, or NoFrame.                                                *)
(*                                                                         *)
(* Time is not modelled: OnTick is a tick whose deadline has passed, which *)
(* may be at any moment after the frame was sent, before or after its      *)
(* answer arrives.  A tick before the deadline does nothing in the code.   *)
(***************************************************************************)
EXTENDS Integers

CONSTANTS ImageSizes,   \* the sizes an image may have, in bytes
          ChunkBytes,   \* kDataChunkBytes
          WordBytes,    \* kFlashWordBytes
          ResendBudget, \* Timing::resends
          OldVersion,   \* what the board ran before
          Version,      \* the version the image reports once it runs
          NoFrame       \* an empty outbox, nothing in flight

ASSUME OtaConstants ==
  /\ ImageSizes \subseteq Nat
  /\ WordBytes \in Nat \ {0}
  /\ ChunkBytes \in Nat \ {0} /\ ChunkBytes % WordBytes = 0
  /\ ResendBudget \in Nat
  /\ OldVersion # Version

VARIABLES imageBytes,      \* image.size()
          sm,              \* the state of the transition table
          failure, nakCode,
          seq, inFlight, resends, waitingOut,
          sentBytes, chunkBytes,
          boardVersion, alreadyUpToDate,
          outbox

transfer == <<sentBytes, chunkBytes>>
verdict == <<failure, nakCode>>
learned == <<boardVersion, alreadyUpToDate>>
wire == <<seq, inFlight, resends, waitingOut, outbox>>
sessionVars == <<imageBytes, sm, verdict, wire, transfer, learned>>

NoVersion == 0
Waiting == {"probing", "beginning", "sending", "committing", "rechecking", "confirming"}
Failures == {"None", "BoardRefused", "NoAnswer", "ProtocolError", "WrongVersion"}
BadCrc == "BAD_CRC"
NakCodes == {BadCrc, "BAD_STATE", "BAD_OFFSET", "FLASH_ERROR", "VERIFY_FAILED"}
NoCode == "none"

\* stage(): a failure hides where the table stopped.
Stage == IF failure # "None" THEN "failed" ELSE sm

\* onFrame() and onTick() return at once in these.
Inert == Stage \in {"idle", "done", "failed"}

Init ==
  /\ imageBytes \in ImageSizes
  /\ sm = "idle"
  /\ failure = "None" /\ nakCode = NoCode
  /\ seq = 0 /\ inFlight = NoFrame /\ resends = 0 /\ waitingOut = FALSE
  /\ sentBytes = 0 /\ chunkBytes = 0
  /\ boardVersion = NoVersion /\ alreadyUpToDate = FALSE
  /\ outbox = NoFrame

-----------------------------------------------------------------------------
(* What the rows of the table do *)

\* The length of a chunk of n bytes once padded to whole flash words.
Padded(n) == ((n + WordBytes - 1) \div WordBytes) * WordBytes

Frame(type, number, offset, len) ==
  [type |-> type, seq |-> number, offset |-> offset, len |-> len]

Send(type, offset, len) ==
  /\ seq' = seq + 1
  /\ inFlight' = Frame(type, seq + 1, offset, len)
  /\ outbox' = inFlight'
  /\ resends' = 0
  /\ waitingOut' = FALSE

Resend ==
  /\ resends' = resends + 1
  /\ outbox' = inFlight
  /\ UNCHANGED <<seq, inFlight, waitingOut>>

\* inFlight and outbox are cleared; nothing is sent.
FallSilent ==
  /\ inFlight' = NoFrame
  /\ outbox' = NoFrame
  /\ UNCHANGED <<seq, resends>>

SendDataChunk(from) ==
  /\ sentBytes' = from
  /\ chunkBytes' = IF imageBytes - from < ChunkBytes THEN imageBytes - from ELSE ChunkBytes
  /\ Send("DATA", from, Padded(chunkBytes'))

\* stopWith().  waitingOut is left as it was.
StopWith(why, code) ==
  /\ failure' = why
  /\ nakCode' = code
  /\ FallSilent
  /\ UNCHANGED waitingOut

-----------------------------------------------------------------------------
(* Guards *)

\* Defect: a board on trial counts as up to date.
AnyTarget(version, state) == version = Version

IsConfirmedTarget(version, state) == version = Version /\ state = "CONFIRMED"
IsTrialTarget(version, state) == version = Version /\ state = "TRIAL"

MoreToSend == sentBytes + chunkBytes < imageBytes

CanResend == resends < ResendBudget
DamagedAndCanResend(code) == code = BadCrc /\ CanResend

-----------------------------------------------------------------------------
(* The table, one operator per event *)

EvStart ==
  /\ sm = "idle"
  /\ \/ /\ imageBytes > 0
        /\ Send("INFO_REQ", 0, 0)
        /\ sm' = "probing"
        /\ UNCHANGED verdict
     \/ /\ imageBytes = 0
        /\ StopWith("ProtocolError", NoCode)
        /\ sm' = "failed"
  /\ UNCHANGED <<transfer, learned>>

HandlesAck == sm \in {"beginning", "sending", "committing", "confirming"}

EvAck ==
  /\ HandlesAck
  /\ \/ /\ sm = "beginning"
        /\ SendDataChunk(0)
        /\ sm' = "sending"
     \/ /\ sm = "sending" /\ MoreToSend
        /\ SendDataChunk(sentBytes + chunkBytes)
        /\ sm' = "sending"
     \/ /\ sm = "sending" /\ ~MoreToSend
        /\ sentBytes' = sentBytes + chunkBytes
        /\ chunkBytes' = 0
        /\ Send("COMMIT", 0, 0)
        /\ sm' = "committing"
     \/ /\ sm = "committing"      \* kWaitOutReboot
        /\ FallSilent
        /\ waitingOut' = TRUE
        /\ sm' = "rebooting"
        /\ UNCHANGED transfer
     \/ /\ sm = "confirming"      \* kFinish
        /\ FallSilent
        /\ sm' = "done"
        /\ UNCHANGED <<waitingOut, transfer>>
  /\ UNCHANGED <<verdict, learned>>

HandlesInfo(version, state) ==
  \/ sm = "probing" /\ (version # Version \/ state \in {"CONFIRMED", "TRIAL"})
  \/ sm = "rechecking"

\* Defect: an image on trial is sent again.
EvInfoRestart(version, state) ==
  /\ HandlesInfo(version, state)
  /\ boardVersion' = version
  /\ IF sm = "probing" THEN Send("BEGIN", 0, imageBytes) /\ sm' = "beginning"
                       ELSE Send("CONFIRM", 0, 0) /\ sm' = "confirming"
  /\ UNCHANGED <<alreadyUpToDate, verdict, transfer>>

\* Defect: whatever comes back after the reset is confirmed.
EvInfoUnchecked(version, state) ==
  /\ boardVersion' = version
  /\ sm' = "confirming"
  /\ Send("CONFIRM", 0, 0)
  /\ UNCHANGED <<alreadyUpToDate, verdict, transfer>>

EvInfo(version, state) ==
  /\ HandlesInfo(version, state)
  /\ boardVersion' = version
  /\ \/ /\ sm = "probing" /\ IsConfirmedTarget(version, state)   \* kFinishUpToDate
        /\ alreadyUpToDate' = TRUE
        /\ FallSilent
        /\ sm' = "done"
        /\ UNCHANGED <<waitingOut, verdict>>
     \/ /\ sm = "probing" /\ ~IsConfirmedTarget(version, state) /\ IsTrialTarget(version, state)
        /\ Send("CONFIRM", 0, 0)
        /\ sm' = "confirming"
        /\ UNCHANGED <<alreadyUpToDate, verdict>>
     \/ /\ sm = "probing" /\ version # Version
        /\ Send("BEGIN", 0, imageBytes)
        /\ sm' = "beginning"
        /\ UNCHANGED <<alreadyUpToDate, verdict>>
     \/ /\ sm = "rechecking" /\ version = Version
        /\ Send("CONFIRM", 0, 0)
        /\ sm' = "confirming"
        /\ UNCHANGED <<alreadyUpToDate, verdict>>
     \/ /\ sm = "rechecking" /\ version # Version
        /\ StopWith("WrongVersion", NoCode)
        /\ sm' = "failed"
        /\ UNCHANGED alreadyUpToDate
  /\ UNCHANGED transfer

EvNak(code) ==
  /\ sm \in Waiting
  /\ \/ /\ DamagedAndCanResend(code)
        /\ Resend
        /\ UNCHANGED <<sm, verdict>>
     \/ /\ ~DamagedAndCanResend(code)
        /\ StopWith("BoardRefused", code)
        /\ sm' = "failed"
  /\ UNCHANGED <<transfer, learned>>

EvTimeout ==
  /\ sm \in Waiting
  /\ \/ /\ CanResend
        /\ Resend
        /\ UNCHANGED <<sm, verdict>>
     \/ /\ ~CanResend
        /\ StopWith("NoAnswer", NoCode)
        /\ sm' = "failed"
  /\ UNCHANGED <<transfer, learned>>

\* dispatch(), when no row matches: the table stays where it is.
Unhandled ==
  /\ StopWith("ProtocolError", NoCode)
  /\ UNCHANGED <<sm, transfer, learned>>

-----------------------------------------------------------------------------
(* The calls *)

Start ==
  /\ EvStart
  /\ UNCHANGED imageBytes

\* Defect: INFO is not the only frame whose number is not compared.
StaleNever(frame) == FALSE

\* An answer to a frame the session has moved past, recognised by its number.
\* INFO is exempt from the comparison.
Stale(frame) == frame.type # "INFO" /\ frame.seq # seq

OnFrame(frame) ==
  /\ UNCHANGED imageBytes
  /\ \/ /\ Inert \/ Stale(frame)
        /\ outbox' = NoFrame
        /\ UNCHANGED <<sm, verdict, seq, inFlight, resends, waitingOut, transfer, learned>>
     \/ /\ ~Inert /\ ~Stale(frame)
        /\ CASE frame.type = "ACK" /\ HandlesAck -> EvAck
             [] frame.type = "NAK" /\ sm \in Waiting -> EvNak(frame.code)
             [] frame.type = "INFO" /\ HandlesInfo(frame.version, frame.state)
                  -> EvInfo(frame.version, frame.state)
             [] OTHER -> Unhandled

\* Defect: a tick is honoured in a finished session too.
OnTickAlways ==
  /\ sm # "idle"
  /\ UNCHANGED imageBytes
  /\ IF sm \in Waiting THEN EvTimeout ELSE Unhandled

OnTick ==
  /\ ~Inert
  /\ UNCHANGED imageBytes
  /\ \/ /\ waitingOut              \* EvRebootDone
        /\ sm = "rebooting"
        /\ Send("INFO_REQ", 0, 0)
        /\ sm' = "rechecking"
        /\ UNCHANGED <<verdict, transfer, learned>>
     \/ /\ ~waitingOut
        /\ EvTimeout
=============================================================================
