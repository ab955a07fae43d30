----------------------------- MODULE OtaAgent -----------------------------
(***************************************************************************)
(* OtaAgent (src/integration/OtaAgent.cpp): the owner of one OtaSession.   *)
(* Three kinds of threads meet in it: the agent's own thread, which runs   *)
(* the io_context and is the only one to touch the session; the transport, *)
(* whose frames are posted across; and the callers of start() and stop().  *)
(*                                                                         *)
(* The session appears as what OneUpdate promises of it (OtaUpdate shows   *)
(* that it does).  A handler is split where another thread can see or      *)
(* change something: the session call, the publication of the snapshot,    *)
(* the DoneFn, the re-arming of the tick.                                  *)
(***************************************************************************)
EXTENDS Naturals, Sequences

CONSTANTS Callers,    \* threads that may call start() and stop()
          MaxFrames,  \* bound: frames the transport posts
          ImageSize,  \* bytes of the image
          Nobody

ASSUME AgentConstants == MaxFrames \in Nat /\ ImageSize \in Nat /\ Nobody \notin Callers

VARIABLES
  phase, acked, size,     \* the session
  started, running,       \* the two latches
  ctxStopped,             \* context.stop() was called
  queue,                  \* handlers posted to the context, in order
  tickArmed,
  frames,                 \* frames posted so far
  thread,                 \* "none", "live" or "exited"
  handler, step,          \* what the agent thread executes, and where in it
  transportFailed,        \* a send was refused
  progress,               \* the published snapshot
  doneFired, doneCalls, doneSaw,
  doneStopped,            \* the DoneFn called stop()
  lock,                   \* holder of stopMutex
  pc, owed, stopped       \* per caller: where it is; whether start() had
                          \* taken effect when stop() began; stop() returned

session == <<phase, acked, size>>
context == <<ctxStopped, queue, tickArmed, frames>>
latches == <<started, running>>
agent == <<thread, handler, step, transportFailed, progress,
           doneFired, doneCalls, doneSaw, doneStopped>>
callers == <<lock, pc, owed, stopped>>
vars == <<session, context, latches, agent, callers>>

Session == INSTANCE OneUpdate

Snapshot == [phase |-> phase, acked |-> acked, transportFailed |-> transportFailed]

Init ==
  /\ size = ImageSize /\ Session!Init
  /\ started = FALSE /\ running = FALSE
  /\ ctxStopped = FALSE /\ queue = <<>> /\ tickArmed = FALSE /\ frames = 0
  /\ thread = "none" /\ handler = "none" /\ step = "none"
  /\ transportFailed = FALSE /\ progress = Snapshot
  /\ doneFired = FALSE /\ doneCalls = 0 /\ doneSaw = "idle" /\ doneStopped = FALSE
  /\ lock = Nobody
  /\ pc = [c \in Callers |-> "idle"]
  /\ owed = [c \in Callers |-> FALSE]
  /\ stopped = [c \in Callers |-> FALSE]

Goto(c, place) == pc' = [pc EXCEPT ![c] = place]

-----------------------------------------------------------------------------
(* start(), on a caller's thread *)

StartLatch(c) ==
  /\ pc[c] = "idle"
  /\ ~started
  /\ started' = TRUE
  /\ Goto(c, "starting")
  /\ UNCHANGED <<session, context, running, agent, lock, owed, stopped>>

StartRunning(c) ==
  /\ pc[c] = "starting"
  /\ running' = TRUE
  /\ Goto(c, "posting")
  /\ UNCHANGED <<session, context, started, agent, lock, owed, stopped>>

StartPost(c) ==
  /\ pc[c] = "posting"
  /\ queue' = Append(queue, "begin")
  /\ Goto(c, "creating")
  /\ UNCHANGED <<session, ctxStopped, tickArmed, frames, latches, agent, lock, owed, stopped>>

\* Defect: the thread is created without looking at the latch again.
StartCreateBlindly(c) ==
  /\ pc[c] = "creating"
  /\ lock = Nobody
  /\ thread' = "live"
  /\ Goto(c, "idle")
  /\ UNCHANGED <<session, context, latches, handler, step, transportFailed, progress, doneFired,
                 doneCalls, doneSaw, doneStopped, lock, owed, stopped>>

\* Under stopMutex, held for no longer than this step.
StartCreate(c) ==
  /\ pc[c] = "creating"
  /\ lock = Nobody
  /\ thread' = IF running THEN "live" ELSE thread
  /\ Goto(c, "idle")
  /\ UNCHANGED <<session, context, latches, handler, step, transportFailed, progress, doneFired,
                 doneCalls, doneSaw, doneStopped, lock, owed, stopped>>

-----------------------------------------------------------------------------
(* stop(), on a caller's thread *)

StopEnter(c) ==
  /\ pc[c] = "idle"
  /\ Goto(c, "stopping")
  /\ owed' = [owed EXCEPT ![c] = started /\ \A d \in Callers : pc[d] # "starting"]
  /\ UNCHANGED <<session, context, latches, agent, lock, stopped>>

\* The latch was already taken, or the agent never started.
StopNothing(c) ==
  /\ pc[c] = "stopping"
  /\ lock = Nobody
  /\ ~running
  /\ Goto(c, "idle")
  /\ stopped' = [stopped EXCEPT ![c] = @ \/ owed[c]]
  /\ UNCHANGED <<session, context, latches, agent, lock, owed>>

StopTake(c) ==
  /\ pc[c] = "stopping"
  /\ lock = Nobody
  /\ running
  /\ running' = FALSE
  /\ lock' = c
  /\ Goto(c, "halting")
  /\ UNCHANGED <<session, context, started, agent, owed, stopped>>

StopContext(c) ==
  /\ pc[c] = "halting"
  /\ ctxStopped' = TRUE
  /\ Goto(c, "joining")
  /\ UNCHANGED <<session, queue, tickArmed, frames, latches, agent, lock, owed, stopped>>

\* The join, if there is a thread to join; then the mutex is released.
StopJoin(c) ==
  /\ pc[c] = "joining"
  /\ thread # "live"
  /\ lock' = Nobody
  /\ stopped' = [stopped EXCEPT ![c] = @ \/ owed[c]]
  /\ Goto(c, "idle")
  /\ UNCHANGED <<session, context, latches, agent, owed>>

-----------------------------------------------------------------------------
(* The transport's thread: frameSink() *)

PostFrame ==
  /\ frames < MaxFrames
  /\ frames' = frames + 1
  /\ queue' = Append(queue, "frame")
  /\ UNCHANGED <<session, ctxStopped, tickArmed, latches, agent, callers>>

-----------------------------------------------------------------------------
(* The agent's thread *)

Working(where) == thread = "live" /\ handler # "none" /\ step = where

Idling == thread = "live" /\ handler = "none"

TakePosted ==
  /\ Idling /\ ~ctxStopped
  /\ queue # <<>>
  /\ handler' = Head(queue) /\ step' = "session"
  /\ queue' = Tail(queue)
  /\ UNCHANGED <<session, ctxStopped, tickArmed, frames, latches, thread, transportFailed, progress,
                 doneFired, doneCalls, doneSaw, doneStopped, callers>>

TakeTick ==
  /\ Idling /\ ~ctxStopped
  /\ tickArmed
  /\ handler' = "tick" /\ step' = "session"
  /\ tickArmed' = FALSE
  /\ UNCHANGED <<session, ctxStopped, queue, frames, latches, thread, transportFailed, progress,
                 doneFired, doneCalls, doneSaw, doneStopped, callers>>

\* context.run() returns: stopped, or nothing left to wait for.
ThreadExit ==
  /\ Idling
  /\ ctxStopped \/ (queue = <<>> /\ ~tickArmed)
  /\ thread' = "exited"
  /\ UNCHANGED <<session, context, latches, handler, step, transportFailed, progress,
                 doneFired, doneCalls, doneSaw, doneStopped, callers>>

\* onTick() and onFrame() return at once after stop().
Abandon ==
  /\ Working("session")
  /\ handler # "begin" /\ ~running
  /\ handler' = "none" /\ step' = "none"
  /\ UNCHANGED <<session, context, latches, thread, transportFailed, progress,
                 doneFired, doneCalls, doneSaw, doneStopped, callers>>

\* The call into the session, and the send of what it returned, which the
\* transport may refuse.  A session that is idle or has ended ignores frames
\* and ticks and returns nothing to send.
CallSession ==
  /\ Working("session")
  /\ handler = "begin" \/ running
  /\ IF handler = "begin" THEN Session!Begin
     ELSE Session!Advance \/ Session!End \/ (phase # "active" /\ UNCHANGED session)
  /\ transportFailed' \in IF handler = "begin" \/ phase = "active"
                          THEN {transportFailed, TRUE} ELSE {transportFailed}
  /\ step' = "publish"
  /\ UNCHANGED <<context, latches, thread, handler, progress,
                 doneFired, doneCalls, doneSaw, doneStopped, callers>>

\* Defect: the snapshot is left for the next handler.
PublishLate ==
  /\ Working("publish")
  /\ step' = "done"
  /\ progress' = IF phase \in {"done", "failed"} THEN progress ELSE Snapshot
  /\ UNCHANGED <<session, context, latches, thread, handler, transportFailed,
                 doneFired, doneCalls, doneSaw, doneStopped, callers>>

PublishProgress ==
  /\ Working("publish")
  /\ step' = "done"
  /\ progress' = Snapshot
  /\ UNCHANGED <<session, context, latches, thread, handler, transportFailed,
                 doneFired, doneCalls, doneSaw, doneStopped, callers>>

\* Defect: the latch is not looked at.
FireDoneAgain ==
  /\ Working("done")
  /\ Session!Ended
  /\ doneFired' = TRUE
  /\ doneCalls' = doneCalls + 1
  /\ doneSaw' = progress.phase
  /\ step' \in {"callback", "stop"}
  /\ UNCHANGED <<session, context, latches, thread, handler, transportFailed, progress,
                 doneStopped, callers>>

\* fireDoneIfTerminal(), the first time: onDone(snapshot()).  The DoneFn may
\* call stop().
FireDone ==
  /\ Working("done")
  /\ Session!Ended /\ ~doneFired
  /\ doneFired' = TRUE
  /\ doneCalls' = doneCalls + 1
  /\ doneSaw' = progress.phase
  /\ step' \in {"callback", "stop"}
  /\ UNCHANGED <<session, context, latches, thread, handler, transportFailed, progress,
                 doneStopped, callers>>

\* Defect: it queues behind a join in flight.
StopFromDoneLocked ==
  /\ Working("stop")
  /\ lock = Nobody
  /\ step' = "callback"
  /\ doneStopped' = TRUE
  /\ running' = FALSE
  /\ ctxStopped' = TRUE
  /\ UNCHANGED <<session, queue, tickArmed, frames, started, thread, handler,
                 transportFailed, progress, doneFired, doneCalls, doneSaw, callers>>

\* stop() from inside the DoneFn: on the agent's thread, so without the mutex
\* and without a join.
StopFromDone ==
  /\ Working("stop")
  /\ step' = "callback"
  /\ doneStopped' = TRUE
  /\ running' = FALSE
  /\ ctxStopped' = TRUE
  /\ UNCHANGED <<session, queue, tickArmed, frames, started, thread, handler,
                 transportFailed, progress, doneFired, doneCalls, doneSaw, callers>>

\* Defect: the tick is armed once, by start(), and never again.
EndHandlerNoRearm ==
  /\ Working("callback") \/ (Working("done") /\ (Session!Ended => doneFired))
  /\ handler' = "none" /\ step' = "none"
  /\ tickArmed' = (tickArmed \/ handler = "begin")
  /\ UNCHANGED <<session, ctxStopped, queue, frames, latches, thread, transportFailed, progress,
                 doneFired, doneCalls, doneSaw, doneStopped, callers>>

\* The handler ends; beginUpdate() and onTick() re-arm the tick unless the
\* session has ended.
EndHandler ==
  /\ Working("callback") \/ (Working("done") /\ (Session!Ended => doneFired))
  /\ handler' = "none" /\ step' = "none"
  /\ tickArmed' = (tickArmed \/ (handler # "frame" /\ ~Session!Ended))
  /\ UNCHANGED <<session, ctxStopped, queue, frames, latches, thread, transportFailed, progress,
                 doneFired, doneCalls, doneSaw, doneStopped, callers>>

-----------------------------------------------------------------------------
Caller(c) ==
  \/ StartLatch(c) \/ StartRunning(c) \/ StartPost(c) \/ StartCreate(c)
  \/ StopEnter(c) \/ StopNothing(c) \/ StopTake(c) \/ StopContext(c) \/ StopJoin(c)

AgentThread ==
  \/ TakePosted \/ TakeTick \/ ThreadExit \/ Abandon \/ CallSession
  \/ PublishProgress \/ FireDone \/ StopFromDone \/ EndHandler

Next == PostFrame \/ AgentThread \/ \E c \in Callers : Caller(c)

\* A call that was begun is scheduled until it returns, and the agent's thread
\* runs; whether anyone calls is free.  The last conjunct is OneUpdate's own
\* promise: an update that is ticked for ever ends.
Fairness ==
  /\ WF_vars(AgentThread)
  /\ \A c \in Callers : WF_vars(pc[c] # "idle" /\ Caller(c))
  /\ SF_vars(CallSession /\ handler = "tick" /\ Session!End)

Spec == Init /\ [][Next]_vars /\ Fairness

-----------------------------------------------------------------------------
Phases == {"idle", "active", "done", "failed"}

\* Types; stopMutex is held by exactly the caller that stop() has got past it
\* and not yet out of.
TypeOK ==
  /\ phase \in Phases /\ size \in Nat /\ acked \in 0 .. size
  /\ started \in BOOLEAN /\ running \in BOOLEAN /\ ctxStopped \in BOOLEAN
  /\ queue \in Seq({"begin", "frame"})
  /\ tickArmed \in BOOLEAN /\ frames \in 0 .. MaxFrames
  /\ thread \in {"none", "live", "exited"}
  /\ handler \in {"none", "begin", "frame", "tick"}
  /\ step \in {"none", "session", "publish", "done", "stop", "callback"}
  /\ transportFailed \in BOOLEAN
  /\ progress \in [phase : Phases, acked : Nat, transportFailed : BOOLEAN]
  /\ doneFired \in BOOLEAN /\ doneCalls \in Nat
  /\ doneSaw \in Phases /\ doneStopped \in BOOLEAN
  /\ lock \in Callers \cup {Nobody}
  /\ pc \in [Callers -> {"idle", "starting", "posting", "creating",
                         "stopping", "halting", "joining"}]
  /\ owed \in [Callers -> BOOLEAN] /\ stopped \in [Callers -> BOOLEAN]
  /\ \A c \in Callers : lock = c <=> pc[c] \in {"halting", "joining"}

\* The DoneFn runs once, however many handlers find the session ended, and the
\* snapshot it is given is that of the ended session.
DoneOnceWithVerdict ==
  /\ doneCalls <= 1
  /\ doneCalls = 1 => doneSaw = phase /\ Session!Ended

\* progress() never shows an update ahead of the session, and between two
\* handlers it shows exactly where the session is.
SnapshotFollowsSession ==
  /\ progress.acked <= acked
  /\ progress.phase \in {"done", "failed"} => progress.phase = phase
  /\ handler = "none" => progress = Snapshot

\* stop() joins for every caller, not only the first: once it has returned to
\* a thread that called it after start(), the agent's thread is gone and stays
\* gone, so what `send' captured may be torn down.  The DoneFn must not have
\* called stop() itself; see StopMeansStoppedAlways.
StopMeansStopped ==
  \A c \in Callers : stopped[c] /\ ~doneStopped => thread # "live"

\* OtaAgent.h states it of every stop() but the one made inside the DoneFn.
StopMeansStoppedAlways ==
  \A c \in Callers : stopped[c] => thread # "live"

\* Nobody is left waiting: every stop() returns, also when the DoneFn calls
\* stop() while another thread holds the mutex and joins.
EveryStopReturns ==
  \A c \in Callers : pc[c] = "stopping" ~> pc[c] = "idle"

\* A started update is reported: the DoneFn runs unless someone stopped first.
DoneOrStopped == started ~> doneFired \/ ctxStopped
=============================================================================
