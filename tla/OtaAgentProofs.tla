--------------------------- MODULE OtaAgentProofs ---------------------------
(***************************************************************************)
(* Proofs about OtaAgent, for any number of calling threads, frames and    *)
(* image bytes.                                                            *)
(***************************************************************************)
EXTENDS OtaAgent, TLAPS

USE DEF session, context, latches, agent, callers, Session!Ended, Phases

\* What the session does keeps its phase and its byte count in range, and an
\* ended session stays ended.
LEMMA SessionStep ==
  ASSUME TypeOK, Session!Begin \/ Session!Advance \/ Session!End \/ UNCHANGED session
  PROVE  /\ phase' \in Phases /\ size' \in Nat /\ acked' \in 0 .. size'
         /\ acked <= acked'
         /\ Session!Ended => phase' = phase
  BY DEF TypeOK, Session!Begin, Session!Advance, Session!End

\* The session call of a handler is one of those steps.
LEMMA CallSessionStep ==
  ASSUME CallSession
  PROVE  Session!Begin \/ Session!Advance \/ Session!End \/ UNCHANGED session
  BY DEF CallSession

LEMMA SnapshotType ==
  ASSUME TypeOK
  PROVE  /\ Snapshot \in [phase : Phases, acked : Nat, transportFailed : BOOLEAN]
         /\ Snapshot.phase = phase /\ Snapshot.acked = acked
  BY DEF TypeOK, Snapshot

-----------------------------------------------------------------------------
(* Type correctness *)

LEMMA CallerType ==
  ASSUME TypeOK, NEW c \in Callers, Caller(c)
  PROVE  TypeOK'
  <1>1. CASE StartLatch(c)
    BY <1>1 DEF StartLatch, Goto, TypeOK
  <1>2. CASE StartRunning(c)
    BY <1>2 DEF StartRunning, Goto, TypeOK
  <1>3. CASE StartPost(c)
    BY <1>3 DEF StartPost, Goto, TypeOK
  <1>4. CASE StartCreate(c)
    BY <1>4 DEF StartCreate, Goto, TypeOK
  <1>5. CASE StopEnter(c)
    BY <1>5 DEF StopEnter, Goto, TypeOK
  <1>6. CASE StopNothing(c)
    BY <1>6 DEF StopNothing, Goto, TypeOK
  <1>7. CASE StopTake(c)
    <2>1. running' \in BOOLEAN
      BY <1>7 DEF StopTake
    <2>2. \A d \in Callers : lock' = d <=> pc'[d] \in {"halting", "joining"}
      BY <1>7, AgentConstants DEF StopTake, Goto, TypeOK
    <2>3. QED
      BY <1>7, <2>1, <2>2 DEF StopTake, Goto, TypeOK
  <1>8. CASE StopContext(c)
    BY <1>8 DEF StopContext, Goto, TypeOK
  <1>9. CASE StopJoin(c)
    BY <1>9, AgentConstants DEF StopJoin, Goto, TypeOK
  <1>10. QED
    BY <1>1, <1>2, <1>3, <1>4, <1>5, <1>6, <1>7, <1>8, <1>9 DEF Caller

LEMMA AgentType ==
  ASSUME TypeOK, AgentThread
  PROVE  TypeOK'
  <1>1. CASE TakePosted
    BY <1>1 DEF TakePosted, TypeOK
  <1>2. CASE TakeTick
    <2>1. tickArmed' \in BOOLEAN
      BY <1>2 DEF TakeTick
    <2>2. QED
      BY <1>2, <2>1 DEF TakeTick, TypeOK
  <1>3. CASE ThreadExit
    BY <1>3 DEF ThreadExit, TypeOK
  <1>4. CASE Abandon
    BY <1>4 DEF Abandon, TypeOK
  <1>5. CASE CallSession
    <2>1. phase' \in Phases /\ size' \in Nat /\ acked' \in 0 .. size'
      BY <1>5, CallSessionStep, SessionStep
    <2>2. transportFailed' \in BOOLEAN
      BY <1>5 DEF CallSession, TypeOK
    <2>3. QED
      BY <1>5, <2>1, <2>2 DEF CallSession, TypeOK
  <1>6. CASE PublishProgress
    BY <1>6, SnapshotType DEF PublishProgress, TypeOK
  <1>7. CASE FireDone
    BY <1>7 DEF FireDone, TypeOK
  <1>8. CASE StopFromDone
    <2>1. running' \in BOOLEAN /\ ctxStopped' \in BOOLEAN /\ doneStopped' \in BOOLEAN
      BY <1>8 DEF StopFromDone
    <2>2. QED
      BY <1>8, <2>1 DEF StopFromDone, TypeOK
  <1>9. CASE EndHandler
    BY <1>9 DEF EndHandler, TypeOK
  <1>10. QED
    BY <1>1, <1>2, <1>3, <1>4, <1>5, <1>6, <1>7, <1>8, <1>9 DEF AgentThread

\* Every reachable state is well typed, and stopMutex is held by exactly the
\* caller that is halting or joining the agent's thread.
THEOREM TypeInvariant == Spec => []TypeOK
  <1>1. Init => TypeOK
    <2> SUFFICES ASSUME Init PROVE TypeOK
      OBVIOUS
    <2>1. /\ started \in BOOLEAN /\ running \in BOOLEAN /\ ctxStopped \in BOOLEAN
          /\ tickArmed \in BOOLEAN /\ transportFailed \in BOOLEAN
          /\ doneFired \in BOOLEAN /\ doneStopped \in BOOLEAN
      BY DEF Init
    <2>2. phase \in Phases /\ size \in Nat /\ acked \in 0 .. size
      BY AgentConstants DEF Init, Session!Init
    <2>3. progress \in [phase : Phases, acked : Nat, transportFailed : BOOLEAN]
      BY <2>1, <2>2 DEF Init, Snapshot
    <2>4. queue \in Seq({"begin", "frame"}) /\ frames \in 0 .. MaxFrames
      BY AgentConstants DEF Init
    <2>5. /\ pc \in [Callers -> {"idle"}]
          /\ owed \in [Callers -> BOOLEAN] /\ stopped \in [Callers -> BOOLEAN]
      BY DEF Init
    <2>6. /\ lock \in Callers \cup {Nobody}
          /\ \A c \in Callers : lock = c <=> pc[c] \in {"halting", "joining"}
      BY <2>5, AgentConstants DEF Init
    <2>7. /\ thread = "none" /\ handler = "none" /\ step = "none"
          /\ doneCalls \in Nat /\ doneSaw \in Phases
      BY DEF Init
    <2>8. QED
      BY <2>1, <2>2, <2>3, <2>4, <2>5, <2>6, <2>7 DEF TypeOK
  <1>2. TypeOK /\ [Next]_vars => TypeOK'
    <2> SUFFICES ASSUME TypeOK, [Next]_vars PROVE TypeOK'
      OBVIOUS
    <2>1. CASE PostFrame
      BY <2>1, AgentConstants DEF PostFrame, TypeOK
    <2>2. CASE AgentThread
      BY <2>2, AgentType
    <2>3. CASE \E c \in Callers : Caller(c)
      BY <2>3, CallerType
    <2>4. CASE UNCHANGED vars
      BY <2>4 DEF vars, TypeOK
    <2>5. QED
      BY <2>1, <2>2, <2>3, <2>4 DEF Next
  <1>3. QED
    BY <1>1, <1>2, PTL DEF Spec

-----------------------------------------------------------------------------
(* What a returned stop() means *)

\* A thread that lives on although the latch was taken is being joined by the
\* holder of stopMutex; and a stop() that began after start() had taken effect
\* leaves no start() that could set the latch again.
StopInv ==
  /\ thread = "live" /\ ~running /\ ~doneStopped => lock # Nobody
  /\ \A c \in Callers :
       /\ stopped[c] \/ (owed[c] /\ pc[c] \in {"stopping", "halting", "joining"})
            => started /\ \A d \in Callers : pc[d] # "starting"
       /\ stopped[c] \/ (owed[c] /\ pc[c] \in {"halting", "joining"}) => ~running
  /\ StopMeansStopped

\* What StopInv is about is left alone by every step but these.
stopVars == <<started, running, thread, doneStopped, lock, pc, owed, stopped>>

LEMMA StopInvCaller ==
  ASSUME TypeOK, StopInv, NEW c \in Callers, Caller(c)
  PROVE  StopInv'
  <1> USE DEF StopInv, StopMeansStopped, TypeOK, Goto
  <1>1. CASE StartLatch(c)
    BY <1>1 DEF StartLatch
  <1>2. CASE StartRunning(c)
    BY <1>2 DEF StartRunning
  <1>3. CASE StartPost(c)
    BY <1>3 DEF StartPost
  <1>4. CASE StartCreate(c)
    BY <1>4 DEF StartCreate
  <1>5. CASE StopEnter(c)
    BY <1>5 DEF StopEnter
  <1>6. CASE StopNothing(c)
    BY <1>6 DEF StopNothing
  <1>7. CASE StopTake(c)
    BY <1>7, AgentConstants DEF StopTake
  <1>8. CASE StopContext(c)
    BY <1>8 DEF StopContext
  <1>9. CASE StopJoin(c)
    BY <1>9 DEF StopJoin
  <1>10. QED
    BY <1>1, <1>2, <1>3, <1>4, <1>5, <1>6, <1>7, <1>8, <1>9 DEF Caller

LEMMA StopInvAgent ==
  ASSUME TypeOK, StopInv, AgentThread
  PROVE  StopInv'
  <1>1. CASE ThreadExit
    BY <1>1 DEF ThreadExit, StopInv, StopMeansStopped
  <1>2. CASE StopFromDone
    BY <1>2 DEF StopFromDone, StopInv, StopMeansStopped
  <1>3. CASE UNCHANGED stopVars
    BY <1>3 DEF stopVars, StopInv, StopMeansStopped
  <1>4. QED
    BY <1>1, <1>2, <1>3
    DEF AgentThread, TakePosted, TakeTick, Abandon, CallSession, PublishProgress,
        FireDone, EndHandler, stopVars

\* Once stop() has returned to a thread that called it after start(), whichever
\* of the callers that is, the agent's thread is gone for good, unless the
\* DoneFn called stop() itself.
THEOREM StopMeansStoppedHolds == Spec => []StopMeansStopped
  <1>1. Init => StopInv
    BY DEF Init, StopInv, StopMeansStopped
  <1>2. TypeOK /\ StopInv /\ [Next]_vars => StopInv'
    <2> SUFFICES ASSUME TypeOK, StopInv, [Next]_vars PROVE StopInv'
      OBVIOUS
    <2>1. CASE PostFrame
      BY <2>1 DEF PostFrame, StopInv, StopMeansStopped
    <2>2. CASE AgentThread
      BY <2>2, StopInvAgent
    <2>3. CASE \E c \in Callers : Caller(c)
      BY <2>3, StopInvCaller
    <2>4. CASE UNCHANGED vars
      BY <2>4 DEF vars, StopInv, StopMeansStopped
    <2>5. QED
      BY <2>1, <2>2, <2>3, <2>4 DEF Next
  <1>3. StopInv => StopMeansStopped
    BY DEF StopInv
  <1>4. QED
    BY <1>1, <1>2, <1>3, TypeInvariant, PTL DEF Spec

-----------------------------------------------------------------------------
(* What is published, and what the DoneFn is given *)

\* The snapshot lags only between the session call and its publication.
SnapshotInv ==
  /\ handler = "none" <=> step = "none"
  /\ step # "publish" => progress = Snapshot
  /\ SnapshotFollowsSession

\* The latch counts the calls of the DoneFn, and an ended session stays as the
\* DoneFn saw it.
DoneInv ==
  /\ doneCalls = IF doneFired THEN 1 ELSE 0
  /\ doneFired => Session!Ended /\ doneSaw = phase

\* What the two invariants are about; only the agent's thread changes it.
reportVars == <<session, handler, step, transportFailed, progress, doneFired, doneCalls, doneSaw>>

LEMMA SnapshotInvAgent ==
  ASSUME TypeOK, SnapshotInv, AgentThread
  PROVE  SnapshotInv'
  <1> USE DEF SnapshotInv, SnapshotFollowsSession, Working, Idling
  <1>1. CASE TakePosted
    <2>1. Head(queue) \in {"begin", "frame"}
      BY <1>1 DEF TakePosted, TypeOK
    <2>2. QED
      BY <1>1, <2>1 DEF TakePosted, Snapshot
  <1>2. CASE TakeTick
    BY <1>2 DEF TakeTick, Snapshot
  <1>3. CASE Abandon
    BY <1>3 DEF Abandon, Snapshot
  <1>4. CASE CallSession
    <2>1. /\ acked <= acked' /\ acked \in Nat /\ acked' \in Nat
          /\ Session!Ended => phase' = phase
      BY <1>4, CallSessionStep, SessionStep DEF TypeOK
    <2>2. progress.acked = acked /\ progress.phase = phase
      BY <1>4, SnapshotType DEF CallSession
    <2>3. handler' # "none" /\ step' = "publish" /\ progress' = progress
      BY <1>4 DEF CallSession
    <2>4. QED
      BY <2>1, <2>2, <2>3
  <1>5. CASE PublishProgress
    <2>1. progress' = Snapshot /\ Snapshot' = Snapshot /\ acked' = acked /\ phase' = phase
      BY <1>5 DEF PublishProgress, Snapshot
    <2>2. progress'.acked = acked' /\ progress'.phase = phase' /\ acked \in Nat
      BY <2>1, SnapshotType DEF TypeOK
    <2>3. handler' # "none" /\ step' = "done"
      BY <1>5 DEF PublishProgress
    <2>4. QED
      BY <2>1, <2>2, <2>3
  <1>6. CASE FireDone
    BY <1>6 DEF FireDone, Snapshot
  <1>7. CASE StopFromDone
    BY <1>7 DEF StopFromDone, Snapshot
  <1>8. CASE EndHandler
    BY <1>8 DEF EndHandler, Snapshot
  <1>9. CASE ThreadExit
    BY <1>9 DEF ThreadExit, Snapshot
  <1>10. QED
    BY <1>1, <1>2, <1>3, <1>4, <1>5, <1>6, <1>7, <1>8, <1>9 DEF AgentThread

LEMMA DoneInvAgent ==
  ASSUME TypeOK, SnapshotInv, DoneInv, AgentThread
  PROVE  DoneInv'
  <1>1. CASE CallSession
    <2>1. Session!Ended => phase' = phase
      BY <1>1, CallSessionStep, SessionStep
    <2>2. QED
      BY <1>1, <2>1 DEF CallSession, DoneInv
  <1>2. CASE FireDone
    <2>1. progress.phase = phase
      BY <1>2, SnapshotType DEF FireDone, Working, SnapshotInv
    <2>2. QED
      BY <1>2, <2>1 DEF FireDone, DoneInv
  <1>3. CASE UNCHANGED <<session, doneFired, doneCalls, doneSaw>>
    BY <1>3 DEF DoneInv
  <1>4. QED
    BY <1>1, <1>2, <1>3
    DEF AgentThread, TakePosted, TakeTick, ThreadExit, Abandon, PublishProgress,
        StopFromDone, EndHandler

\* Callers and the transport touch none of it.
LEMMA OthersDoNotReport ==
  ASSUME PostFrame \/ \E c \in Callers : Caller(c)
  PROVE  UNCHANGED reportVars
  BY DEF reportVars, PostFrame, Caller, StartLatch, StartRunning, StartPost, StartCreate,
         StopEnter, StopNothing, StopTake, StopContext, StopJoin

LEMMA ReportInvariant == Spec => [](SnapshotInv /\ DoneInv)
  <1>1. Init => SnapshotInv /\ DoneInv
    BY DEF Init, Session!Init, SnapshotInv, SnapshotFollowsSession, DoneInv, Snapshot
  <1>2. TypeOK /\ SnapshotInv /\ DoneInv /\ [Next]_vars => (SnapshotInv /\ DoneInv)'
    <2> SUFFICES ASSUME TypeOK, SnapshotInv, DoneInv, [Next]_vars
                 PROVE  (SnapshotInv /\ DoneInv)'
      OBVIOUS
    <2>1. CASE AgentThread
      BY <2>1, SnapshotInvAgent, DoneInvAgent
    <2>2. CASE UNCHANGED reportVars
      BY <2>2 DEF reportVars, SnapshotInv, SnapshotFollowsSession, DoneInv, Snapshot
    <2>3. UNCHANGED vars => UNCHANGED reportVars
      BY DEF vars, reportVars
    <2>4. QED
      BY <2>1, <2>2, <2>3, OthersDoNotReport DEF Next
  <1>3. QED
    BY <1>1, <1>2, TypeInvariant, PTL DEF Spec

\* A published snapshot is never ahead of the session, never takes an end back,
\* and is exact whenever no handler is running.
THEOREM SnapshotFollows == Spec => []SnapshotFollowsSession
  <1>1. SnapshotInv => SnapshotFollowsSession
    BY DEF SnapshotInv
  <1>2. QED
    BY <1>1, ReportInvariant, PTL

\* The DoneFn runs at most once, with the snapshot of the ended session.
THEOREM DoneOnce == Spec => []DoneOnceWithVerdict
  <1>1. DoneInv => DoneOnceWithVerdict
    BY DEF DoneInv, DoneOnceWithVerdict
  <1>2. QED
    BY <1>1, ReportInvariant, PTL
=============================================================================
