------------------------- MODULE IntegrationProofs -------------------------
(***************************************************************************)
(* Proofs about Integration, for every deployment, any TCP clients, topics,*)
(* node paths and byte streams, and any bound on events: each back end is  *)
(* started once and stopped once by IntegrationManager, whatever its own   *)
(* thread and the other threads do meanwhile, and what a client of the     *)
(* back end relies on holds through it.                                    *)
(***************************************************************************)
EXTENDS Integration, SequenceTheorems, FiniteSetTheorems, WellFoundedInduction, TLAPS

-----------------------------------------------------------------------------
(* The manager and its list *)

ThreadStates == {"none", "live", "ended"}
IoStates == {"none", "open", "broken"}
MidSteps == {"dial", "connack", "arm", "ready", "nodes", "wire", "replay", "join"}
Managers == [op : {"build", "fatal", "start", "up", "stop", "done", "gone"}, at : Nat,
             step : MidSteps \cup {"call"}]

Registered(b) == \E i \in 1 .. Len(list) : list[i] = b

\* A back end is in the list once, at the latest when its switch was looked at,
\* and startAll() and stopAll() are always at one of them.
ListInv ==
  /\ mgr \in Managers /\ configured \in Deployments
  /\ list \in Seq(Kinds)
  /\ \A i, j \in 1 .. Len(list) : list[i] = list[j] => i = j
  /\ mgr.op = "build" =>
       /\ mgr.at \in 1 .. Len(kOrder) /\ mgr.step = "call"
       /\ \A i \in 1 .. Len(list) : \E j \in 1 .. mgr.at - 1 : list[i] = kOrder[j]
       /\ \A j \in 1 .. mgr.at - 1 : kOrder[j] \in configured => Registered(kOrder[j])
  /\ mgr.op \notin {"build", "fatal"} => Len(list) > 0
  /\ mgr.op \in {"start", "stop"} => mgr.at \in 1 .. Len(list)

\* startAll() has yet to call start() of b.
ToStart(b) ==
  \/ mgr.op \in {"build", "fatal"}
  \/ mgr.op = "start" /\ \A i \in 1 .. Len(list) :
       list[i] = b => i > mgr.at \/ (i = mgr.at /\ mgr.step = "call")

\* stopAll() is through with b.
Passed(b) ==
  \/ mgr.op = "done"
  \/ mgr.op = "stop" /\ \E i \in 1 .. mgr.at - 1 : list[i] = b

-----------------------------------------------------------------------------
(* The threads of the back ends *)

LifeTypes ==
  /\ running \subseteq Kinds
  /\ thread \in [Kinds -> ThreadStates]
  /\ io \in [Kinds -> IoStates]

\* Nothing of a back end exists before its start().
FreshInv ==
  \A b \in Kinds : ToStart(b) => thread[b] = "none" /\ io[b] = "none" /\ b \notin running

\* What start() of a client has got to when it is between two of its steps.
StepInv ==
  mgr.op = "start" =>
    /\ mgr.step \in {"dial", "connack"} => "mqtt" \in running /\ thread["mqtt"] = "none"
    /\ mgr.step = "arm" =>
         ("mqtt" \in running \/ io["mqtt"] = "broken") /\ thread["mqtt"] = "none"
    /\ mgr.step = "replay" => "opcuaclient" \in running /\ thread["opcuaclient"] = "none"

\* A worker that runs belongs to a back end that can still be stopped, or is
\* being joined, or is that of an MQTT client that lost its connection.
WorkerInv ==
  /\ thread["station"] = "none"
  /\ \A b \in Kinds :
       /\ thread[b] # "none" => Registered(b) /\ mgr.op \notin {"build", "fatal", "gone"}
       /\ thread[b] = "live" =>
            b \in running \/ Stopping(b) \/ (b = "mqtt" /\ io[b] = "broken")
       /\ thread[b] = "live" /\ Passed(b) => b = "mqtt" /\ io[b] = "broken"
       /\ Stopping(b) => b \notin running

LifeInv == ListInv /\ LifeTypes /\ FreshInv /\ StepInv /\ WorkerInv

-----------------------------------------------------------------------------
(* What the back ends keep *)

\* No callback is registered, and no model event is in the node map, before
\* the nodes are there.
NodesInv ==
  /\ wired \in BOOLEAN
  /\ ToStart("opcua") \/ At("start", "opcua", "nodes") \/ At("start", "opcua", "wire") =>
       wired = FALSE /\ emitter = "idle"
  /\ At("start", "opcua", "wire") => address = "ready"
  /\ io["opcua"] = "open" /\ (wired = TRUE \/ emitter # "idle") => address = "ready"
  /\ lostWrite = FALSE

Posts == {<<"publish">>, <<"teardown">>} \cup {<<"subscribe", t>> : t \in Topics}

\* While the client's thread runs with its flag up, a topic of the table is
\* with the broker or its SUBSCRIBE is still posted.
TopicsInv ==
  /\ ioq \in Seq(Posts) /\ subs \subseteq Topics
  /\ session = "none" => "mqtt" \notin running \/ mgr.op = "gone"
  /\ "mqtt" \in running /\ thread["mqtt"] = "live" =>
       \A t \in subs : t \in brokerSubs \/ \E i \in 1 .. Len(ioq) : ioq[i] = <<"subscribe", t>>

\* Everything send() took that is not lost, oldest first.
Whole == line \o writeQueue \o posted

\* A sequence of different numbers up to n, in their order.
Ascending(s, n) ==
  /\ \A i \in 1 .. Len(s) : s[i] \in 1 .. n
  /\ \A i, j \in 1 .. Len(s) : i < j => s[i] < s[j]

\* The type of the flag that a write has failed.
FlagOK == writeFailed \in BOOLEAN

\* Nothing is accepted before start(); what is written, queued and posted is in
\* the order it was accepted and, until a write fails, is all of it.
SendInv ==
  /\ line \in Seq(Nat) /\ writeQueue \in Seq(Nat) /\ posted \in Seq(Nat) /\ accepted \in Nat
  /\ ToStart("serial") =>
       line = <<>> /\ writeQueue = <<>> /\ posted = <<>> /\ accepted = 0
  /\ Ascending(Whole, accepted)
  /\ thread["serial"] # "none" /\ writeFailed = FALSE =>
       Len(Whole) = accepted /\ \A i \in 1 .. accepted : Whole[i] = i
-----------------------------------------------------------------------------
(* What a step may do to the life of the back ends *)

\* Nothing of the other back ends changes.
Only(own) ==
  \A c \in Kinds \ own :
    thread'[c] = thread[c] /\ io'[c] = io[c] /\ (c \in running' <=> c \in running)

Advances ==
  /\ UNCHANGED <<configured, list>>
  /\ NextInList \/ \E s \in MidSteps : Step(s)

BuildMove == (\E b \in Kinds : registerBackend(b)) \/ SwitchedOff \/ MaterialRefused

\* The main thread is in start() of b.
StartMove(b) ==
  /\ mgr.op = "start" /\ list[mgr.at] = b /\ Advances /\ Only({b})
  /\ LifeTypes' /\ StepInv'
  /\ thread'[b] = "live" => b \in running' \/ (b = "mqtt" /\ io'[b] = "broken")
  /\ b = "station" => UNCHANGED thread

StopMove == (\E b \in Kinds : StopLatch(b) \/ Joined(b)) \/ stationStop

\* A worker lowers its flag or returns.
WorkMove(b) ==
  /\ UNCHANGED <<configured, list, mgr>> /\ thread[b] = "live" /\ Only({b})
  /\ running' \in {running, running \ {b}}
  /\ thread' \in {thread, [thread EXCEPT ![b] = "ended"]}
  /\ io' \in {io, [io EXCEPT ![b] = "broken"]}
  /\ running' # running /\ thread' = thread => b = "mqtt" /\ io'[b] = "broken"
  /\ io[b] = "broken" => io'[b] = "broken"

\* A step of the back ends `own'.
LifeMove(own) ==
  \/ UNCHANGED life
  \/ BuildMove
  \/ \E b \in own : StartMove(b)
  \/ StopMove
  \/ \E b \in own : WorkMove(b)

-----------------------------------------------------------------------------
(* The manager's own steps keep the list and the order *)

LEMMA OrderFacts ==
  /\ Len(kOrder) = 8
  /\ \A i \in 1 .. 8 : kOrder[i] \in Kinds
  /\ \A i, j \in 1 .. 8 : kOrder[i] = kOrder[j] => i = j
  /\ \A b \in Kinds : \E i \in 1 .. 8 : kOrder[i] = b
  /\ {"tcp", "http", "serial", "mqtt", "opcua", "opcuaclient", "modbus", "station"} = Kinds
  <1>1. Len(kOrder) = 8 /\ DOMAIN kOrder = 1 .. 8
    BY DEF kOrder
  <1>2. /\ kOrder[1] = "tcp" /\ kOrder[2] = "http" /\ kOrder[3] = "serial" /\ kOrder[4] = "mqtt"
        /\ kOrder[5] = "opcua" /\ kOrder[6] = "opcuaclient" /\ kOrder[7] = "modbus"
        /\ kOrder[8] = "station"
    BY DEF kOrder
  <1>3. \A i, j \in 1 .. 8 : kOrder[i] = kOrder[j] => i = j
    BY <1>2
  <1>4. Kinds = {kOrder[i] : i \in 1 .. 8}
    BY <1>1 DEF Kinds
  <1>5. {"tcp", "http", "serial", "mqtt", "opcua", "opcuaclient", "modbus", "station"} = Kinds
    BY <1>2, <1>4
  <1>6. QED
    BY <1>1, <1>3, <1>4, <1>5

ManagerMove == BuildMove \/ (mgr.op \in {"start", "stop"} /\ Advances) \/ stopAll \/ Destroyed
               \/ UNCHANGED <<configured, list, mgr>>

\* The list stays what it should be.
LEMMA ListStep ==
  ASSUME ListInv, ManagerMove
  PROVE  ListInv'
  <1>1. ASSUME NEW b \in Kinds, registerBackend(b)
        PROVE  ListInv'
    <2>1. /\ mgr.op = "build" /\ kOrder[mgr.at] = b /\ b \in configured
          /\ list' = Append(list, b) /\ Built /\ UNCHANGED configured
      BY <1>1 DEF registerBackend, At
    <2>2. /\ list' \in Seq(Kinds) /\ Len(list') = Len(list) + 1
          /\ \A i \in 1 .. Len(list) : list'[i] = list[i]
          /\ list'[Len(list) + 1] = b
      BY <2>1 DEF ListInv
    <2>3. \A i \in 1 .. Len(list) : list[i] # b
      BY <2>1, OrderFacts DEF ListInv
    <2>4. \A i, j \in 1 .. Len(list') : list'[i] = list'[j] => i = j
      BY <2>2, <2>3 DEF ListInv
    <2>5. CASE mgr.at < Len(kOrder)
      <3>1. mgr' = [mgr EXCEPT !.at = @ + 1]
        BY <2>1, <2>5 DEF Built
      <3>2. mgr' \in Managers /\ mgr'.op = "build" /\ mgr'.at = mgr.at + 1 /\ mgr'.step = mgr.step
        BY <2>1, <3>1 DEF ListInv, Managers
      <3>3. \A i \in 1 .. Len(list') : \E j \in 1 .. mgr'.at - 1 : list'[i] = kOrder[j]
        <4> SUFFICES ASSUME NEW i \in 1 .. Len(list')
                     PROVE  \E j \in 1 .. mgr'.at - 1 : list'[i] = kOrder[j]
          OBVIOUS
        <4>1. CASE i = Len(list) + 1
          <5>1. mgr.at \in 1 .. mgr'.at - 1 /\ list'[i] = kOrder[mgr.at]
            BY <2>1, <2>2, <3>2, <4>1 DEF ListInv
          <5>2. QED
            BY <5>1
        <4>2. CASE i # Len(list) + 1
          <5>1. PICK j \in 1 .. mgr.at - 1 : list[i] = kOrder[j]
            BY <2>1, <2>2, <4>2 DEF ListInv
          <5>2. j \in 1 .. mgr'.at - 1 /\ list'[i] = kOrder[j]
            BY <2>2, <3>2, <4>2, <5>1 DEF ListInv, Managers
          <5>3. QED
            BY <5>2
        <4>3. QED
          BY <4>1, <4>2
      <3>4. ASSUME NEW j \in 1 .. mgr'.at - 1, kOrder[j] \in configured PROVE Registered(kOrder[j])'
        <4>1. CASE j = mgr.at
          BY <2>1, <2>2, <4>1 DEF Registered, ListInv
        <4>2. CASE j # mgr.at
          <5>1. PICK i \in 1 .. Len(list) : list[i] = kOrder[j]
            BY <2>1, <3>2, <3>4, <4>2 DEF Registered, ListInv, Managers
          <5>2. i \in 1 .. Len(list') /\ list'[i] = kOrder[j]
            BY <2>2, <5>1 DEF ListInv
          <5>3. QED
            BY <5>2 DEF Registered
        <4>3. QED
          BY <4>1, <4>2
      <3>5. mgr'.at \in 1 .. Len(kOrder)
        BY <2>1, <2>5, <3>2, OrderFacts DEF ListInv
      <3>6. QED
        BY <2>1, <2>2, <2>4, <3>2, <3>3, <3>4, <3>5 DEF ListInv
    <2>6. CASE ~(mgr.at < Len(kOrder))
      <3>1. mgr' = [op |-> "start", at |-> 1, step |-> "call"]
        BY <2>1, <2>6 DEF Built
      <3>2. mgr' \in Managers /\ mgr'.op = "start" /\ mgr'.at = 1
        BY <3>1 DEF Managers
      <3>3. Len(list') > 0 /\ mgr'.at \in 1 .. Len(list')
        BY <2>2, <3>2 DEF ListInv
      <3>4. QED
        BY <2>1, <2>2, <2>4, <3>2, <3>3 DEF ListInv
    <2>7. QED
      BY <2>5, <2>6
  <1>2. CASE SwitchedOff
    <2>1. mgr.op = "build" /\ kOrder[mgr.at] \notin configured /\ Built /\ UNCHANGED <<configured, list>>
      BY <1>2 DEF SwitchedOff
    <2>2. CASE mgr.at < Len(kOrder)
      <3>1. mgr' = [mgr EXCEPT !.at = @ + 1]
        BY <2>1, <2>2 DEF Built
      <3>2. mgr' \in Managers /\ mgr'.op = "build" /\ mgr'.at = mgr.at + 1 /\ mgr'.step = mgr.step
        BY <2>1, <3>1 DEF ListInv, Managers
      <3>3. mgr.at \in 1 .. 8 /\ mgr'.at \in 1 .. Len(kOrder)
        BY <2>1, <2>2, <3>2, OrderFacts DEF ListInv
      <3>4. \A i \in 1 .. Len(list) : \E j \in 1 .. mgr'.at - 1 : list[i] = kOrder[j]
        BY <2>1, <3>2, <3>3 DEF ListInv
      <3>5. \A j \in 1 .. mgr'.at - 1 : kOrder[j] \in configured => Registered(kOrder[j])
        BY <2>1, <3>2, <3>3 DEF ListInv
      <3>6. QED
        BY <2>1, <3>2, <3>3, <3>4, <3>5 DEF ListInv, Registered
    <2>3. CASE ~(mgr.at < Len(kOrder))
      <3>1. mgr' = [op |-> "start", at |-> 1, step |-> "call"]
        BY <2>1, <2>3 DEF Built
      <3>2. mgr' \in Managers /\ mgr'.op = "start" /\ mgr'.at = 1
        BY <3>1 DEF Managers
      <3>3. mgr.at = 8
        BY <2>1, <2>3, OrderFacts DEF ListInv
      <3>4. PICK b \in Kinds : b \in configured
        <4>1. configured \in (SUBSET Kinds) \ {{}}
          BY DeploymentsAssumption DEF ListInv
        <4>2. QED
          BY <4>1
      <3>5. PICK j \in 1 .. 7 : kOrder[j] = b
        BY <2>1, <3>3, <3>4, OrderFacts
      <3>6. Registered(b)
        BY <2>1, <3>3, <3>4, <3>5 DEF ListInv
      <3>7. Len(list) > 0
        BY <3>6 DEF Registered, ListInv
      <3>8. QED
        BY <2>1, <3>2, <3>7 DEF ListInv
    <2>4. QED
      BY <2>2, <2>3
  <1>3. CASE MaterialRefused
    <2>1. mgr' = [mgr EXCEPT !.op = "fatal"] /\ UNCHANGED <<configured, list>>
      BY <1>3 DEF MaterialRefused
    <2>2. mgr' \in Managers /\ mgr'.op = "fatal"
      BY <2>1 DEF ListInv, Managers
    <2>3. QED
      BY <2>1, <2>2 DEF ListInv
  <1>4. CASE mgr.op \in {"start", "stop"} /\ Advances
    <2>1. UNCHANGED <<configured, list>> /\ Len(list) \in Nat
      BY <1>4 DEF Advances, ListInv
    <2>2. mgr' \in Managers /\ mgr'.op \notin {"build", "fatal"}
          /\ (mgr'.op \in {"start", "stop"} => mgr'.at \in 1 .. Len(list))
      <3>1. ASSUME NEW s \in MidSteps, Step(s)
            PROVE  mgr' \in Managers /\ mgr'.op = mgr.op /\ mgr'.at = mgr.at
        BY <3>1 DEF Step, ListInv, Managers
      <3>2. CASE NextInList
        <4>1. CASE mgr.at < Len(list)
          <5>1. mgr' = [mgr EXCEPT !.at = @ + 1, !.step = "call"]
            BY <3>2, <4>1 DEF NextInList
          <5>2. mgr \in Managers
            BY DEF ListInv
          <5>3. mgr' \in Managers /\ mgr'.op = mgr.op /\ mgr'.at = mgr.at + 1
            <6>1. mgr' = [op |-> mgr.op, at |-> mgr.at + 1, step |-> "call"]
              BY <5>1, <5>2 DEF Managers
            <6>2. QED
              BY <5>2, <6>1 DEF Managers
          <5>4. QED
            BY <1>4, <2>1, <4>1, <5>3 DEF ListInv, Managers
        <4>2. CASE ~(mgr.at < Len(list))
          BY <3>2, <4>2 DEF NextInList, Managers
        <4>3. QED
          BY <4>1, <4>2
      <3>3. QED
        BY <1>4, <3>1, <3>2 DEF Advances, ListInv
    <2>3. QED
      BY <1>4, <2>1, <2>2 DEF ListInv
  <1>5. CASE stopAll \/ Destroyed
    <2>1. UNCHANGED <<configured, list>> /\ Len(list) \in Nat /\ mgr.op \in {"up", "done"}
      BY <1>5 DEF stopAll, Destroyed, ListInv
    <2>2. mgr' \in Managers /\ mgr'.op \in {"stop", "gone"} /\ (mgr'.op = "stop" => mgr'.at = 1)
      BY <1>5 DEF stopAll, Destroyed, ListInv, Managers
    <2>3. QED
      BY <2>1, <2>2 DEF ListInv
  <1>6. CASE UNCHANGED <<configured, list, mgr>>
    BY <1>6 DEF ListInv, Registered
  <1>7. QED
    BY <1>1, <1>2, <1>3, <1>4, <1>5, <1>6 DEF ManagerMove, BuildMove

\* A back end that was started is never to start again.
LEMMA StartsOnce ==
  ASSUME ListInv, ManagerMove, NEW b, ToStart(b)'
  PROVE  ToStart(b)
  <1>1. CASE BuildMove
    BY <1>1 DEF BuildMove, registerBackend, At, SwitchedOff, MaterialRefused, ToStart
  <1>2. CASE mgr.op \in {"start", "stop"} /\ Advances
    <2>1. UNCHANGED list /\ mgr \in Managers /\ Len(list) \in Nat
      BY <1>2 DEF Advances, ListInv
    <2>2. CASE \E s \in MidSteps : Step(s)
      <3>1. mgr'.op = mgr.op /\ mgr'.at = mgr.at /\ mgr'.step # "call"
        BY <2>1, <2>2 DEF Step, Managers, MidSteps
      <3>2. QED
        BY <1>2, <2>1, <3>1 DEF ToStart, Managers
    <2>3. CASE NextInList
      <3>1. (mgr'.op = mgr.op /\ mgr'.at = mgr.at + 1) \/ mgr'.op \in {"up", "done"}
        BY <2>1, <2>3 DEF NextInList, Managers
      <3>2. QED
        BY <1>2, <2>1, <3>1 DEF ToStart, Managers
    <2>4. QED
      BY <1>2, <2>2, <2>3 DEF Advances
  <1>3. CASE stopAll \/ Destroyed
    <2>1. mgr'.op \in {"stop", "gone"}
      BY <1>3 DEF stopAll, Destroyed, ListInv, Managers
    <2>2. QED
      BY <2>1 DEF ToStart
  <1>4. CASE UNCHANGED <<configured, list, mgr>>
    BY <1>4 DEF ToStart
  <1>5. QED
    BY <1>1, <1>2, <1>3, <1>4 DEF ManagerMove

\* Where the manager's pointer goes.
LEMMA AdvanceFacts ==
  ASSUME ListInv, mgr.op \in {"start", "stop"}, Advances
  PROVE  /\ UNCHANGED list /\ list[mgr.at] \in Kinds /\ Registered(list[mgr.at])
         /\ \/ mgr'.op = mgr.op /\ mgr'.at = mgr.at /\ mgr'.step \in MidSteps
            \/ mgr'.op = mgr.op /\ mgr'.at = mgr.at + 1 /\ mgr'.step = "call"
            \/ mgr'.op = (IF mgr.op = "start" THEN "up" ELSE "done") /\ mgr.at = Len(list)
  <1>1. mgr \in Managers /\ mgr.at \in 1 .. Len(list) /\ list \in Seq(Kinds) /\ UNCHANGED list
    BY DEF ListInv, Advances
  <1>2. list[mgr.at] \in Kinds /\ Registered(list[mgr.at])
    BY <1>1 DEF Registered
  <1>3. ASSUME NEW s \in MidSteps, Step(s)
        PROVE  mgr'.op = mgr.op /\ mgr'.at = mgr.at /\ mgr'.step \in MidSteps
    BY <1>1, <1>3 DEF Step, Managers
  <1>4. CASE NextInList /\ mgr.at < Len(list)
    <2>1. mgr' = [mgr EXCEPT !.at = @ + 1, !.step = "call"]
      BY <1>4 DEF NextInList
    <2>2. mgr'.op = mgr.op /\ mgr'.at = mgr.at + 1 /\ mgr'.step = "call"
      BY <1>1, <2>1 DEF Managers
    <2>3. QED
      BY <1>1, <1>2, <2>2
  <1>5. CASE NextInList /\ ~(mgr.at < Len(list))
    <2>1. mgr' = [op |-> IF mgr.op = "start" THEN "up" ELSE "done", at |-> 1, step |-> "call"]
      BY <1>5 DEF NextInList
    <2>2. mgr'.op = (IF mgr.op = "start" THEN "up" ELSE "done")
      BY <2>1
    <2>3. mgr.at = Len(list)
      BY <1>1, <1>5
    <2>4. QED
      BY <1>1, <1>2, <2>2, <2>3
  <1>6. QED
    BY <1>1, <1>2, <1>3, <1>4, <1>5 DEF Advances

LEMMA StopAdvances ==
  ASSUME NEW b, StopLatch(b) \/ Joined(b) \/ stationStop
  PROVE  mgr.op = "stop" /\ Advances
  BY DEF StopLatch, Joined, stationStop, Stopping, At, Advances, MidSteps

LEMMA MoveOfManager ==
  ASSUME LifeMove(Kinds) \/ stopAll \/ Destroyed
  PROVE  ManagerMove
  <1>1. CASE UNCHANGED life
    BY <1>1 DEF life, ManagerMove
  <1>2. CASE \E b \in Kinds : StartMove(b)
    BY <1>2 DEF StartMove, ManagerMove
  <1>3. CASE StopMove
    BY <1>3, StopAdvances DEF StopMove, ManagerMove
  <1>4. CASE \E b \in Kinds : WorkMove(b)
    BY <1>4 DEF WorkMove, ManagerMove
  <1>5. QED
    BY <1>1, <1>2, <1>3, <1>4 DEF LifeMove, ManagerMove

\* Once start() of a back end has made a step it is no longer to start.
LEMMA StartedNow ==
  ASSUME ListInv, mgr.op = "start", Advances, NEW b, list[mgr.at] = b
  PROVE  ~ToStart(b)' /\ mgr'.op \in {"start", "up"}
  <1>1. mgr \in Managers /\ mgr.at \in 1 .. Len(list)
    BY DEF ListInv
  <1>2. QED
    BY <1>1, AdvanceFacts DEF ToStart, MidSteps, Managers

LEMMA LifeOfStart ==
  ASSUME LifeInv, NEW b \in Kinds, StartMove(b)
  PROVE  FreshInv' /\ WorkerInv'
  <1>1. /\ mgr.op = "start" /\ list[mgr.at] = b /\ Advances /\ Only({b}) /\ LifeTypes'
        /\ ListInv /\ mgr \in Managers /\ mgr.at \in 1 .. Len(list)
    BY DEF StartMove, LifeInv, ListInv
  <1>2. /\ UNCHANGED list /\ Registered(b)
        /\ \/ mgr'.op = "start" /\ mgr'.at = mgr.at /\ mgr'.step \in MidSteps
           \/ mgr'.op = "start" /\ mgr'.at = mgr.at + 1
           \/ mgr'.op = "up"
    BY <1>1, AdvanceFacts
  <1>3. ~ToStart(b)'
    BY <1>1, <1>2 DEF ToStart, MidSteps, Managers
  <1>4. \A c \in Kinds : ToStart(c)' => ToStart(c) /\ c # b
    BY <1>1, <1>3, StartsOnce DEF ManagerMove
  <1>5. FreshInv'
    BY <1>1, <1>4 DEF FreshInv, LifeInv, Only
  <1>6. mgr'.op \notin {"stop", "done", "gone", "build", "fatal"}
    BY <1>2
  <1>7. \A c \in Kinds : ~Passed(c)' /\ ~Stopping(c)' /\ ~Stopping(c)
    BY <1>1, <1>6 DEF Passed, Stopping, At
  <1>8. \A c \in Kinds : Registered(c)' <=> Registered(c)
    BY <1>2 DEF Registered
  <1>9. ASSUME NEW c \in Kinds
        PROVE  /\ thread'[c] # "none" => Registered(c)'
               /\ thread'[c] = "live" => c \in running' \/ (c = "mqtt" /\ io'[c] = "broken")
    <2>1. CASE c = b
      BY <1>2, <1>8, <2>1 DEF StartMove
    <2>2. CASE c # b
      BY <1>1, <1>7, <1>8, <2>2 DEF Only, LifeInv, WorkerInv
    <2>3. QED
      BY <2>1, <2>2
  <1>10. thread'["station"] = "none"
    BY <1>1, OrderFacts DEF StartMove, Only, LifeInv, WorkerInv
  <1>11. QED
    BY <1>5, <1>6, <1>7, <1>9, <1>10 DEF WorkerInv

LEMMA LifeOfStop ==
  ASSUME LifeInv, StopMove
  PROVE  LifeTypes' /\ FreshInv' /\ StepInv' /\ WorkerInv'
  <1>1. /\ mgr.op = "stop" /\ Advances /\ ListInv /\ mgr \in Managers /\ mgr.at \in 1 .. Len(list)
        /\ \A i, j \in 1 .. Len(list) : list[i] = list[j] => i = j
    BY StopAdvances DEF StopMove, LifeInv, ListInv
  <1> DEFINE b == list[mgr.at]
  <1>2. /\ UNCHANGED list /\ b \in Kinds
        /\ \/ mgr'.op = "stop" /\ mgr'.at = mgr.at /\ mgr'.step \in MidSteps
           \/ mgr'.op = "stop" /\ mgr'.at = mgr.at + 1 /\ mgr'.step = "call"
           \/ mgr'.op = "done" /\ mgr.at = Len(list)
    BY <1>1, AdvanceFacts
  <1>3. \/ /\ StopLatch(b) /\ b \in running /\ running' = running \ {b} /\ Step("join")
           /\ UNCHANGED <<thread, io>>
        \/ /\ b \notin running /\ mgr.step = "call" /\ NextInList /\ UNCHANGED <<running, thread, io>>
        \/ /\ Stopping(b) /\ thread[b] # "live" /\ thread' = [thread EXCEPT ![b] = "none"]
           /\ io' = [io EXCEPT ![b] = "none"] /\ NextInList /\ UNCHANGED running
        \/ /\ b = "station" /\ mgr.step = "call" /\ running' = running \ {b} /\ NextInList
           /\ UNCHANGED <<thread, io>>
    BY DEF StopMove, StopLatch, Joined, Stopping, stationStop, At
  <1>4. LifeTypes'
    BY <1>3 DEF LifeInv, LifeTypes, ThreadStates, IoStates
  <1>5. FreshInv' /\ StepInv'
    BY <1>2 DEF FreshInv, StepInv, ToStart
  <1>6. \A c \in Kinds : Registered(c)' <=> Registered(c)
    BY <1>2 DEF Registered
  <1>7. Step("join") => mgr'.op = "stop" /\ mgr'.at = mgr.at /\ mgr'.step = "join"
    BY <1>1 DEF Step, Managers
  <1>8. NextInList => mgr'.op = "done" \/ (mgr'.op = "stop" /\ mgr'.at = mgr.at + 1 /\ mgr'.step = "call")
    BY <1>1 DEF NextInList, Managers
  <1> HIDE DEF b
  <1>9. \A c \in Kinds : Stopping(c) <=> c = b /\ mgr.step = "join"
    BY <1>1 DEF Stopping, At, b
  <1>10. \A c \in Kinds : Passed(c)' /\ Registered(c) => Passed(c) \/ c = b
    BY <1>1, <1>2 DEF Passed, Registered, b, Managers
  <1>11. \A c \in Kinds : NextInList => ~Stopping(c)'
    BY <1>8 DEF Stopping, At
  <1>12. \A c \in Kinds : Step("join") => (Stopping(c)' <=> c = b) /\ (Passed(c)' <=> Passed(c))
    BY <1>1, <1>2, <1>7 DEF Stopping, At, Passed, b
  <1>13. ~Passed(b)
    BY <1>1, <1>2 DEF Passed, b, Managers
  <1>14. /\ thread' \in [Kinds -> ThreadStates] /\ thread \in [Kinds -> ThreadStates]
         /\ io \in [Kinds -> IoStates] /\ thread["station"] = "none"
    BY <1>4 DEF LifeTypes, LifeInv, WorkerInv
  <1>15. ASSUME NEW c \in Kinds, thread'[c] # "none" PROVE Registered(c)' /\ thread[c] = thread'[c]
    BY <1>2, <1>3, <1>6, <1>14, <1>15 DEF LifeInv, WorkerInv
  <1>16. ASSUME NEW c \in Kinds, thread'[c] = "live"
         PROVE  /\ c \in running' \/ Stopping(c)' \/ (c = "mqtt" /\ io'[c] = "broken")
                /\ Passed(c)' => c = "mqtt" /\ io'[c] = "broken"
    <2>1. /\ thread[c] = "live" /\ Registered(c)
          /\ c \in running \/ Stopping(c) \/ (c = "mqtt" /\ io[c] = "broken")
          /\ Passed(c) => c = "mqtt" /\ io[c] = "broken"
      BY <1>6, <1>15, <1>16 DEF LifeInv, WorkerInv
    <2>2. CASE c = b
      BY <1>3, <1>9, <1>12, <1>13, <1>14, <1>16, <2>1, <2>2
    <2>3. CASE c # b
      BY <1>2, <1>3, <1>9, <1>10, <1>14, <2>1, <2>3
    <2>4. QED
      BY <2>2, <2>3
  <1>17. ASSUME NEW c \in Kinds, Stopping(c)' PROVE c \notin running'
    BY <1>3, <1>11, <1>12, <1>17
  <1>18. thread'["station"] = "none"
    BY <1>3, <1>14, OrderFacts
  <1>19. mgr'.op \notin {"build", "fatal", "gone"}
    BY <1>2
  <1>20. QED
    BY <1>4, <1>5, <1>15, <1>16, <1>17, <1>18, <1>19 DEF WorkerInv

LEMMA LifeOfWork ==
  ASSUME LifeInv, NEW b \in Kinds, WorkMove(b)
  PROVE  LifeTypes' /\ FreshInv' /\ StepInv' /\ WorkerInv'
  <1>1. /\ UNCHANGED <<configured, list, mgr>> /\ thread[b] = "live" /\ Only({b})
        /\ thread \in [Kinds -> ThreadStates] /\ io \in [Kinds -> IoStates] /\ running \subseteq Kinds
    BY DEF WorkMove, LifeInv, LifeTypes
  <1>2. LifeTypes'
    BY <1>1 DEF WorkMove, LifeTypes, ThreadStates, IoStates
  <1>3. \A c \in Kinds : /\ ToStart(c)' <=> ToStart(c)
                         /\ Passed(c)' <=> Passed(c)
                         /\ Stopping(c)' <=> Stopping(c)
                         /\ Registered(c)' <=> Registered(c)
    BY <1>1 DEF ToStart, Passed, Stopping, At, Registered
  <1>4. ~ToStart(b)
    BY <1>1 DEF LifeInv, FreshInv
  <1>5. FreshInv'
    BY <1>1, <1>3, <1>4 DEF FreshInv, LifeInv, Only
  <1>6. StepInv'
    <2>1. \A c \in Kinds : thread[c] = "none" =>
            /\ thread'[c] = "none" /\ io'[c] = io[c] /\ (c \in running' <=> c \in running)
      BY <1>1 DEF Only
    <2>2. QED
      BY <1>1, <2>1, OrderFacts DEF LifeInv, StepInv
  <1>7. ASSUME NEW c \in Kinds, thread'[c] # "none" PROVE thread[c] # "none"
    BY <1>1, <1>7 DEF Only
  <1>8. ASSUME NEW c \in Kinds, thread'[c] = "live"
        PROVE  /\ c \in running' \/ Stopping(c) \/ (c = "mqtt" /\ io'[c] = "broken")
               /\ Passed(c) => c = "mqtt" /\ io'[c] = "broken"
    <2>1. CASE c # b
      BY <1>1, <1>8, <2>1 DEF Only, LifeInv, WorkerInv
    <2>2. CASE c = b
      <3>1. thread' = thread
        BY <1>1, <1>8, <2>2 DEF WorkMove
      <3>2. running' # running => b = "mqtt" /\ io'[b] = "broken"
        BY <3>1 DEF WorkMove
      <3>3. io[b] = "broken" => io'[b] = "broken"
        BY DEF WorkMove
      <3>4. QED
        BY <1>1, <2>2, <3>2, <3>3 DEF LifeInv, WorkerInv
    <2>3. QED
      BY <2>1, <2>2
  <1>9. running' \subseteq running
    BY DEF WorkMove
  <1>10. thread'["station"] = "none"
    BY <1>1, OrderFacts DEF Only, LifeInv, WorkerInv
  <1>11. QED
    BY <1>1, <1>2, <1>3, <1>5, <1>6, <1>7, <1>8, <1>9, <1>10 DEF LifeInv, WorkerInv

\* Every move keeps the order of starting and stopping.
LEMMA LifeStep ==
  ASSUME LifeInv, LifeMove(Kinds) \/ stopAll \/ Destroyed
  PROVE  LifeInv'
  <1>1. ListInv'
    BY MoveOfManager, ListStep DEF LifeInv
  <1>2. mgr \in Managers
    BY DEF LifeInv, ListInv
  <1>3. CASE UNCHANGED life
    BY <1>1, <1>3 DEF life, LifeInv, LifeTypes, FreshInv, StepInv, WorkerInv, ToStart, Passed, Stopping,
       At, Registered
  <1>4. CASE BuildMove
    <2>1. mgr.op = "build" /\ UNCHANGED <<running, thread, io>>
      BY <1>4 DEF BuildMove, registerBackend, SwitchedOff, MaterialRefused, At
    <2>2. \A b \in Kinds : ToStart(b)
      BY <2>1 DEF ToStart
    <2>3. \A b \in Kinds : thread[b] = "none" /\ io[b] = "none" /\ b \notin running
      BY <2>2 DEF LifeInv, FreshInv
    <2>4. mgr'.op \in {"build", "start", "fatal"} /\ (mgr'.op = "start" => mgr'.step = "call")
      BY <1>2, <1>4, <2>1 DEF BuildMove, registerBackend, SwitchedOff, MaterialRefused, Built, Managers
    <2>5. StepInv' /\ FreshInv' /\ LifeTypes'
      BY <2>1, <2>3, <2>4 DEF StepInv, FreshInv, LifeInv, LifeTypes
    <2>6. WorkerInv'
      BY <2>1, <2>3, <2>4, OrderFacts DEF WorkerInv, Stopping, At
    <2>7. QED
      BY <1>1, <2>5, <2>6 DEF LifeInv
  <1>5. CASE \E b \in Kinds : StartMove(b)
    BY <1>1, <1>5, LifeOfStart DEF LifeInv, StartMove
  <1>6. CASE StopMove
    BY <1>1, <1>6, LifeOfStop DEF LifeInv
  <1>7. CASE \E b \in Kinds : WorkMove(b)
    BY <1>1, <1>7, LifeOfWork DEF LifeInv
  <1>8. CASE stopAll
    <2>1. /\ mgr.op = "up" /\ UNCHANGED <<running, thread, io, list>>
          /\ mgr'.op = "stop" /\ mgr'.at = 1 /\ mgr'.step = "call"
      BY <1>8 DEF stopAll
    <2>2. \A b \in Kinds : ~Passed(b)' /\ ~Stopping(b)' /\ ~Stopping(b) /\ (Registered(b)' <=> Registered(b))
      BY <2>1 DEF Passed, Stopping, At, Registered
    <2>3. QED
      BY <1>1, <2>1, <2>2 DEF LifeInv, LifeTypes, FreshInv, StepInv, WorkerInv, ToStart
  <1>9. CASE Destroyed
    <2>1. /\ mgr'.op = "gone" /\ UNCHANGED running
          /\ thread' = [b \in Kinds |-> "none"] /\ io' = [b \in Kinds |-> "none"]
      BY <1>2, <1>9 DEF Destroyed, Managers
    <2>2. \A b \in Kinds : thread'[b] = "none" /\ ~Stopping(b)'
      BY <2>1 DEF Stopping, At
    <2>3. QED
      BY <1>1, <2>1, <2>2, OrderFacts
      DEF LifeInv, LifeTypes, FreshInv, StepInv, WorkerInv, ToStart, ThreadStates, IoStates
  <1>10. QED
    BY <1>3, <1>4, <1>5, <1>6, <1>7, <1>8, <1>9 DEF LifeMove

-----------------------------------------------------------------------------
(* The back ends' steps are such moves *)

\* startAll() goes on with the next start(), or it is through.
LEMMA NextIsCall ==
  ASSUME ListInv, NextInList
  PROVE  mgr'.step = "call"
  <1>1. mgr \in Managers
    BY DEF ListInv
  <1>2. CASE mgr.at < Len(list)
    BY <1>1, <1>2 DEF NextInList, Managers
  <1>3. CASE ~(mgr.at < Len(list))
    BY <1>3 DEF NextInList
  <1>4. QED
    BY <1>2, <1>3

\* The two endings of start().
LEMMA StartedMove ==
  ASSUME LifeInv, NEW b \in Kinds, b # "station", At("start", b, "call"), Started(b)
  PROVE  StartMove(b)
  <1>1. mgr.op = "start" /\ list[mgr.at] = b /\ Advances
    BY DEF At, Started, Advances
  <1>2. ListInv /\ thread \in [Kinds -> ThreadStates] /\ io \in [Kinds -> IoStates] /\ running \subseteq Kinds
    BY DEF LifeInv, LifeTypes
  <1>3. NextInList => StepInv'
    BY <1>1, <1>2, NextIsCall DEF StepInv
  <1>4. QED
    BY <1>1, <1>2, <1>3 DEF Started, StartMove, Only, LifeTypes, ThreadStates, IoStates

LEMMA ThrewMove ==
  ASSUME LifeInv, NEW b \in Kinds, b # "station", NEW s, At("start", b, s), StartThrew(b),
         thread[b] = "none"
  PROVE  StartMove(b)
  <1>1. mgr.op = "start" /\ list[mgr.at] = b /\ Advances
    BY DEF At, StartThrew, Advances
  <1>2. ListInv /\ thread \in [Kinds -> ThreadStates] /\ io \in [Kinds -> IoStates] /\ running \subseteq Kinds
    BY DEF LifeInv, LifeTypes
  <1>3. StepInv'
    BY <1>2, NextIsCall DEF StepInv, StartThrew
  <1>4. QED
    BY <1>1, <1>2, <1>3 DEF StartThrew, StartMove, Only, LifeTypes, ThreadStates, IoStates

\* What is not started has no thread.
LEMMA CallIsFresh ==
  ASSUME LifeInv, NEW b \in Kinds, At("start", b, "call")
  PROVE  ToStart(b) /\ thread[b] = "none" /\ io[b] = "none" /\ b \notin running
  <1>1. /\ mgr.op = "start" /\ list[mgr.at] = b /\ mgr.step = "call" /\ mgr.at \in 1 .. Len(list)
        /\ \A i, j \in 1 .. Len(list) : list[i] = list[j] => i = j
    BY DEF At, LifeInv, ListInv
  <1>2. ToStart(b)
    BY <1>1 DEF ToStart
  <1>3. QED
    BY <1>2 DEF LifeInv, FreshInv

\* A worker's ways to lower its flag or to return.
LEMMA ReturnMove ==
  ASSUME LifeInv, NEW b \in Kinds, LoopReturns(b)
  PROVE  WorkMove(b)
  BY DEF LoopReturns, WorkMove, Only, LifeInv, LifeTypes

LEMMA GiveUpMove ==
  ASSUME LifeInv, thread["mqtt"] = "live", WorkerGivesUp("mqtt")
  PROVE  WorkMove("mqtt")
  BY OrderFacts DEF WorkerGivesUp, WorkMove, Only, LifeInv, LifeTypes

LEMMA RegisterMove ==
  ASSUME NEW b \in Kinds, registerBackend(b), NEW K
  PROVE  LifeMove(K) /\ Only(K)
  BY DEF LifeMove, BuildMove, registerBackend, Only

LEMMA StopMoves ==
  ASSUME LifeInv, NEW b \in Kinds, StopLatch(b) \/ Joined(b)
  PROVE  LifeMove({b}) /\ Only({b})
  <1>1. LifeMove({b})
    BY DEF LifeMove, StopMove
  <1>2. Only({b})
    BY DEF StopLatch, Joined, Only, LifeInv, LifeTypes
  <1>3. QED
    BY <1>1, <1>2

LEMMA OwnMove ==
  ASSUME LifeInv, NEW b \in Kinds, StartMove(b) \/ WorkMove(b)
  PROVE  LifeMove({b}) /\ Only({b})
  BY DEF LifeMove, StartMove, WorkMove

LEMMA SameLife ==
  ASSUME UNCHANGED life, NEW K
  PROVE  LifeMove(K) /\ Only(K)
  BY DEF life, LifeMove, Only

LEMMA MoreMoves ==
  ASSUME NEW K, NEW L, K \subseteq L, LifeMove(K), Only(K)
  PROVE  LifeMove(L) /\ Only(L)
  BY DEF LifeMove, Only

\* A step inside start(), or its end.
LEMMA MidMove ==
  ASSUME LifeInv, NEW b \in Kinds, b # "station",
         mgr.op = "start", list[mgr.at] = b, Advances, Only({b}), StepInv', LifeTypes',
         thread'[b] = "live" => b \in running' \/ (b = "mqtt" /\ io'[b] = "broken")
  PROVE  LifeMove({b}) /\ Only({b})
  BY DEF LifeMove, StartMove

LEMMA ServersMove ==
  ASSUME LifeInv, TcpMain \/ TcpWorker \/ HttpNext \/ \E cmd \in Commands : handleConnection(cmd)
  PROVE  LifeMove({"tcp", "http"}) /\ Only({"tcp", "http"})
  <1>1. ListInv /\ thread \in [Kinds -> ThreadStates] /\ io \in [Kinds -> IoStates] /\ running \subseteq Kinds
        /\ mgr \in Managers /\ "tcp" \in Kinds /\ "http" \in Kinds
    BY OrderFacts DEF LifeInv, LifeTypes, ListInv
  <1>2. CASE UNCHANGED life
    BY <1>2, SameLife
  <1>3. CASE (LifeMove({"tcp"}) /\ Only({"tcp"})) \/ (LifeMove({"http"}) /\ Only({"http"}))
    BY <1>3, MoreMoves, {"tcp"} \subseteq {"tcp", "http"}, {"http"} \subseteq {"tcp", "http"}
  <1>4. CASE registerTcpBackend \/ registerHttpBackend
    BY <1>1, <1>4, RegisterMove DEF registerTcpBackend, registerHttpBackend
  <1>5. CASE tcpStart
    <2>1. At("start", "tcp", "call") /\ (Started("tcp") \/ StartThrew("tcp"))
      BY <1>5 DEF tcpStart
    <2>2. StartMove("tcp")
      BY <1>1, <2>1, StartedMove, ThrewMove, CallIsFresh
    <2>3. QED
      BY <1>1, <1>3, <2>2, OwnMove
  <1>6. CASE tcpStop \/ tcpJoin \/ httpStop \/ httpJoin
    <2>1. StopLatch("tcp") \/ Joined("tcp") \/ StopLatch("http") \/ Joined("http")
      BY <1>6 DEF tcpStop, tcpJoin, httpStop, httpJoin
    <2>2. QED
      BY <1>1, <1>3, <2>1, StopMoves
  <1>7. CASE tcpRunIoLoop \/ httpListenReturns
    <2>1. LoopReturns("tcp") \/ LoopReturns("http")
      BY <1>7 DEF tcpRunIoLoop, httpListenReturns
    <2>2. QED
      BY <1>1, <1>3, <2>1, ReturnMove, OwnMove
  <1>8. CASE tcpLoopThrows
    <2>1. WorkMove("tcp")
      BY <1>1, <1>8 DEF tcpLoopThrows, WorkMove, Only
    <2>2. QED
      BY <1>1, <1>3, <2>1, OwnMove
  <1>9. CASE httpStart
    <2>1. At("start", "http", "call") /\ thread["http"] = "none"
      BY <1>1, <1>9, CallIsFresh DEF httpStart
    <2>2. CASE StartThrew("http")
      BY <1>1, <1>3, <2>1, <2>2, ThrewMove, OwnMove
    <2>3. CASE ~StartThrew("http")
      <3>1. /\ running' = running \cup {"http"} /\ thread' = [thread EXCEPT !["http"] = "live"]
            /\ io' = [io EXCEPT !["http"] = "open"] /\ Step("ready")
            /\ UNCHANGED <<configured, list, errors>>
        BY <1>9, <2>3 DEF httpStart
      <3>2. LifeTypes' /\ Only({"http"})
        BY <1>1, <3>1 DEF LifeTypes, Only, ThreadStates, IoStates
      <3>3. Advances
        BY <3>1 DEF Advances, MidSteps
      <3>4. mgr'.step = "ready"
        BY <1>1, <3>1 DEF Step, Managers
      <3>5. StepInv'
        BY <3>4 DEF StepInv
      <3>6. "http" \in running'
        BY <3>1
      <3>7. QED
        BY <1>1, <1>3, <2>1, <3>2, <3>3, <3>5, <3>6, MidMove DEF At
    <2>4. QED
      BY <2>2, <2>3
  <1>10. CASE httpReady
    <2>1. At("start", "http", "ready") /\ Advances /\ NextInList /\ UNCHANGED <<running, thread, io>>
      BY <1>10 DEF httpReady, Advances
    <2>2. LifeTypes' /\ Only({"http"}) /\ StepInv'
      BY <1>1, <2>1, NextIsCall DEF LifeTypes, Only, StepInv
    <2>3. thread["http"] = "live" => "http" \in running
      BY <1>1, <2>1 DEF LifeInv, WorkerInv, Stopping, At
    <2>4. QED
      BY <1>1, <1>3, <2>1, <2>2, <2>3, MidMove DEF At
  <1>11. QED
    BY <1>2, <1>4, <1>5, <1>6, <1>7, <1>8, <1>9, <1>10
    DEF TcpMain, TcpWorker, HttpNext, handleConnection, ClientConnects, Accept, AcceptFails, ClientLeaves,
        httpListens, httpRequest, httpAnswer

LEMMA ModbusMove ==
  ASSUME LifeInv, ModbusNext
  PROVE  LifeMove({"modbus"}) /\ Only({"modbus"})
  <1>1. "modbus" \in Kinds
    BY OrderFacts
  <1>2. CASE registerModbusBackend
    BY <1>1, <1>2, RegisterMove DEF registerModbusBackend
  <1>3. CASE modbusStart
    BY <1>1, <1>3, StartedMove, OwnMove DEF modbusStart
  <1>4. CASE modbusStop \/ modbusJoin
    BY <1>1, <1>4, StopMoves DEF modbusStop, modbusJoin
  <1>5. CASE modbusRunLoop
    BY <1>1, <1>5, ReturnMove, OwnMove DEF modbusRunLoop
  <1>6. CASE UNCHANGED life
    BY <1>6, SameLife
  <1>7. QED
    BY <1>2, <1>3, <1>4, <1>5, <1>6
    DEF ModbusNext, NoConnection, Request, RequestFails, readImpl, ReadTimesOut, AnswerTwice, SlaveAnswers

LEMMA SerialMove ==
  ASSUME LifeInv, SerialNext
  PROVE  LifeMove({"serial"}) /\ Only({"serial"})
  <1>1. "serial" \in Kinds
    BY OrderFacts
  <1>2. CASE registerSerialBackend
    BY <1>1, <1>2, RegisterMove DEF registerSerialBackend
  <1>3. CASE serialStart
    <2>1. At("start", "serial", "call") /\ (Started("serial") \/ StartThrew("serial"))
      BY <1>3 DEF serialStart
    <2>2. QED
      BY <1>1, <2>1, StartedMove, ThrewMove, CallIsFresh, OwnMove
  <1>4. CASE serialStop \/ serialJoin
    BY <1>1, <1>4, StopMoves DEF serialStop, serialJoin
  <1>5. CASE serialRunIoLoop \/ serialRunsDry
    BY <1>1, <1>5, ReturnMove, OwnMove DEF serialRunIoLoop, serialRunsDry
  <1>6. CASE UNCHANGED life
    BY <1>6, SameLife
  <1>7. QED
    BY <1>2, <1>3, <1>4, <1>5, <1>6
    DEF SerialNext, armRead, serialReadFails, send, Enqueue, writeNext, WriteFails

LEMMA MqttMove ==
  ASSUME LifeInv, MqttNext
  PROVE  LifeMove({"mqtt"}) /\ Only({"mqtt"})
  <1>1. ListInv /\ thread \in [Kinds -> ThreadStates] /\ io \in [Kinds -> IoStates] /\ running \subseteq Kinds
        /\ mgr \in Managers /\ "mqtt" \in Kinds
    BY OrderFacts DEF LifeInv, LifeTypes, ListInv
  <1>2. CASE UNCHANGED life
    BY <1>2, SameLife
  <1>3. CASE registerMqttBackend
    BY <1>1, <1>3, RegisterMove DEF registerMqttBackend
  <1>4. CASE mqttStart
    <2>1. /\ At("start", "mqtt", "call") /\ running' = running \cup {"mqtt"} /\ Step("dial")
          /\ UNCHANGED <<configured, list, thread, io>> /\ thread["mqtt"] = "none"
      BY <1>1, <1>4, CallIsFresh DEF mqttStart
    <2>2. LifeTypes' /\ Only({"mqtt"}) /\ Advances
      BY <1>1, <2>1 DEF LifeTypes, Only, Advances, MidSteps
    <2>3. mgr'.step = "dial"
      BY <1>1, <2>1 DEF Step, Managers
    <2>4. StepInv'
      BY <2>1, <2>3 DEF StepInv
    <2>5. QED
      BY <1>1, <2>1, <2>2, <2>4, MidMove DEF At
  <1>5. CASE DialFails \/ ConnAckFails
    <2>1. PICK s \in {"dial", "connack"} : At("start", "mqtt", s) /\ StartThrew("mqtt")
      BY <1>5 DEF DialFails, ConnAckFails, ConnectFails
    <2>2. thread["mqtt"] = "none"
      BY <2>1 DEF At, LifeInv, StepInv
    <2>3. QED
      BY <1>1, <2>1, <2>2, ThrewMove, OwnMove
  <1>6. CASE Dialled
    <2>1. /\ mgr.op = "start" /\ mgr.step = "dial" /\ list[mgr.at] = "mqtt" /\ Step("connack")
          /\ io' = [io EXCEPT !["mqtt"] = "open"] /\ UNCHANGED <<configured, list, running, thread>>
      BY <1>6 DEF Dialled, At
    <2>2. "mqtt" \in running /\ thread["mqtt"] = "none"
      BY <2>1 DEF LifeInv, StepInv
    <2>3. LifeTypes' /\ Only({"mqtt"}) /\ Advances
      BY <1>1, <2>1 DEF LifeTypes, Only, Advances, MidSteps, IoStates
    <2>4. mgr'.step = "connack"
      BY <1>1, <2>1 DEF Step, Managers
    <2>5. StepInv'
      BY <2>1, <2>2, <2>4 DEF StepInv
    <2>6. QED
      BY <1>1, <2>1, <2>2, <2>3, <2>5, MidMove
  <1>7. CASE ConnAck
    <2>1. /\ mgr.op = "start" /\ mgr.step = "connack" /\ list[mgr.at] = "mqtt" /\ Step("arm")
          /\ UNCHANGED <<configured, list, thread>>
          /\ \/ UNCHANGED <<running, io>>
             \/ running' = running \ {"mqtt"} /\ io' = [io EXCEPT !["mqtt"] = "broken"]
      BY <1>7 DEF ConnAck, At
    <2>2. "mqtt" \in running /\ thread["mqtt"] = "none"
      BY <2>1 DEF LifeInv, StepInv
    <2>3. LifeTypes' /\ Only({"mqtt"}) /\ Advances
      BY <1>1, <2>1 DEF LifeTypes, Only, Advances, MidSteps, IoStates
    <2>4. mgr'.step = "arm"
      BY <1>1, <2>1 DEF Step, Managers
    <2>5. "mqtt" \in running' \/ io'["mqtt"] = "broken"
      BY <1>1, <2>1, <2>2
    <2>6. StepInv'
      BY <2>1, <2>2, <2>4, <2>5 DEF StepInv
    <2>7. QED
      BY <1>1, <2>1, <2>2, <2>3, <2>6, MidMove
  <1>8. CASE mqttArm
    <2>1. /\ mgr.op = "start" /\ mgr.step = "arm" /\ list[mgr.at] = "mqtt" /\ NextInList
          /\ UNCHANGED <<configured, list>> /\ thread' = [thread EXCEPT !["mqtt"] = "live"]
          /\ \/ UNCHANGED <<running, io>>
             \/ running' = running \ {"mqtt"} /\ io' = [io EXCEPT !["mqtt"] = "broken"]
      BY <1>8 DEF mqttArm, replaySubscriptions, At
    <2>2. "mqtt" \in running \/ io["mqtt"] = "broken"
      BY <2>1 DEF LifeInv, StepInv
    <2>3. LifeTypes' /\ Only({"mqtt"}) /\ Advances
      BY <1>1, <2>1 DEF LifeTypes, Only, Advances, IoStates, ThreadStates
    <2>4. StepInv'
      BY <1>1, <2>1, NextIsCall DEF StepInv
    <2>5. "mqtt" \in running' \/ io'["mqtt"] = "broken"
      BY <1>1, <2>1, <2>2
    <2>6. QED
      BY <1>1, <2>1, <2>3, <2>4, <2>5, MidMove
  <1>9. CASE thread["mqtt"] = "live" /\ WorkerGivesUp("mqtt")
    BY <1>1, <1>9, GiveUpMove, OwnMove
  <1>10. CASE RunPosted
    BY <1>2, <1>9, <1>10 DEF RunPosted, Handle, PublishHandler, sendSubscribeFrame, Worker
  <1>11. CASE scheduleHeartbeat \/ startReadLoop \/ readRemainingLengthByte \/ readFrameBody \/ ReadFails
    BY <1>2, <1>9, <1>11
    DEF scheduleHeartbeat, startReadLoop, readRemainingLengthByte, readFrameBody, ReadFails, Worker
  <1>12. CASE mqttRunIoLoop
    BY <1>1, <1>12, ReturnMove, OwnMove DEF mqttRunIoLoop
  <1>13. CASE mqttStop \/ mqttJoin
    BY <1>1, <1>13, StopMoves DEF mqttStop, mqttJoin
  <1>14. QED
    BY <1>2, <1>3, <1>4, <1>5, <1>6, <1>7, <1>8, <1>10, <1>11, <1>12, <1>13
    DEF MqttNext, publish, subscribe

\* The life of the OPC-UA server and of the client: the rest leaves it alone.
ServerLife == registerOpcUaBackend \/ serverStart \/ registerNodes \/ wire \/ serverStop
              \/ runIterateLoop \/ serverJoin
ClientLife == registerOpcUaClient \/ clientStart \/ clientReplay \/ clientLoopFails
              \/ clientRunIoLoop \/ clientStop \/ clientJoin

LEMMA OpcUaMove ==
  ASSUME LifeInv
  PROVE  /\ ServerLife => LifeMove({"opcua"}) /\ Only({"opcua"})
         /\ ClientLife => LifeMove({"opcuaclient"}) /\ Only({"opcuaclient"})
  <1>1. ListInv /\ thread \in [Kinds -> ThreadStates] /\ io \in [Kinds -> IoStates] /\ running \subseteq Kinds
        /\ mgr \in Managers /\ "opcua" \in Kinds /\ "opcuaclient" \in Kinds
    BY OrderFacts DEF LifeInv, LifeTypes, ListInv
  <1> DEFINE Server == LifeMove({"opcua"}) /\ Only({"opcua"})
             Client == LifeMove({"opcuaclient"}) /\ Only({"opcuaclient"})
  <1>4. (registerOpcUaBackend => Server) /\ (registerOpcUaClient => Client)
    BY <1>1, RegisterMove DEF registerOpcUaBackend, registerOpcUaClient
  <1>5. ASSUME serverStart PROVE Server
    <2>1. At("start", "opcua", "call") /\ thread["opcua"] = "none"
      BY <1>1, <1>5, CallIsFresh DEF serverStart
    <2>2. CASE StartThrew("opcua")
      BY <1>1, <2>1, <2>2, ThrewMove, OwnMove
    <2>3. CASE ~StartThrew("opcua")
      <3>1. /\ running' = running \cup {"opcua"} /\ thread' = [thread EXCEPT !["opcua"] = "live"]
            /\ io' = [io EXCEPT !["opcua"] = "open"] /\ Step("nodes")
            /\ UNCHANGED <<configured, list, errors>>
        BY <1>5, <2>3 DEF serverStart, stackRefused
      <3>2. LifeTypes' /\ Only({"opcua"}) /\ "opcua" \in running' /\ Advances
        BY <1>1, <3>1 DEF LifeTypes, Only, ThreadStates, IoStates, Advances, MidSteps
      <3>3. mgr'.step = "nodes"
        BY <1>1, <3>1 DEF Step, Managers
      <3>4. StepInv'
        BY <3>3 DEF StepInv
      <3>5. QED
        BY <1>1, <2>1, <3>2, <3>4, MidMove DEF At
    <2>4. QED
      BY <2>2, <2>3
  <1>6. ASSUME registerNodes \/ wire PROVE Server
    <2>1. /\ mgr.op = "start" /\ list[mgr.at] = "opcua" /\ (Step("wire") \/ NextInList)
          /\ UNCHANGED <<configured, list, running, thread, io>>
      BY <1>6 DEF registerNodes, wire, At
    <2>2. mgr'.step \in {"wire", "call"}
      BY <1>1, <2>1, NextIsCall DEF Step, Managers
    <2>3. LifeTypes' /\ Only({"opcua"}) /\ Advances /\ StepInv'
      BY <1>1, <2>1, <2>2 DEF LifeTypes, Only, Advances, MidSteps, StepInv
    <2>4. thread["opcua"] = "live" => "opcua" \in running
      BY <1>1, <2>1 DEF LifeInv, WorkerInv, Stopping, At
    <2>5. QED
      BY <1>1, <2>1, <2>3, <2>4, MidMove
  <1>7. ASSUME clientStart PROVE Client
    <2>1. At("start", "opcuaclient", "call") /\ connectSync /\ thread["opcuaclient"] = "none"
      BY <1>1, <1>7, CallIsFresh DEF clientStart
    <2>2. CASE StartThrew("opcuaclient")
      BY <1>1, <2>1, <2>2, ThrewMove, OwnMove
    <2>3. CASE ~StartThrew("opcuaclient")
      <3>1. /\ running' = running \cup {"opcuaclient"} /\ Step("replay")
            /\ io' = [io EXCEPT !["opcuaclient"] = "open"] /\ UNCHANGED <<configured, list, thread>>
        BY <2>1, <2>3 DEF connectSync
      <3>2. LifeTypes' /\ Only({"opcuaclient"}) /\ "opcuaclient" \in running' /\ Advances
        BY <1>1, <3>1 DEF LifeTypes, Only, IoStates, Advances, MidSteps
      <3>3. mgr'.step = "replay"
        BY <1>1, <3>1 DEF Step, Managers
      <3>4. StepInv'
        BY <2>1, <3>1, <3>2, <3>3 DEF StepInv
      <3>5. QED
        BY <1>1, <2>1, <3>2, <3>4, MidMove DEF At
    <2>4. QED
      BY <2>2, <2>3
  <1>8. ASSUME clientReplay PROVE Client
    <2>1. /\ mgr.op = "start" /\ mgr.step = "replay" /\ list[mgr.at] = "opcuaclient" /\ NextInList
          /\ thread' = [thread EXCEPT !["opcuaclient"] = "live"]
          /\ UNCHANGED <<configured, list, running, io>>
      BY <1>8 DEF clientReplay, At
    <2>2. "opcuaclient" \in running
      BY <2>1 DEF LifeInv, StepInv
    <2>3. LifeTypes' /\ Only({"opcuaclient"}) /\ Advances /\ StepInv'
      BY <1>1, <2>1, NextIsCall DEF LifeTypes, Only, Advances, ThreadStates, StepInv
    <2>4. QED
      BY <1>1, <2>1, <2>2, <2>3, MidMove
  <1>9. /\ serverStop \/ serverJoin => Server
        /\ clientStop \/ clientJoin => Client
    BY <1>1, StopMoves DEF serverStop, serverJoin, clientStop, clientJoin
  <1>10. (runIterateLoop => Server) /\ (clientRunIoLoop => Client)
    BY <1>1, ReturnMove, OwnMove DEF runIterateLoop, clientRunIoLoop
  <1>11. ASSUME clientLoopFails PROVE Client
    <2>1. WorkMove("opcuaclient")
      BY <1>1, <1>11 DEF clientLoopFails, ClientFree, WorkMove, Only, ThreadStates
    <2>2. QED
      BY <1>1, <2>1, OwnMove
  <1>12. QED
    BY <1>4, <1>5, <1>6, <1>7, <1>8, <1>9, <1>10, <1>11 DEF ServerLife, ClientLife

LEMMA StationMove ==
  ASSUME LifeInv, Main \/ MaterialRefused
  PROVE  LifeMove({"station"}) /\ Only({"station"})
  <1>1. ListInv /\ thread \in [Kinds -> ThreadStates] /\ io \in [Kinds -> IoStates] /\ running \subseteq Kinds
        /\ mgr \in Managers /\ "station" \in Kinds /\ thread["station"] = "none"
    BY OrderFacts DEF LifeInv, LifeTypes, ListInv, WorkerInv
  <1>2. CASE SwitchedOff \/ MaterialRefused
    BY <1>2 DEF SwitchedOff, MaterialRefused, LifeMove, BuildMove, Only
  <1>3. CASE registerBackend("station")
    BY <1>1, <1>3, RegisterMove
  <1>4. CASE stationStart
    <2>1. /\ mgr.op = "start" /\ list[mgr.at] = "station" /\ NextInList
          /\ running' = running \cup {"station"} /\ UNCHANGED <<configured, list, thread, io>>
      BY <1>4 DEF stationStart, At
    <2>2. LifeTypes' /\ Only({"station"}) /\ Advances /\ StepInv'
      BY <1>1, <2>1, NextIsCall DEF LifeTypes, Only, Advances, StepInv
    <2>3. StartMove("station")
      BY <1>1, <2>1, <2>2 DEF StartMove
    <2>4. QED
      BY <1>1, <2>3, OwnMove
  <1>5. CASE stationStop
    BY <1>1, <1>5 DEF stationStop, LifeMove, StopMove, Only
  <1>6. QED
    BY <1>2, <1>3, <1>4, <1>5 DEF Main

\* Every step of the system is a move of the life of its back ends.
LEMMA NextMove ==
  ASSUME LifeInv, Next
  PROVE  LifeMove(Kinds) \/ stopAll \/ Destroyed
  <1>1. \A K \in SUBSET Kinds : LifeMove(K) => LifeMove(Kinds)
    BY DEF LifeMove
  <1>2. /\ {"tcp", "http"} \in SUBSET Kinds /\ {"mqtt"} \in SUBSET Kinds /\ {"serial"} \in SUBSET Kinds
        /\ {"opcua"} \in SUBSET Kinds /\ {"opcuaclient"} \in SUBSET Kinds
        /\ {"modbus"} \in SUBSET Kinds /\ {"station"} \in SUBSET Kinds
    BY OrderFacts
  <1>3. CASE Main \/ MaterialRefused
    BY <1>1, <1>2, <1>3, StationMove
  <1>4. CASE TcpMain \/ TcpWorker \/ HttpNext \/ \E cmd \in Commands : handleConnection(cmd)
    BY <1>1, <1>2, <1>4, ServersMove
  <1>5. CASE MqttNext
    BY <1>1, <1>2, <1>5, MqttMove
  <1>6. CASE SerialNext
    BY <1>1, <1>2, <1>6, SerialMove
  <1>7. CASE OpcUaNext
    <2>1. CASE ServerLife \/ ClientLife
      BY <1>1, <1>2, <2>1, OpcUaMove
    <2>2. CASE UNCHANGED life
      BY <2>2 DEF LifeMove
    <2>3. QED
      BY <1>7, <2>1, <2>2
      DEF OpcUaNext, ServerLife, ClientLife, SessionOpens, LoadServer, writeScalar, onCommand, onDataChange
  <1>8. CASE ModbusNext
    BY <1>1, <1>2, <1>8, ModbusMove
  <1>9. QED
    BY <1>3, <1>4, <1>5, <1>6, <1>7, <1>8 DEF Next

LEMMA LifeNext ==
  ASSUME LifeInv, [Next]_all
  PROVE  LifeInv'
  <1>1. CASE Next
    BY <1>1, NextMove, LifeStep
  <1>2. CASE UNCHANGED all
    BY <1>2, LifeStep DEF all, LifeMove
  <1>3. QED
    BY <1>1, <1>2

LEMMA LifeStarts ==
  ASSUME Init
  PROVE  LifeInv
  <1>1. /\ configured \in Deployments /\ list = <<>> /\ running = {}
        /\ mgr = [op |-> "build", at |-> 1, step |-> "call"]
        /\ thread = [b \in Kinds |-> "none"] /\ io = [b \in Kinds |-> "none"]
    BY DEF Init, LifeInit
  <1>2. mgr \in Managers /\ mgr.op = "build" /\ mgr.at = 1 /\ mgr.step = "call"
    BY <1>1 DEF Managers
  <1>3. list \in Seq(Kinds) /\ Len(list) = 0
    BY <1>1
  <1>4. ListInv
    BY <1>1, <1>2, <1>3, OrderFacts DEF ListInv
  <1>5. \A b \in Kinds : thread[b] = "none" /\ io[b] = "none" /\ b \notin running /\ ~Stopping(b)
    BY <1>1, <1>2 DEF Stopping, At
  <1>6. LifeTypes
    BY <1>1 DEF LifeTypes, ThreadStates, IoStates
  <1>7. QED
    BY <1>2, <1>4, <1>5, <1>6, OrderFacts DEF LifeInv, FreshInv, StepInv, WorkerInv

\* Every back end of every deployment is started once and stopped once, in the
\* list's order, whatever fails meanwhile (IntegrationManager::startAll, stopAll).
THEOREM LifeInvariant == Spec => []LifeInv
  <1>1. LifeInv /\ [Next]_all => LifeInv'
    BY LifeNext
  <1>2. QED
    BY <1>1, LifeStarts, PTL DEF Spec

\* Once stopAll() has returned no worker is left but that of an MQTT client
\* whose connection was lost before, for every deployment.
THEOREM StopLeavesNone == Spec => []StopLeavesNoWorker
  <1>1. LifeInv => StopLeavesNoWorker
    BY DEF LifeInv, WorkerInv, Passed, StopLeavesNoWorker
  <1>2. QED
    BY <1>1, LifeInvariant, PTL

-----------------------------------------------------------------------------
(* What a step of one back end leaves of another *)

Elsewhere(b) ==
  /\ thread'[b] = thread[b] /\ io'[b] = io[b] /\ (b \in running' <=> b \in running)
  /\ ToStart(b)' => ToStart(b)
  /\ \A s \in MidSteps : At("start", b, s)' => At("start", b, s)
  /\ mgr.op = "gone" => mgr'.op = "gone"

\* While start() of one back end is between two steps, no other makes one.
LEMMA MoveElsewhere ==
  ASSUME LifeInv, NEW K \in SUBSET Kinds, LifeMove(K), Only(K), NEW b \in Kinds, b \notin K
  PROVE  Elsewhere(b)
  <1>1. ListInv /\ mgr \in Managers /\ ManagerMove
    <2>1. LifeMove(Kinds)
      BY DEF LifeMove
    <2>2. QED
      BY <2>1, MoveOfManager DEF LifeInv, ListInv
  <1>2. ToStart(b)' => ToStart(b)
    BY <1>1, StartsOnce
  <1>3. /\ \A s \in MidSteps : At("start", b, s)' => At("start", b, s)
        /\ mgr.op = "gone" => mgr'.op = "gone"
    <2>1. CASE UNCHANGED life \/ \E c \in K : WorkMove(c)
      BY <2>1 DEF life, WorkMove, At
    <2>2. CASE BuildMove
      <3>1. mgr.op = "build" /\ mgr.step = "call"
        BY <1>1, <2>2 DEF BuildMove, registerBackend, SwitchedOff, MaterialRefused, At, ListInv
      <3>2. mgr'.step = "call"
        BY <1>1, <2>2, <3>1 DEF BuildMove, registerBackend, SwitchedOff, MaterialRefused, Built, Managers
      <3>3. QED
        BY <3>1, <3>2 DEF At, MidSteps
    <2>3. ASSUME NEW c \in K, StartMove(c)
          PROVE  /\ \A s \in MidSteps : At("start", b, s)' => At("start", b, s)
                 /\ mgr.op = "gone" => mgr'.op = "gone"
      <3>1. mgr.op = "start" /\ list[mgr.at] = c /\ c # b /\ Advances
        BY <2>3 DEF StartMove
      <3>2. /\ UNCHANGED list
            /\ \/ mgr'.at = mgr.at
               \/ mgr'.step = "call"
               \/ mgr'.op = "up"
        BY <1>1, <3>1, AdvanceFacts
      <3>3. QED
        BY <3>1, <3>2 DEF At, MidSteps
    <2>4. CASE StopMove
      <3>1. mgr.op = "stop" /\ Advances
        BY <2>4, StopAdvances DEF StopMove
      <3>2. mgr'.op \in {"stop", "done"}
        BY <1>1, <3>1, AdvanceFacts
      <3>3. QED
        BY <3>1, <3>2 DEF At
    <2>5. QED
      BY <2>1, <2>2, <2>3, <2>4 DEF LifeMove
  <1>4. QED
    BY <1>2, <1>3 DEF Elsewhere, Only

LEMMA StopAllElsewhere ==
  ASSUME stopAll, NEW b
  PROVE  Elsewhere(b)
  BY DEF stopAll, Elsewhere, ToStart, At

LEMMA SameLifeElsewhere ==
  ASSUME UNCHANGED life, NEW b
  PROVE  Elsewhere(b)
  BY DEF life, Elsewhere, ToStart, At

\* Each back end but the station bridge sees the steps of the others so.
LEMMA OthersElsewhere ==
  ASSUME LifeInv
  PROVE  /\ Main \/ MaterialRefused \/ stopAll =>
              Elsewhere("mqtt") /\ Elsewhere("serial") /\ Elsewhere("opcua")
         /\ TcpMain \/ TcpWorker \/ HttpNext \/ (\E cmd \in Commands : handleConnection(cmd)) =>
              Elsewhere("mqtt") /\ Elsewhere("serial") /\ Elsewhere("opcua")
         /\ MqttNext => Elsewhere("serial") /\ Elsewhere("opcua")
         /\ SerialNext => Elsewhere("mqtt") /\ Elsewhere("opcua")
         /\ ModbusNext => Elsewhere("mqtt") /\ Elsewhere("serial") /\ Elsewhere("opcua")
         /\ ServerLife => Elsewhere("mqtt") /\ Elsewhere("serial")
         /\ ClientLife => Elsewhere("mqtt") /\ Elsewhere("serial") /\ Elsewhere("opcua")
  <1>1. /\ {"tcp", "http"} \in SUBSET Kinds /\ {"mqtt"} \in SUBSET Kinds /\ {"serial"} \in SUBSET Kinds
        /\ {"opcua"} \in SUBSET Kinds /\ {"opcuaclient"} \in SUBSET Kinds
        /\ {"modbus"} \in SUBSET Kinds /\ {"station"} \in SUBSET Kinds
    BY OrderFacts
  <1>2. "mqtt" \in Kinds /\ "serial" \in Kinds /\ "opcua" \in Kinds
    BY OrderFacts
  <1>3. Main \/ MaterialRefused \/ stopAll =>
          Elsewhere("mqtt") /\ Elsewhere("serial") /\ Elsewhere("opcua")
    BY <1>1, <1>2, StationMove, MoveElsewhere, StopAllElsewhere
  <1>4. TcpMain \/ TcpWorker \/ HttpNext \/ (\E cmd \in Commands : handleConnection(cmd)) =>
          Elsewhere("mqtt") /\ Elsewhere("serial") /\ Elsewhere("opcua")
    BY <1>1, <1>2, ServersMove, MoveElsewhere
  <1>5. MqttNext => Elsewhere("serial") /\ Elsewhere("opcua")
    BY <1>1, <1>2, MqttMove, MoveElsewhere
  <1>6. SerialNext => Elsewhere("mqtt") /\ Elsewhere("opcua")
    BY <1>1, <1>2, SerialMove, MoveElsewhere
  <1>7. ModbusNext => Elsewhere("mqtt") /\ Elsewhere("serial") /\ Elsewhere("opcua")
    BY <1>1, <1>2, ModbusMove, MoveElsewhere
  <1>8. ServerLife => Elsewhere("mqtt") /\ Elsewhere("serial")
    BY <1>1, <1>2, OpcUaMove, MoveElsewhere
  <1>9. ClientLife => Elsewhere("mqtt") /\ Elsewhere("serial") /\ Elsewhere("opcua")
    BY <1>1, <1>2, OpcUaMove, MoveElsewhere
  <1>10. QED
    BY <1>3, <1>4, <1>5, <1>6, <1>7, <1>8, <1>9

-----------------------------------------------------------------------------
(* The OPC-UA server's nodes *)

LEMMA NodesKept ==
  ASSUME NodesInv, Elsewhere("opcua"), UNCHANGED <<address, wired, emitter, lostWrite>>
  PROVE  NodesInv'
  BY DEF NodesInv, Elsewhere, MidSteps

\* An event of the model begins, on whatever thread.
LEMMA NodesEmit ==
  ASSUME NodesInv, NEW value, NEW b, Emit(value, b), UNCHANGED <<address, wired, lostWrite>>,
         UNCHANGED life
  PROVE  NodesInv'
  <1>1. Elsewhere("opcua")
    BY SameLifeElsewhere
  <1>2. emitter = "idle" /\ (emitter' # "idle" => wired = TRUE)
    BY DEF Emit, NodesInv
  <1>3. QED
    BY <1>1, <1>2 DEF NodesInv, Elsewhere, MidSteps

LEMMA NodesServer ==
  ASSUME LifeInv, NodesInv, ServerLife
  PROVE  NodesInv'
  <1>1. ListInv /\ mgr \in Managers /\ thread \in [Kinds -> ThreadStates] /\ io \in [Kinds -> IoStates]
        /\ "opcua" \in Kinds
    BY OrderFacts DEF LifeInv, LifeTypes, ListInv
  <1>2. CASE registerOpcUaBackend
    <2>1. registerBackend("opcua") /\ UNCHANGED opcua
      BY <1>2 DEF registerOpcUaBackend
    <2>2. LifeMove({}) /\ Only({})
      BY <1>1, <2>1, RegisterMove
    <2>3. Elsewhere("opcua")
      BY <1>1, <2>2, MoveElsewhere
    <2>4. QED
      BY <2>1, <2>3, NodesKept DEF opcua
  <1>3. CASE serverStart
    <2>1. /\ At("start", "opcua", "call") /\ ToStart("opcua")
          /\ UNCHANGED <<list, wired, emitter, lostWrite>>
      BY <1>1, <1>3, CallIsFresh DEF serverStart, KeepEvents, StartThrew, stackRefused
    <2>2. wired = FALSE /\ emitter = "idle" /\ lostWrite = FALSE
      BY <2>1 DEF NodesInv
    <2>3. mgr'.step # "wire"
      BY <1>1, <1>3, NextIsCall DEF serverStart, stackRefused, StartThrew, Step, Managers
    <2>4. QED
      BY <2>1, <2>2, <2>3 DEF NodesInv, At
  <1>4. CASE registerNodes
    <2>1. /\ At("start", "opcua", "nodes") /\ address' = "ready"
          /\ UNCHANGED <<wired, emitter, lostWrite>>
      BY <1>4 DEF registerNodes, addNodes, KeepEvents
    <2>2. QED
      BY <2>1 DEF NodesInv
  <1>5. CASE wire
    <2>1. /\ At("start", "opcua", "wire") /\ NextInList /\ wired' = TRUE /\ Advances
          /\ UNCHANGED <<address, emitter, lostWrite>>
      BY <1>5 DEF wire, KeepEvents, Advances
    <2>2. address = "ready" /\ mgr'.step = "call"
      BY <1>1, <2>1, NextIsCall DEF NodesInv
    <2>3. ~ToStart("opcua")'
      BY <1>1, <2>1, StartedNow DEF At
    <2>4. QED
      BY <2>1, <2>2, <2>3 DEF NodesInv, At
  <1>6. CASE serverStop
    <2>1. /\ StopLatch("opcua") /\ UNCHANGED <<io, address, emitter, lostWrite>>
          /\ wired' \in {wired, FALSE}
      BY <1>6 DEF serverStop, StopLatch, unwire, KeepEvents
    <2>2. mgr'.op \in {"stop", "done"}
      BY <1>1, <2>1, StopAdvances, AdvanceFacts
    <2>3. QED
      BY <2>1, <2>2 DEF NodesInv, At, ToStart
  <1>7. CASE runIterateLoop
    <2>1. UNCHANGED <<mgr, list, io, address, wired, emitter, lostWrite>>
      BY <1>7 DEF runIterateLoop, LoopReturns, opcua
    <2>2. QED
      BY <2>1 DEF NodesInv, At, ToStart
  <1>8. CASE serverJoin
    <2>1. Joined("opcua") /\ io' = [io EXCEPT !["opcua"] = "none"] /\ UNCHANGED <<wired, emitter, lostWrite>>
      BY <1>8 DEF serverJoin, Joined, KeepEvents
    <2>2. mgr'.op \in {"stop", "done"}
      BY <1>1, <2>1, StopAdvances, AdvanceFacts
    <2>3. io'["opcua"] = "none"
      BY <1>1, <2>1
    <2>4. QED
      BY <2>1, <2>2, <2>3 DEF NodesInv, At, ToStart
  <1>9. QED
    BY <1>2, <1>3, <1>4, <1>5, <1>6, <1>7, <1>8 DEF ServerLife

LEMMA NodesOpcUa ==
  ASSUME LifeInv, NodesInv, OpcUaNext
  PROVE  NodesInv'
  <1>1. CASE ClientLife
    <2>1. UNCHANGED <<address, wired, emitter, lostWrite>>
      BY <1>1 DEF ClientLife, registerOpcUaClient, clientStart, clientReplay, clientLoopFails, clientRunIoLoop,
         clientStop, clientJoin, KeepServer, KeepEvents, serverVars, opcua
    <2>2. QED
      BY <1>1, <2>1, OthersElsewhere, NodesKept
  <1>2. CASE SessionOpens
    BY <1>2, SameLifeElsewhere, NodesKept DEF SessionOpens, KeepEvents
  <1>3. CASE LoadServer \/ writeScalar
    <2>1. /\ UNCHANGED life /\ UNCHANGED <<address, wired>> /\ emitter # "idle"
          /\ lostWrite' \in {lostWrite, lostWrite \/ (ServerUp /\ address # "ready")}
      BY <1>3 DEF LoadServer, writeScalar, KeepServer, serverVars
    <2>2. lostWrite' = FALSE
      BY <2>1 DEF NodesInv, ServerUp
    <2>3. Elsewhere("opcua")
      BY <2>1, SameLifeElsewhere
    <2>4. QED
      BY <2>1, <2>2, <2>3 DEF NodesInv, Elsewhere, MidSteps
  <1>4. ASSUME NEW v \in BOOLEAN, onCommand(v) PROVE NodesInv'
    BY <1>4, NodesEmit DEF onCommand, remoteCommand, KeepServer, serverVars
  <1>5. ASSUME NEW v \in BOOLEAN, onDataChange(v) PROVE NodesInv'
    <2>1. UNCHANGED life /\ UNCHANGED <<address, wired, lostWrite>>
      BY <1>5 DEF onDataChange, KeepServer, serverVars
    <2>2. CASE lastEnabled = {v}
      BY <1>5, <2>1, <2>2, SameLifeElsewhere, NodesKept DEF onDataChange, onStatusNotification
    <2>3. CASE lastEnabled # {v}
      BY <1>5, <2>1, <2>3, NodesEmit DEF onDataChange, onStatusNotification
    <2>4. QED
      BY <2>2, <2>3
  <1>6. QED
    BY <1>1, <1>2, <1>3, <1>4, <1>5, NodesServer DEF OpcUaNext, ServerLife, ClientLife

\* No write of a model event is lost for want of its node while the server
\* serves, for every deployment: the callbacks are registered after the nodes
\* (OpcUaBackend::start, FactoryNodeMap::wire), whatever thread the event is on.
THEOREM NoWriteIsLost == Spec => []NoWriteLost
  <1>1. Init => NodesInv
    <2> SUFFICES ASSUME Init PROVE NodesInv
      OBVIOUS
    <2>1. mgr.op = "build" /\ io["opcua"] = "none"
      BY OrderFacts DEF Init, LifeInit
    <2>2. wired = FALSE /\ emitter = "idle" /\ lostWrite = FALSE
      BY DEF Init, OpcUaInit
    <2>3. QED
      BY <2>1, <2>2 DEF NodesInv, At
  <1>2. LifeInv /\ NodesInv /\ [Next]_all => NodesInv'
    <2> SUFFICES ASSUME LifeInv, NodesInv, [Next]_all PROVE NodesInv'
      OBVIOUS
    <2>1. CASE Elsewhere("opcua") /\ UNCHANGED opcua
      BY <2>1, NodesKept DEF opcua
    <2>2. ASSUME NEW cmd \in Commands, handleConnection(cmd), dispatchCommand(cmd) PROVE NodesInv'
      <3>1. UNCHANGED life
        BY <2>2 DEF handleConnection
      <3>2. CASE UNCHANGED opcua
        BY <2>1, <3>1, <3>2, SameLifeElsewhere
      <3>3. CASE remoteCommand(cmd = "on", "tcp")
        BY <3>1, <3>3, NodesEmit DEF remoteCommand, KeepServer, serverVars
      <3>4. QED
        BY <2>2, <3>2, <3>3 DEF dispatchCommand
    <2>3. CASE Destroyed /\ UNCHANGED opcua
      <3>1. mgr'.op = "gone" /\ io'["opcua"] = "none"
        BY <2>3, OrderFacts DEF Destroyed, LifeInv, ListInv, Managers
      <3>2. QED
        BY <2>3, <3>1 DEF NodesInv, At, ToStart, opcua
    <2>4. CASE UNCHANGED all
      BY <2>1, <2>4, SameLifeElsewhere DEF all
    <2>5. CASE (Main \/ MaterialRefused \/ stopAll) /\ UNCHANGED opcua
      BY <2>1, <2>5, OthersElsewhere
    <2>6. CASE (TcpMain \/ TcpWorker \/ HttpNext) /\ UNCHANGED opcua
      BY <2>1, <2>6, OthersElsewhere
    <2>7. CASE (MqttNext \/ SerialNext \/ ModbusNext) /\ UNCHANGED opcua
      BY <2>1, <2>7, OthersElsewhere
    <2>8. QED
      BY <2>2, <2>3, <2>4, <2>5, <2>6, <2>7, NodesOpcUa DEF Next
  <1>3. NodesInv => NoWriteLost
    BY DEF NodesInv, NoWriteLost
  <1>4. QED
    BY <1>1, <1>2, <1>3, LifeInvariant, PTL DEF Spec

-----------------------------------------------------------------------------
(* Modbus requests and answers *)

Answers == [tid : Nat, kind : Kinds_]
Results == [end : {"no connection", "write", "decode", "exception", "ok", "timeout"}, for : Nat, req : Nat]

AnswerTypes ==
  /\ tid \in Nat /\ asked \subseteq Nat /\ answers \in Seq(Answers) /\ results \in Seq(Results)
  /\ read \in {"idle", "sent"} /\ extra \in Nat /\ extra <= MaxExtra

\* The reads that will end before the one under way, or the next one, does.
Ahead == IF read = "sent" THEN 0 ELSE 1

\* Each read takes one answer away, so only answers that came twice make more of
\* them, and of requests still to be answered, than there are reads.
BacklogInv ==
  /\ IsFiniteSet(asked)
  /\ Cardinality(asked) + Len(answers) + Ahead <= 1 + extra

\* How many requests an answer is behind by the time a read gets to it.
LagInv ==
  /\ \A t \in asked : t <= tid
  /\ \A i \in 1 .. Len(answers) :
       answers[i].tid <= tid /\ (tid - answers[i].tid) + (i - 1) + Ahead <= MaxLate + extra

AnswersInv == AnswerTypes /\ BacklogInv /\ LagInv /\ AnswersMatchRequests

LEMMA NoShortRound ==
  ASSUME NEW m \in Nat, m > 0, NEW k \in Int, NEW d \in Int, d = m * k, 0 <= d, d < m
  PROVE  d = 0
  BY SMT

LEMMA Residue ==
  ASSUME NEW m \in Nat, m > 0, NEW x \in Int
  PROVE  x % m \in Nat /\ \E k \in Int : x = m * k + (x % m)
  <1>1. x % m \in 0 .. m - 1
    BY SMT
  <1>2. \E k \in Int : x = m * k + (x % m)
    BY SMT
  <1>3. QED
    BY <1>1, <1>2

LEMMA Factored ==
  ASSUME NEW m \in Nat, NEW j \in Int, NEW k \in Int
  PROVE  m * (k - j) = m * k - m * j /\ m * k \in Int /\ m * j \in Int
  BY SMT

\* Two requests less than the number of ids apart have different ids.
LEMMA IdsDiffer ==
  ASSUME NEW t \in Nat, NEW u \in Nat, t <= u, u - t < TidMod, TransactionId(t) = TransactionId(u)
  PROVE  t = u
  <1>1. TidMod \in Nat /\ TidMod > 0 /\ t \in Int /\ u \in Int
    BY ModbusAssumption
  <1>2. TransactionId(t) \in Nat /\ \E k \in Int : t = TidMod * k + TransactionId(t)
    BY <1>1, Residue, Zenon DEF TransactionId
  <1>3. \E k \in Int : u = TidMod * k + TransactionId(u)
    BY <1>1, Residue, Zenon DEF TransactionId
  <1>4. PICK j \in Int : t = TidMod * j + TransactionId(t)
    BY <1>2
  <1>5. PICK k \in Int : u = TidMod * k + TransactionId(t)
    BY <1>3
  <1>6. u - t = TidMod * (k - j)
    BY <1>1, <1>2, <1>4, <1>5, Factored
  <1>7. u - t \in Int /\ 0 <= u - t /\ k - j \in Int
    OBVIOUS
  <1>8. u - t = 0
    BY <1>1, <1>6, <1>7, NoShortRound
  <1>9. QED
    BY <1>8

LEMMA RequestNumbers ==
  ASSUME answers \in Seq(Answers), NEW i \in 1 .. Len(answers)
  PROVE  answers[i].tid \in Nat /\ i \in Nat
  <1>1. answers[i] \in Answers
    OBVIOUS
  <1>2. QED
    BY <1>1 DEF Answers

\* A read that ends adds one result.
LEMMA ResultAdded ==
  ASSUME AnswersInv, NEW r \in Results, results' = Append(results, r),
         r.end \in {"ok", "exception"} => r.for = r.req
  PROVE  results' \in Seq(Results) /\ AnswersMatchRequests'
  <1>1. /\ results' \in Seq(Results) /\ Len(results') = Len(results) + 1
        /\ \A i \in 1 .. Len(results) : results'[i] = results[i]
        /\ results'[Len(results) + 1] = r
    BY DEF AnswersInv, AnswerTypes
  <1>2. QED
    BY <1>1 DEF AnswersInv, AnswerTypes, AnswersMatchRequests

\* A connection that is closed leaves nothing to come.
LEMMA NothingToCome ==
  ASSUME AnswersInv, disconnect, tid' \in Nat, read' = "idle", UNCHANGED extra,
         results' \in Seq(Results), AnswersMatchRequests'
  PROVE  AnswersInv'
  <1>1. asked' = {} /\ answers' = <<>> /\ Len(answers') = 0 /\ answers' \in Seq(Answers)
    BY DEF disconnect
  <1>2. IsFiniteSet({}) /\ Cardinality({}) = 0
    BY FS_EmptySet
  <1>3. AnswerTypes'
    BY <1>1 DEF AnswersInv, AnswerTypes
  <1>4. BacklogInv'
    BY <1>1, <1>2 DEF AnswersInv, AnswerTypes, BacklogInv, Ahead
  <1>5. LagInv'
    BY <1>1 DEF LagInv
  <1>6. QED
    BY <1>3, <1>4, <1>5 DEF AnswersInv

LEMMA RequestKeeps ==
  ASSUME AnswersInv, Request
  PROVE  AnswersInv'
  <1>1. /\ tid \in Nat /\ asked \subseteq Nat /\ answers \in Seq(Answers) /\ read = "idle" /\ extra \in Nat
        /\ tid' = tid + 1 /\ read' = "sent" /\ asked' = asked \cup {tid + 1}
        /\ UNCHANGED <<answers, results, extra>>
    BY DEF AnswersInv, AnswerTypes, Request
  <1>2. Ahead = 1 /\ Ahead' = 0
    BY <1>1 DEF Ahead
  <1>3. IsFiniteSet(asked) /\ Cardinality(asked) + Len(answers) + 1 <= 1 + extra
    BY <1>2 DEF AnswersInv, BacklogInv
  <1>4. /\ IsFiniteSet(asked') /\ Cardinality(asked) \in Nat
        /\ Cardinality(asked') <= Cardinality(asked) + 1 /\ Cardinality(asked') \in Nat
    <2>1. Cardinality(asked) \in Nat
      BY <1>3, FS_CardinalityType
    <2>2. IsFiniteSet(asked') /\ Cardinality(asked') \in {Cardinality(asked), Cardinality(asked) + 1}
      BY <1>1, <1>3, FS_AddElement
    <2>3. QED
      BY <2>1, <2>2
  <1>5. BacklogInv'
    BY <1>1, <1>2, <1>3, <1>4 DEF BacklogInv
  <1>6. LagInv'
    <2>1. \A t \in asked' : t <= tid'
      BY <1>1 DEF AnswersInv, LagInv
    <2>2. ASSUME NEW i \in 1 .. Len(answers)
          PROVE  answers[i].tid <= tid' /\ (tid' - answers[i].tid) + (i - 1) + Ahead' <= MaxLate + extra
      <3>1. /\ answers[i].tid \in Nat /\ answers[i].tid <= tid
            /\ (tid - answers[i].tid) + (i - 1) + 1 <= MaxLate + extra
        BY <1>1, <1>2, RequestNumbers DEF AnswersInv, LagInv
      <3>2. MaxLate \in Nat
        BY ModbusAssumption
      <3>3. QED
        BY <1>1, <1>2, <3>1, <3>2
    <2>3. answers' = answers /\ extra' = extra
      BY <1>1
    <2>4. QED
      BY <2>1, <2>2, <2>3 DEF LagInv
  <1>7. QED
    BY <1>1, <1>5, <1>6 DEF AnswersInv, AnswerTypes, AnswersMatchRequests

LEMMA ReadKeeps ==
  ASSUME AnswersInv, readImpl
  PROVE  AnswersInv'
  <1> DEFINE answer == Head(answers)
  <1>1. /\ tid \in Nat /\ answers \in Seq(Answers) /\ extra \in Nat /\ extra <= MaxExtra
        /\ answers # <<>> /\ read = "sent" /\ read' = "idle" /\ UNCHANGED <<tid, extra>>
    BY DEF AnswersInv, AnswerTypes, readImpl
  <1>2. answer \in Answers /\ Tail(answers) \in Seq(Answers) /\ answer = answers[1]
        /\ Len(answers) \in Nat /\ Len(answers) > 0 /\ Len(Tail(answers)) = Len(answers) - 1
        /\ \A i \in 1 .. Len(answers) - 1 : Tail(answers)[i] = answers[i + 1]
    BY <1>1
  <1>3. CASE answer.kind = "bad length"
    <2> DEFINE r == [end |-> "decode", for |-> 0, req |-> tid]
    <2>1. r \in Results /\ results' = Append(results, r) /\ disconnect
      BY <1>1, <1>3 DEF readImpl, Results
    <2>2. r.end \notin {"ok", "exception"}
      OBVIOUS
    <2> HIDE DEF r
    <2>3. QED
      BY <1>1, <2>1, <2>2, ResultAdded, NothingToCome
  <1>4. CASE answer.kind # "bad length"
    <2> DEFINE r == [end |-> decodeReadResponse(answer), for |-> answer.tid, req |-> tid]
    <2>1. results' = Append(results, r) /\ answers' = Tail(answers) /\ UNCHANGED asked
      BY <1>4 DEF readImpl
    <2>2. Ahead = 0 /\ Ahead' = 1
      BY <1>1 DEF Ahead
    <2>3. answer.tid \in Nat /\ answer.tid <= tid /\ tid - answer.tid <= MaxLate + extra
      BY <1>1, <1>2, <2>2 DEF AnswersInv, LagInv, Answers
    <2>4. MaxLate \in Nat /\ MaxExtra \in Nat /\ TidMod \in Nat /\ MaxLate + MaxExtra < TidMod
      BY ModbusAssumption
    <2>5. TransactionId(answer.tid) = TransactionId(tid) => answer.tid = tid
      <3>1. tid - answer.tid < TidMod
        BY <1>1, <2>3, <2>4
      <3> HIDE DEF answer
      <3>2. QED
        BY <1>1, <2>3, <3>1, IdsDiffer
    <2> HIDE DEF answer
    <2>6. /\ decodeReadResponse(answer) \in {"decode", "exception", "ok"}
          /\ decodeReadResponse(answer) # "decode" => answer.tid = tid
      <3>1. CASE answer.kind = "garbled" \/ TransactionId(answer.tid) # TransactionId(tid)
        BY <3>1 DEF decodeReadResponse
      <3>2. CASE ~(answer.kind = "garbled" \/ TransactionId(answer.tid) # TransactionId(tid))
        BY <2>5, <3>2 DEF decodeReadResponse
      <3>3. QED
        BY <3>1, <3>2
    <2>7. r \in Results /\ (r.end \in {"ok", "exception"} => r.for = r.req)
      BY <1>1, <2>3, <2>6 DEF Results
    <2> HIDE DEF r
    <2>8. results' \in Seq(Results) /\ AnswersMatchRequests'
      BY <2>1, <2>7, ResultAdded
    <2>9. AnswerTypes'
      BY <1>1, <1>2, <2>1, <2>8 DEF AnswersInv, AnswerTypes
    <2>10. BacklogInv'
      <3>1. IsFiniteSet(asked) /\ Cardinality(asked) + Len(answers) + 0 <= 1 + extra
        BY <2>2 DEF AnswersInv, BacklogInv
      <3>2. Cardinality(asked) \in Nat
        BY <3>1, FS_CardinalityType
      <3>3. QED
        BY <1>1, <1>2, <2>1, <2>2, <3>1, <3>2 DEF BacklogInv
    <2>11. LagInv'
      <3>1. \A t \in asked : t <= tid
        BY DEF AnswersInv, LagInv
      <3>2. ASSUME NEW i \in 1 .. Len(answers')
            PROVE  answers'[i].tid <= tid /\ (tid - answers'[i].tid) + (i - 1) + 1 <= MaxLate + extra
        <4>1. i \in 1 .. Len(answers) - 1 /\ answers'[i] = answers[i + 1] /\ i + 1 \in 1 .. Len(answers)
          BY <1>2, <2>1
        <4>2. answers[i + 1].tid <= tid /\ (tid - answers[i + 1].tid) + (i + 1 - 1) + 0 <= MaxLate + extra
          BY <2>2, <4>1 DEF AnswersInv, LagInv
        <4>3. answers[i + 1].tid \in Nat
          BY <1>1, <4>1, RequestNumbers
        <4>4. QED
          BY <1>1, <2>4, <4>1, <4>2, <4>3
      <3>3. QED
        BY <1>1, <2>1, <2>2, <3>1, <3>2 DEF LagInv
    <2>12. QED
      BY <2>8, <2>9, <2>10, <2>11 DEF AnswersInv
  <1>5. QED
    BY <1>3, <1>4

LEMMA SlaveKeeps ==
  ASSUME AnswersInv, NEW k \in Kinds_, SlaveAnswers(k)
  PROVE  AnswersInv'
  <1>1. PICK t \in asked : /\ tid - t <= MaxLate
                           /\ answers' = Append(answers, [tid |-> t, kind |-> k]) /\ asked' = asked \ {t}
    BY DEF SlaveAnswers
  <1>2. UNCHANGED <<tid, results, read, extra>> /\ UNCHANGED Ahead
    BY DEF SlaveAnswers, Ahead
  <1>3. /\ tid \in Nat /\ t \in Nat /\ t <= tid /\ answers \in Seq(Answers) /\ extra \in Nat
        /\ Len(answers) \in Nat /\ Ahead \in {0, 1}
    BY <1>1 DEF AnswersInv, AnswerTypes, LagInv, Ahead
  <1>4. [tid |-> t, kind |-> k] \in Answers /\ [tid |-> t, kind |-> k].tid = t
    BY <1>3 DEF Answers
  <1>5. /\ answers' \in Seq(Answers) /\ Len(answers') = Len(answers) + 1
        /\ \A i \in 1 .. Len(answers) : answers'[i] = answers[i]
        /\ answers'[Len(answers) + 1].tid = t
    BY <1>1, <1>3, <1>4
  <1>6. IsFiniteSet(asked) /\ Cardinality(asked) + Len(answers) + Ahead <= 1 + extra
    BY DEF AnswersInv, BacklogInv
  <1>7. /\ Cardinality(asked) \in Nat /\ IsFiniteSet(asked')
        /\ Cardinality(asked') = Cardinality(asked) - 1 /\ Cardinality(asked') \in Nat
    <2>1. Cardinality(asked) \in Nat
      BY <1>6, FS_CardinalityType
    <2>2. IsFiniteSet(asked') /\ Cardinality(asked') = Cardinality(asked) - 1
      BY <1>1, <1>6, FS_RemoveElement
    <2>3. Cardinality(asked') \in Nat
      BY <2>2, FS_CardinalityType
    <2>4. QED
      BY <2>1, <2>2, <2>3
  <1>8. BacklogInv'
    BY <1>2, <1>3, <1>5, <1>6, <1>7 DEF BacklogInv
  <1>9. LagInv'
    <2>1. \A u \in asked' : u <= tid
      BY <1>1 DEF AnswersInv, LagInv
    <2>2. ASSUME NEW i \in 1 .. Len(answers')
          PROVE  answers'[i].tid <= tid /\ (tid - answers'[i].tid) + (i - 1) + Ahead <= MaxLate + extra
      <3>1. CASE i \in 1 .. Len(answers)
        BY <1>5, <3>1 DEF AnswersInv, LagInv
      <3>2. CASE i = Len(answers) + 1
        <4>1. Len(answers) + Ahead <= extra
          BY <1>3, <1>6, <1>7
        <4>2. MaxLate \in Nat
          BY ModbusAssumption
        <4>3. QED
          BY <1>1, <1>3, <1>5, <3>2, <4>1, <4>2
      <3>3. QED
        BY <1>3, <1>5, <3>1, <3>2
    <2>3. QED
      BY <1>2, <2>1, <2>2 DEF LagInv
  <1>10. QED
    BY <1>1, <1>2, <1>5, <1>8, <1>9 DEF AnswersInv, AnswerTypes, AnswersMatchRequests

LEMMA TwiceKeeps ==
  ASSUME AnswersInv, AnswerTwice
  PROVE  AnswersInv'
  <1>1. /\ answers' = <<Head(answers)>> \o answers /\ answers # <<>> /\ extra' = extra + 1 /\ extra < MaxExtra
        /\ UNCHANGED <<tid, asked, results, read>> /\ UNCHANGED Ahead
    BY DEF AnswerTwice, Ahead
  <1>2. /\ tid \in Nat /\ answers \in Seq(Answers) /\ extra \in Nat /\ Ahead \in {0, 1}
        /\ Len(answers) \in Nat /\ Len(answers) > 0
        /\ MaxLate \in Nat /\ MaxExtra \in Nat
    BY <1>1, ModbusAssumption DEF AnswersInv, AnswerTypes, Ahead
  <1>3. /\ answers' \in Seq(Answers) /\ Len(answers') = Len(answers) + 1
        /\ answers'[1] = answers[1] /\ \A i \in 1 .. Len(answers) : answers'[i + 1] = answers[i]
    BY <1>1, <1>2
  <1>4. IsFiniteSet(asked) /\ Cardinality(asked) + Len(answers) + Ahead <= 1 + extra
    BY DEF AnswersInv, BacklogInv
  <1>5. Cardinality(asked) \in Nat
    BY <1>4, FS_CardinalityType
  <1>6. BacklogInv'
    BY <1>1, <1>2, <1>3, <1>4, <1>5 DEF BacklogInv
  <1>7. LagInv'
    <2>1. \A u \in asked : u <= tid
      BY DEF AnswersInv, LagInv
    <2>2. \A i \in 1 .. Len(answers) :
            /\ answers[i].tid \in Nat /\ answers[i].tid <= tid
            /\ (tid - answers[i].tid) + (i - 1) + Ahead <= MaxLate + extra
      BY <1>2, RequestNumbers DEF AnswersInv, LagInv
    <2>3. ASSUME NEW i \in 1 .. Len(answers')
          PROVE  answers'[i].tid <= tid /\ (tid - answers'[i].tid) + (i - 1) + Ahead <= MaxLate + (extra + 1)
      <3>1. CASE i = 1
        BY <1>2, <1>3, <2>2, <3>1
      <3>2. CASE i # 1
        <4>1. i - 1 \in 1 .. Len(answers) /\ answers'[i] = answers[i - 1]
          <5>1. i - 1 \in 1 .. Len(answers) /\ (i - 1) + 1 = i
            BY <1>2, <1>3, <3>2
          <5>2. QED
            BY <1>3, <5>1
        <4>2. /\ answers[i - 1].tid \in Nat /\ answers[i - 1].tid <= tid
              /\ (tid - answers[i - 1].tid) + ((i - 1) - 1) + Ahead <= MaxLate + extra
          BY <2>2, <4>1
        <4>3. i \in Int /\ Ahead \in Int
          BY <1>2
        <4>4. (tid - answers[i - 1].tid) + (i - 1) + Ahead <= MaxLate + (extra + 1)
          <5> DEFINE a == answers[i - 1].tid
          <5>1. a \in Nat /\ (tid - a) + ((i - 1) - 1) + Ahead <= MaxLate + extra
            BY <4>2
          <5> HIDE DEF a
          <5>2. (tid - a) + (i - 1) + Ahead <= MaxLate + (extra + 1)
            BY <1>2, <4>3, <5>1
          <5>3. QED
            BY <5>2 DEF a
        <4>5. QED
          BY <4>1, <4>2, <4>4
      <3>3. QED
        BY <3>1, <3>2
    <2>4. QED
      BY <1>1, <2>1, <2>3 DEF LagInv
  <1>8. QED
    BY <1>1, <1>2, <1>3, <1>6, <1>7 DEF AnswersInv, AnswerTypes, AnswersMatchRequests

LEMMA AnswersModbus ==
  ASSUME AnswersInv, ModbusNext
  PROVE  AnswersInv'
  <1>1. tid \in Nat
    BY DEF AnswersInv, AnswerTypes
  <1>2. CASE NoConnection
    <2> DEFINE r == [end |-> "no connection", for |-> 0, req |-> tid]
    <2>1. r \in Results /\ results' = Append(results, r) /\ UNCHANGED <<tid, asked, answers, extra>>
          /\ read = "idle" /\ read' = "idle"
      BY <1>1, <1>2 DEF NoConnection, Ends, Results
    <2>2. r.end \notin {"ok", "exception"}
      OBVIOUS
    <2> HIDE DEF r
    <2>3. results' \in Seq(Results) /\ AnswersMatchRequests'
      BY <2>1, <2>2, ResultAdded
    <2>4. QED
      BY <2>1, <2>3 DEF AnswersInv, AnswerTypes, BacklogInv, LagInv, Ahead
  <1>3. CASE RequestFails
    <2>1. PICK n \in Nat : n = tid + 1
      BY <1>1
    <2> DEFINE r == [end |-> "write", for |-> 0, req |-> n]
    <2>2. results' = Append(results, r) /\ tid' = n /\ disconnect /\ read' = "idle" /\ UNCHANGED extra
      BY <1>3, <2>1 DEF RequestFails
    <2>3. r \in Results /\ r.end \notin {"ok", "exception"}
      BY DEF Results
    <2> HIDE DEF r
    <2>4. QED
      BY <2>1, <2>2, <2>3, ResultAdded, NothingToCome
  <1>4. CASE ReadTimesOut
    <2> DEFINE r == [end |-> "timeout", for |-> 0, req |-> tid]
    <2>1. r \in Results /\ results' = Append(results, r) /\ disconnect /\ read' = "idle" /\ UNCHANGED <<tid, extra>>
      BY <1>1, <1>4 DEF ReadTimesOut, Ends, Results
    <2>2. r.end \notin {"ok", "exception"}
      OBVIOUS
    <2> HIDE DEF r
    <2>3. QED
      BY <1>1, <2>1, <2>2, ResultAdded, NothingToCome
  <1>5. CASE UNCHANGED modbus
    BY <1>5 DEF modbus, AnswersInv, AnswerTypes, BacklogInv, LagInv, Ahead, AnswersMatchRequests
  <1>6. QED
    BY <1>2, <1>3, <1>4, <1>5, RequestKeeps, ReadKeeps, SlaveKeeps, TwiceKeeps
    DEF ModbusNext, registerModbusBackend, modbusStart, modbusStop, modbusRunLoop, modbusJoin

\* Every value and every exception of a read is that of its own request, although
\* the ids repeat: however many reads there are, an answer never gets so far
\* behind that its id comes round again (ModbusClient::readImpl, nextTid_).
THEOREM AnswersDoMatch == Spec => []AnswersMatchRequests
  <1>1. Init => AnswersInv
    <2> SUFFICES ASSUME Init PROVE AnswersInv
      OBVIOUS
    <2>1. /\ tid = 0 /\ asked = {} /\ answers = <<>> /\ results = <<>> /\ extra = 0 /\ read = "idle"
          /\ Len(answers) = 0 /\ answers \in Seq(Answers) /\ results \in Seq(Results)
      BY DEF Init, ModbusInit
    <2>2. AnswerTypes
      BY <2>1, ModbusAssumption DEF AnswerTypes
    <2>3. BacklogInv
      BY <2>1, FS_EmptySet DEF BacklogInv, Ahead
    <2>4. QED
      BY <2>1, <2>2, <2>3 DEF AnswersInv, LagInv, AnswersMatchRequests
  <1>2. AnswersInv /\ [Next]_all => AnswersInv'
    <2> SUFFICES ASSUME AnswersInv, [Next]_all PROVE AnswersInv'
      OBVIOUS
    <2>1. CASE UNCHANGED modbus
      BY <2>1 DEF modbus, AnswersInv, AnswerTypes, BacklogInv, LagInv, Ahead, AnswersMatchRequests
    <2>2. QED
      BY <2>1, AnswersModbus DEF Next, all
  <1>3. QED
    BY <1>1, <1>2, PTL DEF Spec, AnswersInv

-----------------------------------------------------------------------------
(* MQTT subscriptions *)

\* A topic of the table is with the broker or on its way there.
Covered ==
  \A t \in subs : t \in brokerSubs \/ \E i \in 1 .. Len(ioq) : ioq[i] = <<"subscribe", t>>

LEMMA PostFacts ==
  /\ <<"publish">> \in Posts /\ <<"publish">>[1] = "publish"
  /\ <<"teardown">> \in Posts /\ <<"teardown">>[1] = "teardown"
  /\ \A t \in Topics : /\ <<"subscribe", t>> \in Posts
                       /\ <<"subscribe", t>>[1] = "subscribe" /\ <<"subscribe", t>>[2] = t
  BY DEF Posts

\* A handler more in the queue takes no topic off its way.
LEMMA PostKeeps ==
  ASSUME TopicsInv, NEW post \in Posts, ioq' = Append(ioq, post), UNCHANGED <<subs, brokerSubs>>
  PROVE  ioq' \in Seq(Posts) /\ (Covered => Covered') /\ \E i \in 1 .. Len(ioq') : ioq'[i] = post
  <1>1. /\ ioq' \in Seq(Posts) /\ Len(ioq') = Len(ioq) + 1 /\ Len(ioq) \in Nat
        /\ \A i \in 1 .. Len(ioq) : ioq'[i] = ioq[i]
        /\ ioq'[Len(ioq) + 1] = post
    BY DEF TopicsInv
  <1>2. Covered => Covered'
    <2> SUFFICES ASSUME Covered, NEW t \in subs
                 PROVE  t \in brokerSubs \/ \E i \in 1 .. Len(ioq') : ioq'[i] = <<"subscribe", t>>
      BY DEF Covered
    <2>1. CASE t \in brokerSubs
      BY <2>1
    <2>2. ASSUME NEW i \in 1 .. Len(ioq), ioq[i] = <<"subscribe", t>>
          PROVE  \E j \in 1 .. Len(ioq') : ioq'[j] = <<"subscribe", t>>
      <3>1. i \in 1 .. Len(ioq') /\ ioq'[i] = <<"subscribe", t>>
        BY <1>1, <2>2
      <3>2. QED
        BY <3>1
    <2>3. QED
      BY <2>1, <2>2 DEF Covered
  <1>3. Len(ioq) + 1 \in 1 .. Len(ioq')
    BY <1>1
  <1>4. QED
    BY <1>1, <1>2, <1>3

\* The handler at the head has run: only its own topic leaves the queue.
LEMMA HeadLeaves ==
  ASSUME TopicsInv, Covered, ioq # <<>>, ioq' = Tail(ioq), UNCHANGED subs, brokerSubs \subseteq brokerSubs',
         \A t \in Topics : Head(ioq) = <<"subscribe", t>> => t \in brokerSubs'
  PROVE  Covered'
  <1>1. /\ Len(ioq) \in Nat /\ Len(ioq') = Len(ioq) - 1 /\ Head(ioq) = ioq[1]
        /\ \A i \in 1 .. Len(ioq') : ioq'[i] = ioq[i + 1]
    BY DEF TopicsInv
  <1> SUFFICES ASSUME NEW t \in subs
               PROVE  t \in brokerSubs' \/ \E i \in 1 .. Len(ioq') : ioq'[i] = <<"subscribe", t>>
    BY DEF Covered
  <1>2. CASE t \in brokerSubs
    BY <1>2
  <1>3. ASSUME NEW i \in 1 .. Len(ioq), ioq[i] = <<"subscribe", t>>
        PROVE  t \in brokerSubs' \/ \E j \in 1 .. Len(ioq') : ioq'[j] = <<"subscribe", t>>
    <2>1. CASE i = 1
      BY <1>1, <1>3, <2>1 DEF TopicsInv
    <2>2. CASE i # 1
      <3>1. i - 1 \in 1 .. Len(ioq') /\ ioq'[i - 1] = <<"subscribe", t>>
        BY <1>1, <1>3, <2>2
      <3>2. QED
        BY <3>1
    <2>3. QED
      BY <2>1, <2>2
  <1>4. QED
    BY <1>2, <1>3 DEF Covered

LEMMA TopicsKept ==
  ASSUME TopicsInv, Elsewhere("mqtt"), UNCHANGED <<session, ioq, subs, brokerSubs>>
  PROVE  TopicsInv'
  BY DEF TopicsInv, Elsewhere

\* What the invariant asks of a step that leaves the session.
LEMMA TopicsGoOn ==
  ASSUME TopicsInv, UNCHANGED <<mgr, session>>,
         "mqtt" \in running' => "mqtt" \in running, thread'["mqtt"] = "live" => thread["mqtt"] = "live",
         ioq' \in Seq(Posts), subs' \subseteq Topics,
         "mqtt" \in running' /\ Covered => Covered'
  PROVE  TopicsInv'
  BY DEF TopicsInv, Covered

LEMMA TopicsRunPosted ==
  ASSUME LifeInv, TopicsInv, RunPosted
  PROVE  TopicsInv'
  <1>1. /\ thread["mqtt"] = "live" /\ session # "none" /\ ioq # <<>> /\ ioq' = Tail(ioq) /\ UNCHANGED subs
        /\ ioq \in Seq(Posts) /\ thread \in [Kinds -> ThreadStates]
    BY DEF RunPosted, Worker, TopicsInv, LifeInv, LifeTypes
  <1>2. Head(ioq) \in Posts /\ ioq' \in Seq(Posts)
    BY <1>1
  <1>3. subs' \subseteq Topics
    BY <1>1 DEF TopicsInv
  <1>4. CASE Head(ioq)[1] = "teardown"
    <2>1. session' = "closing" /\ UNCHANGED life /\ UNCHANGED brokerSubs
      BY <1>4 DEF RunPosted
    <2>2. Covered => Covered'
      BY <1>1, <1>4, <2>1, HeadLeaves, PostFacts
    <2>3. QED
      BY <1>2, <1>3, <2>1, <2>2 DEF TopicsInv, Covered, life
  <1>5. CASE Head(ioq)[1] = "publish"
    <2>1. UNCHANGED <<session, brokerSubs>> /\ (UNCHANGED life \/ WorkerGivesUp("mqtt"))
      BY <1>5 DEF RunPosted, Handle, PublishHandler
    <2>2. /\ UNCHANGED <<mgr, thread>> /\ ("mqtt" \in running' => "mqtt" \in running)
      BY <2>1 DEF life, WorkerGivesUp
    <2>3. Covered => Covered'
      BY <1>1, <1>5, <2>1, HeadLeaves, PostFacts
    <2>4. QED
      BY <1>2, <1>3, <2>1, <2>2, <2>3, TopicsGoOn
  <1>6. CASE Head(ioq)[1] \notin {"teardown", "publish"}
    <2>1. PICK t \in Topics : Head(ioq) = <<"subscribe", t>>
      BY <1>2, <1>6 DEF Posts
    <2>2. sendSubscribeFrame(t) /\ UNCHANGED session
      BY <1>6, <2>1 DEF RunPosted, Handle
    <2>3. /\ UNCHANGED <<mgr, thread>> /\ ("mqtt" \in running' => "mqtt" \in running)
          /\ "mqtt" \in running' => brokerSubs' = brokerSubs \cup {t}
      BY <2>2 DEF sendSubscribeFrame, up, life, WorkerGivesUp
    <2>4. "mqtt" \in running' /\ Covered => Covered'
      <3> SUFFICES ASSUME "mqtt" \in running', Covered PROVE Covered'
        OBVIOUS
      <3>1. brokerSubs' = brokerSubs \cup {t}
        BY <2>3
      <3>2. \A u \in Topics : Head(ioq) = <<"subscribe", u>> => u \in brokerSubs'
        BY <2>1, <3>1
      <3>3. QED
        BY <1>1, <3>1, <3>2, HeadLeaves
    <2>5. QED
      BY <1>2, <1>3, <2>2, <2>3, <2>4, TopicsGoOn
  <1>7. QED
    BY <1>4, <1>5, <1>6

LEMMA TopicsMqtt ==
  ASSUME LifeInv, TopicsInv, MqttNext
  PROVE  TopicsInv'
  <1>1. /\ ListInv /\ mgr \in Managers /\ thread \in [Kinds -> ThreadStates] /\ "mqtt" \in Kinds
        /\ running \subseteq Kinds /\ ioq \in Seq(Posts) /\ subs \subseteq Topics
    BY OrderFacts DEF LifeInv, LifeTypes, ListInv, TopicsInv
  <1>2. CASE registerMqttBackend
    <2>1. /\ mgr.op = "build" /\ registerBackend("mqtt") /\ subs' \in {{}, IngestTopics}
          /\ UNCHANGED <<running, thread, session, ioq>>
      BY <1>2 DEF registerMqttBackend, registerBackend, wireIngestTopics, At
    <2>2. thread["mqtt"] = "none" /\ "mqtt" \notin running
      BY <1>1, <2>1 DEF LifeInv, FreshInv, ToStart
    <2>3. subs' \subseteq Topics
      BY <2>1 DEF Topics
    <2>4. QED
      BY <1>1, <2>1, <2>2, <2>3 DEF TopicsInv
  <1>3. CASE mqttStart
    <2>1. thread["mqtt"] = "none" /\ session' = "up" /\ UNCHANGED <<thread, ioq, subs>>
      BY <1>1, <1>3, CallIsFresh DEF mqttStart
    <2>2. QED
      BY <1>1, <2>1 DEF TopicsInv
  <1>4. CASE DialFails \/ ConnAckFails
    <2>1. running' = running \ {"mqtt"} /\ UNCHANGED <<ioq, subs>>
      BY <1>4 DEF DialFails, ConnAckFails, ConnectFails, StartThrew
    <2>2. QED
      BY <1>1, <2>1 DEF TopicsInv
  <1>5. CASE Dialled
    <2>1. mgr.op # "gone" /\ UNCHANGED <<running, thread, session, ioq, subs, brokerSubs>>
      BY <1>5 DEF Dialled, At, mqtt
    <2>2. QED
      BY <2>1 DEF TopicsInv
  <1>6. CASE ConnAck
    <2>1. mgr.op = "start" /\ thread["mqtt"] = "none" /\ UNCHANGED <<thread, session, subs>>
      BY <1>6 DEF ConnAck, At, LifeInv, StepInv
    <2>2. ioq' \in Seq(Posts)
      BY <1>1, <1>6 DEF ConnAck
    <2>3. "mqtt" \in running' => "mqtt" \in running
      BY <1>6 DEF ConnAck
    <2>4. QED
      BY <1>1, <2>1, <2>2, <2>3 DEF TopicsInv
  <1>7. CASE mqttArm
    <2>1. mgr.op # "gone" /\ UNCHANGED <<session, ioq, subs>> /\ replaySubscriptions
      BY <1>7 DEF mqttArm, At
    <2>2. /\ "mqtt" \in running' => "mqtt" \in running
          /\ "mqtt" \in running' => brokerSubs' = brokerSubs \cup subs
      BY <2>1 DEF replaySubscriptions, up
    <2>3. session = "none" => "mqtt" \notin running
      BY <2>1 DEF TopicsInv
    <2>4. QED
      BY <1>1, <2>1, <2>2, <2>3 DEF TopicsInv
  <1>8. CASE publish
    <2>1. ioq' = Append(ioq, <<"publish">>) /\ UNCHANGED life /\ UNCHANGED <<session, subs, brokerSubs>>
      BY <1>8 DEF publish
    <2>2. ioq' \in Seq(Posts) /\ (Covered => Covered')
      BY <2>1, PostKeeps, PostFacts
    <2>3. QED
      BY <1>1, <2>1, <2>2, TopicsGoOn DEF life
  <1>9. ASSUME NEW t \in LateTopics, subscribe(t) PROVE TopicsInv'
    <2>1. /\ subs' = subs \cup {t} /\ UNCHANGED life /\ UNCHANGED <<session, brokerSubs>>
          /\ mgr.op # "gone" /\ t \in Topics
      BY <1>9 DEF subscribe, Topics
    <2>2. CASE "mqtt" \in running /\ session # "none"
      <3>1. ioq' = Append(ioq, <<"subscribe", t>>)
        BY <1>9, <2>2 DEF subscribe, up
      <3>2. /\ ioq' \in Seq(Posts) /\ Len(ioq') = Len(ioq) + 1 /\ Len(ioq) \in Nat
            /\ \A i \in 1 .. Len(ioq) : ioq'[i] = ioq[i]
            /\ ioq'[Len(ioq) + 1] = <<"subscribe", t>>
        BY <1>1, <2>1, <3>1, PostFacts
      <3>3. Covered => Covered'
        <4> SUFFICES ASSUME Covered, NEW u \in subs'
                     PROVE  u \in brokerSubs \/ \E i \in 1 .. Len(ioq') : ioq'[i] = <<"subscribe", u>>
          BY <2>1 DEF Covered
        <4>1. CASE u = t
          <5>1. Len(ioq) + 1 \in 1 .. Len(ioq')
            BY <3>2
          <5>2. QED
            BY <3>2, <4>1, <5>1
        <4>2. CASE u # t
          <5>1. u \in brokerSubs \/ \E i \in 1 .. Len(ioq) : ioq[i] = <<"subscribe", u>>
            BY <2>1, <4>2 DEF Covered
          <5>2. 1 .. Len(ioq) \subseteq 1 .. Len(ioq')
            BY <3>2
          <5>3. QED
            BY <3>2, <5>1, <5>2
        <4>3. QED
          BY <4>1, <4>2
      <3>4. QED
        BY <1>1, <2>1, <3>2, <3>3, TopicsGoOn DEF life
    <2>3. CASE ~("mqtt" \in running /\ session # "none")
      <3>1. "mqtt" \notin running
        BY <2>1, <2>3 DEF TopicsInv
      <3>2. UNCHANGED ioq
        BY <1>9, <2>3 DEF subscribe, up
      <3>3. QED
        BY <1>1, <2>1, <3>1, <3>2 DEF TopicsInv, life
    <2>4. QED
      BY <2>2, <2>3
  <1>10. CASE scheduleHeartbeat \/ startReadLoop \/ readRemainingLengthByte \/ readFrameBody \/ ReadFails
    <2>1. /\ UNCHANGED <<session, ioq, subs, brokerSubs>>
          /\ UNCHANGED life \/ WorkerGivesUp("mqtt")
      BY <1>10 DEF scheduleHeartbeat, startReadLoop, readRemainingLengthByte, readFrameBody, ReadFails, KeepReader
    <2>2. /\ UNCHANGED <<mgr, thread>> /\ ("mqtt" \in running' => "mqtt" \in running)
      BY <2>1 DEF life, WorkerGivesUp
    <2>3. QED
      BY <1>1, <2>1, <2>2, TopicsGoOn DEF Covered
  <1>11. CASE mqttRunIoLoop
    <2>1. UNCHANGED <<session, ioq, subs, brokerSubs, mgr, running>> /\ thread'["mqtt"] # "live"
      BY <1>1, <1>11 DEF mqttRunIoLoop, LoopReturns, mqtt
    <2>2. QED
      BY <1>1, <2>1 DEF TopicsInv
  <1>12. CASE mqttStop
    <2>1. /\ StopLatch("mqtt") /\ UNCHANGED <<session, subs, brokerSubs, thread>>
          /\ ioq' \in {ioq, Append(ioq, <<"teardown">>)}
      BY <1>12 DEF mqttStop, StopLatch
    <2>2. "mqtt" \notin running'
      BY <2>1 DEF StopLatch
    <2>3. ioq' \in Seq(Posts)
      BY <1>1, <2>1, PostFacts
    <2>4. QED
      BY <1>1, <2>1, <2>2, <2>3 DEF TopicsInv
  <1>13. CASE mqttJoin
    <2>1. Joined("mqtt") /\ UNCHANGED <<subs, running>> /\ ioq' = <<>> /\ Stopping("mqtt")
      BY <1>13 DEF mqttJoin, Joined
    <2>2. "mqtt" \notin running
      BY <1>1, <2>1 DEF LifeInv, WorkerInv
    <2>3. ioq' \in Seq(Posts)
      BY <2>1
    <2>4. QED
      BY <1>1, <2>1, <2>2, <2>3 DEF TopicsInv
  <1>14. QED
    BY <1>2, <1>3, <1>4, <1>5, <1>6, <1>7, <1>8, <1>9, <1>10, <1>11, <1>12, <1>13, TopicsRunPosted DEF MqttNext

\* The broker has a SUBSCRIBE for every topic of the table once the client runs
\* and its handlers have, for any topics and any order of subscribe(), the
\* replay, the CONNACK and the failures of the connection (MqttClient).
THEOREM SubscriptionsReach == Spec => []SubscriptionsReachBroker
  <1>1. Init => TopicsInv
    <2> SUFFICES ASSUME Init PROVE TopicsInv
      OBVIOUS
    <2>1. running = {} /\ ioq = <<>> /\ subs = {}
      BY DEF Init, MqttInit, LifeInit
    <2>2. QED
      BY <2>1 DEF TopicsInv
  <1>2. LifeInv /\ TopicsInv /\ [Next]_all => TopicsInv'
    <2> SUFFICES ASSUME LifeInv, TopicsInv, [Next]_all PROVE TopicsInv'
      OBVIOUS
    <2>1. CASE Elsewhere("mqtt") /\ UNCHANGED mqtt
      BY <2>1, TopicsKept DEF mqtt
    <2>2. CASE Destroyed /\ ioq' = <<>> /\ UNCHANGED subs
      <3>1. mgr'.op = "gone" /\ thread'["mqtt"] = "none" /\ ioq' \in Seq(Posts)
        BY <2>2, OrderFacts DEF Destroyed, LifeInv, ListInv, Managers
      <3>2. QED
        BY <2>2, <3>1 DEF TopicsInv
    <2>3. CASE UNCHANGED all
      BY <2>1, <2>3, SameLifeElsewhere DEF all
    <2>4. CASE (Main \/ MaterialRefused \/ stopAll) /\ UNCHANGED mqtt
      BY <2>1, <2>4, OthersElsewhere
    <2>5. CASE (TcpMain \/ TcpWorker \/ HttpNext \/ (\E cmd \in Commands : handleConnection(cmd)))
               /\ UNCHANGED mqtt
      BY <2>1, <2>5, OthersElsewhere
    <2>6. CASE (SerialNext \/ ModbusNext) /\ UNCHANGED mqtt
      BY <2>1, <2>6, OthersElsewhere
    <2>7. CASE OpcUaNext /\ UNCHANGED mqtt
      <3>1. CASE ServerLife \/ ClientLife
        BY <2>1, <2>7, <3>1, OthersElsewhere
      <3>2. CASE UNCHANGED life
        BY <2>1, <2>7, <3>2, SameLifeElsewhere
      <3>3. QED
        BY <2>7, <3>1, <3>2
        DEF OpcUaNext, ServerLife, ClientLife, SessionOpens, LoadServer, writeScalar, onCommand, onDataChange
    <2>8. QED
      BY <2>2, <2>3, <2>4, <2>5, <2>6, <2>7, TopicsMqtt DEF Next
  <1>3. TopicsInv => SubscriptionsReachBroker
    <2> SUFFICES ASSUME TopicsInv, up, thread["mqtt"] = "live",
                        \A i \in DOMAIN ioq : ioq[i][1] # "subscribe",
                        NEW t \in subs
                 PROVE  t \in brokerSubs
      BY DEF SubscriptionsReachBroker
    <2>1. t \in brokerSubs \/ \E i \in 1 .. Len(ioq) : ioq[i] = <<"subscribe", t>>
      BY DEF TopicsInv, up
    <2>2. DOMAIN ioq = 1 .. Len(ioq)
      BY DEF TopicsInv
    <2>3. t \in Topics
      BY DEF TopicsInv
    <2>4. QED
      BY <2>1, <2>2, <2>3, PostFacts
  <1>4. QED
    BY <1>1, <1>2, <1>3, LifeInvariant, PTL DEF Spec

-----------------------------------------------------------------------------
(* Writes to the serial port *)

SendTypes ==
  line \in Seq(Nat) /\ writeQueue \in Seq(Nat) /\ posted \in Seq(Nat) /\ accepted \in Nat

\* Where the elements of the whole are.
LEMMA WholeFacts ==
  ASSUME NEW a \in Seq(Nat), NEW b \in Seq(Nat), NEW c \in Seq(Nat)
  PROVE  /\ a \o b \o c \in Seq(Nat)
         /\ Len(a \o b \o c) = Len(a) + Len(b) + Len(c)
         /\ \A i \in 1 .. Len(a) + Len(b) + Len(c) :
              (a \o b \o c)[i] = IF i <= Len(a) THEN a[i]
                                 ELSE IF i <= Len(a) + Len(b) THEN b[i - Len(a)]
                                 ELSE c[i - Len(a) - Len(b)]
  <1>1. /\ a \o b \in Seq(Nat) /\ Len(a \o b) = Len(a) + Len(b)
        /\ \A i \in 1 .. Len(a) + Len(b) : (a \o b)[i] = IF i <= Len(a) THEN a[i] ELSE b[i - Len(a)]
    OBVIOUS
  <1>2. QED
    BY <1>1

\* A buffer that moves from the head of one queue to the end of the one before
\* it leaves the whole as it is.
LEMMA HeadMoves ==
  ASSUME NEW a \in Seq(Nat), NEW b \in Seq(Nat), b # <<>>
  PROVE  Append(a, Head(b)) \o Tail(b) = a \o b
  <1>1. /\ Append(a, Head(b)) \in Seq(Nat) /\ Len(Append(a, Head(b))) = Len(a) + 1
        /\ Tail(b) \in Seq(Nat) /\ Len(Tail(b)) = Len(b) - 1
    OBVIOUS
  <1>2. Len(Append(a, Head(b)) \o Tail(b)) = Len(a \o b)
    BY <1>1
  <1>3. ASSUME NEW i \in 1 .. Len(a \o b)
        PROVE  (Append(a, Head(b)) \o Tail(b))[i] = (a \o b)[i]
    BY <1>1, <1>3
  <1>4. QED
    BY <1>1, <1>2, <1>3

LEMMA AppendAfter ==
  ASSUME NEW a \in Seq(Nat), NEW b \in Seq(Nat), NEW h \in Nat
  PROVE  a \o Append(b, h) = Append(a \o b, h)
  <1>1. /\ Append(b, h) \in Seq(Nat) /\ Len(Append(b, h)) = Len(b) + 1
        /\ a \o b \in Seq(Nat) /\ Len(a \o b) = Len(a) + Len(b)
        /\ Append(a \o b, h) \in Seq(Nat) /\ Len(Append(a \o b, h)) = Len(a) + Len(b) + 1
        /\ a \o Append(b, h) \in Seq(Nat) /\ Len(a \o Append(b, h)) = Len(a) + Len(b) + 1
    OBVIOUS
  <1>2. ASSUME NEW i \in 1 .. Len(a) + Len(b) + 1
        PROVE  (a \o Append(b, h))[i] = Append(a \o b, h)[i]
    BY <1>1, <1>2
  <1>3. QED
    BY <1>1, <1>2

LEMMA SendKept ==
  ASSUME SendInv, Elsewhere("serial"), UNCHANGED <<line, writeQueue, posted, accepted, writeFailed>>
  PROVE  SendInv'
  BY DEF SendInv, Elsewhere, Whole, Ascending

\* Buffers move towards the port.
LEMMA SendMoves ==
  ASSUME SendInv, Elsewhere("serial"), Enqueue \/ writeNext
  PROVE  SendInv'
  <1>1. line \in Seq(Nat) /\ writeQueue \in Seq(Nat) /\ posted \in Seq(Nat) /\ accepted \in Nat
    BY DEF SendInv
  <1>2. CASE Enqueue
    <2>1. /\ posted # <<>> /\ posted' = Tail(posted) /\ writeQueue' = Append(writeQueue, Head(posted))
          /\ UNCHANGED <<line, accepted, writeFailed>>
      BY <1>2 DEF Enqueue
    <2>2. Head(posted) \in Nat /\ line \o writeQueue \in Seq(Nat)
      BY <1>1, <2>1
    <2>3. line \o writeQueue' = Append(line \o writeQueue, Head(posted))
      BY <1>1, <2>1, <2>2, AppendAfter
    <2>4. Whole' = Whole
      BY <1>1, <2>1, <2>2, <2>3, HeadMoves DEF Whole
    <2>5. posted' \in Seq(Nat) /\ writeQueue' \in Seq(Nat)
      BY <1>1, <2>1, <2>2
    <2>6. ~ToStart("serial")
      BY <2>1 DEF SendInv
    <2>7. QED
      BY <1>1, <2>1, <2>4, <2>5, <2>6 DEF SendInv, Elsewhere, Ascending
  <1>3. CASE writeNext
    <2>1. /\ writeQueue # <<>> /\ writeQueue' = Tail(writeQueue) /\ line' = Append(line, Head(writeQueue))
          /\ UNCHANGED <<posted, accepted, writeFailed>>
      BY <1>3 DEF writeNext
    <2>2. line' \o writeQueue' = line \o writeQueue
      BY <1>1, <2>1, HeadMoves
    <2>3. Whole' = Whole
      BY <2>1, <2>2 DEF Whole
    <2>4. line' \in Seq(Nat) /\ writeQueue' \in Seq(Nat)
      BY <1>1, <2>1
    <2>5. ~ToStart("serial")
      BY <2>1 DEF SendInv
    <2>6. QED
      BY <1>1, <2>1, <2>3, <2>4, <2>5 DEF SendInv, Elsewhere, Ascending
  <1>4. QED
    BY <1>2, <1>3

\* send() takes a buffer more.
LEMMA SendTakes ==
  ASSUME LifeInv, SendInv, send
  PROVE  SendInv'
  <1>1. /\ line \in Seq(Nat) /\ writeQueue \in Seq(Nat) /\ posted \in Seq(Nat) /\ accepted \in Nat
        /\ Ascending(Whole, accepted)
    BY DEF SendInv
  <1>2. /\ thread["serial"] # "none" /\ accepted' = accepted + 1 /\ posted' = Append(posted, accepted + 1)
        /\ UNCHANGED life /\ UNCHANGED <<line, writeQueue, writeFailed>>
    BY DEF send
  <1>3. ~ToStart("serial") /\ Elsewhere("serial")
    BY <1>2, SameLifeElsewhere, OrderFacts DEF LifeInv, FreshInv
  <1>4. Whole \in Seq(Nat) /\ line \o writeQueue \in Seq(Nat)
    BY <1>1 DEF Whole
  <1>5. Whole' = Append(Whole, accepted + 1)
    <2>1. (line \o writeQueue) \o Append(posted, accepted + 1) = Append((line \o writeQueue) \o posted, accepted + 1)
      BY <1>1, <1>4, AppendAfter
    <2>2. QED
      BY <1>2, <2>1 DEF Whole
  <1> DEFINE w == Whole
             v == Whole'
  <1>6. /\ Len(v) = Len(w) + 1 /\ Len(w) \in Nat
        /\ \A i \in 1 .. Len(w) : v[i] = w[i]
        /\ v[Len(w) + 1] = accepted + 1
    BY <1>1, <1>4, <1>5
  <1>7. Ascending(w, accepted)
    BY <1>1
  <1>8. thread["serial"] # "none" /\ writeFailed = FALSE =>
          Len(w) = accepted /\ \A i \in 1 .. accepted : w[i] = i
    BY DEF SendInv
  <1> HIDE DEF w, v
  <1>9. Ascending(v, accepted + 1)
    <2>1. ASSUME NEW i \in 1 .. Len(v) PROVE v[i] \in 1 .. accepted + 1
      <3>1. CASE i \in 1 .. Len(w)
        <4>1. v[i] = w[i] /\ w[i] \in 1 .. accepted
          BY <1>6, <1>7, <3>1 DEF Ascending
        <4>2. QED
          BY <1>1, <4>1
      <3>2. CASE i = Len(w) + 1
        BY <1>1, <1>6, <3>2
      <3>3. QED
        BY <1>6, <3>1, <3>2
    <2>2. ASSUME NEW i \in 1 .. Len(v), NEW j \in 1 .. Len(v), i < j PROVE v[i] < v[j]
      <3>1. i \in 1 .. Len(w)
        BY <1>6, <2>2
      <3>2. CASE j \in 1 .. Len(w)
        BY <1>6, <1>7, <2>2, <3>1, <3>2 DEF Ascending
      <3>3. CASE j = Len(w) + 1
        <4>1. w[i] \in 1 .. accepted
          BY <1>7, <3>1 DEF Ascending
        <4>2. QED
          BY <1>1, <1>6, <3>1, <3>3, <4>1
      <3>4. QED
        BY <1>6, <2>2, <3>2, <3>3
    <2>3. QED
      BY <2>1, <2>2 DEF Ascending
  <1>10. writeFailed = FALSE => Len(v) = accepted + 1 /\ \A i \in 1 .. accepted + 1 : v[i] = i
    <2> SUFFICES ASSUME writeFailed = FALSE
                 PROVE  Len(v) = accepted + 1 /\ \A i \in 1 .. accepted + 1 : v[i] = i
      OBVIOUS
    <2>1. Len(w) = accepted /\ \A i \in 1 .. accepted : w[i] = i
      BY <1>2, <1>8
    <2>2. ASSUME NEW i \in 1 .. accepted + 1 PROVE v[i] = i
      <3>1. CASE i \in 1 .. accepted
        BY <1>6, <2>1, <3>1
      <3>2. CASE i = accepted + 1
        BY <1>6, <2>1, <3>2
      <3>3. QED
        BY <1>1, <3>1, <3>2
    <2>3. QED
      BY <1>6, <2>1, <2>2
  <1>11. posted' \in Seq(Nat) /\ accepted' \in Nat
    BY <1>1, <1>2
  <1>12. v = Whole'
    BY DEF v
  <1>13. QED
    BY <1>1, <1>2, <1>3, <1>9, <1>10, <1>11, <1>12 DEF SendInv, Elsewhere

\* A failed write, or the end of the back end, takes buffers away.
LEMMA SendLoses ==
  ASSUME SendInv, line' = line, accepted' = accepted, writeQueue' = <<>>, posted' \in {posted, <<>>},
         ~ToStart("serial")', thread'["serial"] # "none" => writeFailed' # FALSE
  PROVE  SendInv'
  <1>1. /\ line \in Seq(Nat) /\ writeQueue \in Seq(Nat) /\ posted \in Seq(Nat) /\ accepted \in Nat
        /\ Ascending(Whole, accepted)
    BY DEF SendInv
  <1>2. <<>> \in Seq(Nat) /\ Len(<<>>) = 0
    OBVIOUS
  <1> DEFINE p == posted'
             v == line \o <<>> \o p
             w == Whole
             n == Len(writeQueue)
             m == Len(line)
  <1>3. p \in Seq(Nat) /\ Len(p) \in {Len(posted), 0} /\ n \in Nat /\ m \in Nat
        /\ \A i \in 1 .. Len(p) : p[i] = posted[i]
    <2>1. CASE p = posted
      BY <1>1, <2>1
    <2>2. CASE p = <<>>
      BY <1>1, <1>2, <2>2
    <2>3. QED
      BY <2>1, <2>2
  <1>4. /\ Len(w) = m + n + Len(posted)
        /\ \A i \in 1 .. m + n + Len(posted) :
             w[i] = IF i <= m THEN line[i] ELSE IF i <= m + n THEN writeQueue[i - m] ELSE posted[i - m - n]
    BY <1>1, WholeFacts DEF Whole
  <1>5. /\ Len(v) = m + Len(p)
        /\ \A i \in 1 .. m + Len(p) : v[i] = IF i <= m THEN line[i] ELSE p[i - m]
    BY <1>1, <1>2, <1>3, WholeFacts
  <1>6. Len(posted) \in Nat
    BY <1>1
  <1>7. Ascending(w, accepted)
    BY <1>1
  <1> HIDE DEF v, w, n, m, p
  \* Where an element of what is left was before.
  <1>8. \A i \in 1 .. Len(v) : /\ (IF i <= m THEN i ELSE i + n) \in 1 .. Len(w)
                               /\ v[i] = w[IF i <= m THEN i ELSE i + n]
    <2> SUFFICES ASSUME NEW i \in 1 .. Len(v)
                 PROVE  /\ (IF i <= m THEN i ELSE i + n) \in 1 .. Len(w)
                        /\ v[i] = w[IF i <= m THEN i ELSE i + n]
      OBVIOUS
    <2>1. CASE i <= m
      <3>1. i \in 1 .. m + n + Len(posted) /\ i \in 1 .. m + Len(p)
        BY <1>3, <1>5, <1>6, <2>1
      <3>2. v[i] = line[i] /\ w[i] = line[i]
        BY <1>4, <1>5, <2>1, <3>1
      <3>3. QED
        BY <1>4, <2>1, <3>1, <3>2
    <2>2. CASE ~(i <= m)
      <3>1. i - m \in 1 .. Len(p) /\ i \in 1 .. m + Len(p) /\ i + n \in 1 .. m + n + Len(posted)
        BY <1>3, <1>5, <1>6, <2>2
      <3>2. v[i] = p[i - m]
        BY <1>5, <2>2, <3>1
      <3>3. w[i + n] = posted[(i + n) - m - n]
        BY <1>3, <1>4, <2>2, <3>1
      <3>4. (i + n) - m - n = i - m
        BY <1>3, <3>1
      <3>5. p[i - m] = posted[i - m]
        BY <1>3, <3>1
      <3>6. QED
        BY <1>4, <2>2, <3>1, <3>2, <3>3, <3>4, <3>5
    <2>3. QED
      BY <2>1, <2>2
  <1>9. Ascending(v, accepted)
    <2>1. \A i \in 1 .. Len(v) : v[i] \in 1 .. accepted
      BY <1>7, <1>8 DEF Ascending
    <2>2. ASSUME NEW i \in 1 .. Len(v), NEW j \in 1 .. Len(v), i < j PROVE v[i] < v[j]
      <3> DEFINE k == IF i <= m THEN i ELSE i + n
                 l == IF j <= m THEN j ELSE j + n
      <3>1. k \in 1 .. Len(w) /\ l \in 1 .. Len(w) /\ v[i] = w[k] /\ v[j] = w[l]
        BY <1>8
      <3>2. k < l
        BY <1>3, <2>2
      <3> HIDE DEF k, l
      <3>3. QED
        BY <1>7, <3>1, <3>2 DEF Ascending
    <2>3. QED
      BY <2>1, <2>2 DEF Ascending
  <1>10. v = Whole'
    BY DEF v, p, Whole
  <1>11. posted' \in Seq(Nat) /\ writeQueue' \in Seq(Nat)
    BY <1>2, <1>3 DEF p
  <1>12. QED
    BY <1>1, <1>9, <1>10, <1>11 DEF SendInv

LEMMA SendSerial ==
  ASSUME LifeInv, SendInv, SerialNext
  PROVE  SendInv'
  <1>1. /\ ListInv /\ mgr \in Managers /\ thread \in [Kinds -> ThreadStates] /\ "serial" \in Kinds
        /\ line \in Seq(Nat) /\ writeQueue \in Seq(Nat) /\ posted \in Seq(Nat) /\ accepted \in Nat
    BY OrderFacts DEF LifeInv, LifeTypes, ListInv, SendInv
  <1>2. CASE registerSerialBackend
    <2>1. registerBackend("serial") /\ UNCHANGED serial
      BY <1>2 DEF registerSerialBackend
    <2>2. LifeMove({}) /\ Only({})
      BY <1>1, <2>1, RegisterMove
    <2>3. Elsewhere("serial")
      BY <1>1, <2>2, MoveElsewhere
    <2>4. QED
      BY <2>1, <2>3, SendKept DEF serial
  <1>3. CASE serialStart
    <2>1. ToStart("serial") /\ UNCHANGED <<line, writeQueue, posted, accepted, writeFailed>>
      BY <1>1, <1>3, CallIsFresh DEF serialStart, KeepWriter
    <2>2. line = <<>> /\ writeQueue = <<>> /\ posted = <<>> /\ accepted = 0
      BY <2>1 DEF SendInv
    <2>3. Whole' = Whole /\ Len(Whole) = 0
      BY <2>1, <2>2 DEF Whole
    <2>4. QED
      BY <1>1, <2>1, <2>2, <2>3 DEF SendInv, Ascending
  <1>4. CASE armRead \/ serialReadFails
    BY <1>4, SameLifeElsewhere, SendKept DEF armRead, serialReadFails, KeepWriter
  <1>5. CASE Enqueue \/ writeNext
    BY <1>5, SameLifeElsewhere, SendMoves DEF Enqueue, writeNext
  <1>6. CASE WriteFails
    <2>1. /\ thread["serial"] = "live" /\ UNCHANGED life /\ UNCHANGED <<accepted, posted, line>>
          /\ writeQueue' = <<>> /\ writeFailed' = TRUE
      BY <1>6 DEF WriteFails
    <2>2. ~ToStart("serial")
      BY <1>1, <2>1 DEF LifeInv, FreshInv
    <2>3. ~ToStart("serial")'
      BY <2>1, <2>2, SameLifeElsewhere DEF Elsewhere
    <2>4. QED
      BY <2>1, <2>3, SendLoses
  <1>7. CASE serialStop
    <2>1. StopLatch("serial") /\ UNCHANGED <<line, writeQueue, posted, accepted, writeFailed, thread>>
      BY <1>7 DEF serialStop, serial, StopLatch
    <2>2. mgr'.op \in {"stop", "done"}
      BY <1>1, <2>1, StopAdvances, AdvanceFacts
    <2>3. ~ToStart("serial")'
      BY <2>2 DEF ToStart
    <2>4. QED
      BY <2>1, <2>3 DEF SendInv, Whole, Ascending
  <1>8. CASE serialRunIoLoop \/ serialRunsDry
    <2>1. /\ thread["serial"] = "live" /\ thread' = [thread EXCEPT !["serial"] = "ended"]
          /\ UNCHANGED <<line, writeQueue, posted, accepted, writeFailed, mgr, list>>
      BY <1>8 DEF serialRunIoLoop, serialRunsDry, LoopReturns, serial
    <2>2. ~ToStart("serial")'
      BY <1>1, <2>1 DEF LifeInv, FreshInv, ToStart
    <2>3. QED
      BY <2>1, <2>2 DEF SendInv, Whole, Ascending
  <1>9. CASE serialJoin
    <2>1. /\ Joined("serial") /\ thread' = [thread EXCEPT !["serial"] = "none"]
          /\ posted' = <<>> /\ writeQueue' = <<>> /\ UNCHANGED <<accepted, line, writeFailed>>
      BY <1>9 DEF serialJoin, Joined
    <2>2. mgr'.op \in {"stop", "done"}
      BY <1>1, <2>1, StopAdvances, AdvanceFacts
    <2>3. ~ToStart("serial")' /\ thread'["serial"] = "none"
      BY <1>1, <2>1, <2>2 DEF ToStart
    <2>4. QED
      BY <2>1, <2>3, SendLoses
  <1>10. QED
    BY <1>2, <1>3, <1>4, <1>5, <1>6, <1>7, <1>8, <1>9, SendTakes DEF SerialNext

\* What is on the serial line is what send() took, in its order and once each,
\* and nothing is missing before a write fails, for any number of buffers and
\* any interleaving of senders and the port's thread (SerialBackend::send).
THEOREM SerialInOrder == Spec => []SerialWritesInOrder
  <1>1. Init => SendInv
    <2> SUFFICES ASSUME Init PROVE SendInv
      OBVIOUS
    <2>1. line = <<>> /\ writeQueue = <<>> /\ posted = <<>> /\ accepted = 0 /\ thread["serial"] = "none"
      BY OrderFacts DEF Init, SerialInit, LifeInit
    <2>2. Whole = <<>>
      BY <2>1 DEF Whole
    <2>3. QED
      BY <2>1, <2>2 DEF SendInv, Ascending
  <1>2. LifeInv /\ SendInv /\ [Next]_all => SendInv'
    <2> SUFFICES ASSUME LifeInv, SendInv, [Next]_all PROVE SendInv'
      OBVIOUS
    <2>1. CASE Elsewhere("serial") /\ UNCHANGED serial
      BY <2>1, SendKept DEF serial
    <2>2. CASE Destroyed /\ UNCHANGED serial
      <3>1. mgr'.op = "gone" /\ thread'["serial"] = "none"
        BY <2>2, OrderFacts DEF Destroyed, LifeInv, ListInv, Managers
      <3>2. UNCHANGED <<line, writeQueue, posted, accepted>>
        BY <2>2 DEF serial
      <3>3. QED
        BY <3>1, <3>2 DEF SendInv, Whole, Ascending, ToStart
    <2>3. CASE UNCHANGED all
      BY <2>1, <2>3, SameLifeElsewhere DEF all
    <2>4. CASE (Main \/ MaterialRefused \/ stopAll) /\ UNCHANGED serial
      BY <2>1, <2>4, OthersElsewhere
    <2>5. CASE (TcpMain \/ TcpWorker \/ HttpNext \/ (\E cmd \in Commands : handleConnection(cmd)))
               /\ UNCHANGED serial
      BY <2>1, <2>5, OthersElsewhere
    <2>6. CASE (MqttNext \/ ModbusNext) /\ UNCHANGED serial
      BY <2>1, <2>6, OthersElsewhere
    <2>7. CASE OpcUaNext /\ UNCHANGED serial
      <3>1. CASE ServerLife \/ ClientLife
        BY <2>1, <2>7, <3>1, OthersElsewhere
      <3>2. CASE UNCHANGED life
        BY <2>1, <2>7, <3>2, SameLifeElsewhere
      <3>3. QED
        BY <2>7, <3>1, <3>2
        DEF OpcUaNext, ServerLife, ClientLife, SessionOpens, LoadServer, writeScalar, onCommand, onDataChange
    <2>8. QED
      BY <2>2, <2>3, <2>4, <2>5, <2>6, <2>7, SendSerial DEF Next
  <1>3. SendInv /\ FlagOK => SerialWritesInOrder
    <2> SUFFICES ASSUME SendInv, FlagOK PROVE SerialWritesInOrder
      OBVIOUS
    <2>1. line \in Seq(Nat) /\ writeQueue \in Seq(Nat) /\ posted \in Seq(Nat) /\ accepted \in Nat
          /\ Ascending(Whole, accepted)
      BY DEF SendInv
    <2>2. /\ Whole \in Seq(Nat) /\ Len(line) <= Len(Whole) /\ Len(line) \in Nat
          /\ \A i \in 1 .. Len(line) : Whole[i] = line[i]
      BY <2>1, WholeFacts DEF Whole
    <2>3. \A i, j \in DOMAIN line : i < j => line[i] < line[j]
      <3> TAKE i, j \in DOMAIN line
      <3>1. DOMAIN line = 1 .. Len(line)
        BY <2>1
      <3>2. i \in 1 .. Len(Whole) /\ j \in 1 .. Len(Whole) /\ Whole[i] = line[i] /\ Whole[j] = line[j]
        <4>1. i \in 1 .. Len(line) /\ j \in 1 .. Len(line)
          BY <3>1
        <4>2. Whole[i] = line[i] /\ Whole[j] = line[j]
          BY <2>2, <4>1
        <4>3. Len(Whole) \in Nat
          BY <2>2
        <4>4. i \in 1 .. Len(Whole) /\ j \in 1 .. Len(Whole)
          BY <2>2, <4>1, <4>3
        <4>5. QED
          BY <4>2, <4>4
      <3>3. i < j => Whole[i] < Whole[j]
        BY <2>1, <3>2 DEF Ascending
      <3>4. QED
        BY <3>2, <3>3
    <2>4. ASSUME thread["serial"] # "none", ~writeFailed
          PROVE  Whole = [i \in 1 .. accepted |-> i]
      <3>1. writeFailed = FALSE
        BY <2>4 DEF FlagOK
      <3>2. Len(Whole) = accepted /\ \A i \in 1 .. accepted : Whole[i] = i
        BY <2>4, <3>1 DEF SendInv
      <3>3. QED
        BY <2>1, <2>2, <3>2
    <2>5. QED
      BY <2>3, <2>4 DEF SerialWritesInOrder, Whole
  <1>4. Init => FlagOK
    BY DEF Init, SerialInit, FlagOK
  <1>5. FlagOK /\ [Next]_all => FlagOK'
    <2> SUFFICES ASSUME FlagOK, [Next]_all PROVE FlagOK'
      OBVIOUS
    <2>1. CASE SerialNext
      BY <2>1 DEF SerialNext, registerSerialBackend, serialStart, armRead, serialReadFails, send, Enqueue,
         writeNext, WriteFails, serialStop, serialRunIoLoop, serialRunsDry, serialJoin, KeepWriter, serial,
         FlagOK
    <2>2. CASE UNCHANGED serial
      BY <2>2 DEF serial, FlagOK
    <2>3. QED
      BY <2>1, <2>2 DEF Next, all
  <1>6. QED
    BY <1>1, <1>2, <1>3, <1>4, <1>5, LifeInvariant, PTL DEF Spec
-----------------------------------------------------------------------------
(* The parsers are defined by recursion on what is left to read.  The      *)
(* least-number principle gives what induction would: that they are        *)
(* defined, and what they do with a stream in pieces.                      *)

LEMMA LeastNat ==
  ASSUME NEW T \in SUBSET Nat, T # {}
  PROVE  \E n \in T : \A m \in T : n <= m
  <1>1. IsWellFoundedOn(OpToRel(<, Nat), Nat)
    BY NatLessThanWellFounded
  <1>2. PICK x \in T : \A y \in T : ~(<<y, x>> \in OpToRel(<, Nat))
    BY <1>1, WFMin
  <1>3. \A y \in T : ~(y < x)
    BY <1>2 DEF OpToRel
  <1>4. QED
    BY <1>3

\* One step of a recursion over S: done at once, or from the result at next.
Follows(f, w, stops, base, next, then) ==
  f[w] = IF w \in stops THEN base[w] ELSE then[w][f[next[w]]]

\* f follows the recursion for what is no larger than n.
Upto(f, n, S, X, size, stops, base, next, then) ==
  /\ f \in [S -> X]
  /\ \A w \in S : size[w] <= n => Follows(f, w, stops, base, next, then)

\* A recursion whose argument shrinks defines a function.
LEMMA Recursion ==
  ASSUME NEW S, NEW X, NEW size \in [S -> Nat], NEW stops \in SUBSET S, NEW base \in [S -> X],
         NEW next \in [S -> S], NEW then \in [S -> [X -> X]],
         \A w \in S : w \notin stops => size[next[w]] < size[w]
  PROVE  \E f \in [S -> X] : \A w \in S : Follows(f, w, stops, base, next, then)
  <1> DEFINE Good(f, n) == Upto(f, n, S, X, size, stops, base, next, then)
  <1>g. ASSUME NEW f, NEW n, Good(f, n)
        PROVE  /\ f \in [S -> X]
               /\ \A w \in S : size[w] <= n =>
                    f[w] = IF w \in stops THEN base[w] ELSE then[w][f[next[w]]]
    BY <1>g DEF Upto, Follows
  <1>s. \A w \in S : size[w] \in Nat
    OBVIOUS
  \* Two that follow it agree where both do.
  <1>1. ASSUME NEW n \in Nat, NEW m \in Nat, NEW f, NEW g, Good(f, n), Good(g, m), NEW v \in S,
               size[v] <= n, size[v] <= m
        PROVE  f[v] = g[v]
    <2> DEFINE T == {k \in Nat : \E w \in S : size[w] = k /\ k <= n /\ k <= m /\ f[w] # g[w]}
    <2>1. SUFFICES ASSUME T # {} PROVE FALSE
      BY <1>1, <1>s
    <2>2. PICK k \in T : \A j \in T : k <= j
      BY <2>1, LeastNat
    <2>3. PICK w \in S : size[w] = k /\ k <= n /\ k <= m /\ f[w] # g[w] /\ k \in Nat
      BY <2>2
    <2>4. CASE w \in stops
      BY <1>1, <1>g, <2>3, <2>4
    <2>5. CASE w \notin stops
      <3>1. next[w] \in S /\ size[next[w]] \in Nat /\ size[next[w]] < k
        BY <1>s, <2>3, <2>5
      <3>2. size[next[w]] <= n /\ size[next[w]] <= m /\ ~(k <= size[next[w]])
        BY <2>3, <3>1
      <3>3. size[next[w]] \notin T
        BY <2>2, <3>2
      <3>4. f[next[w]] = g[next[w]]
        BY <3>1, <3>2, <3>3
      <3>5. QED
        BY <1>1, <1>g, <2>3, <2>5, <3>4
    <2>6. QED
      BY <2>4, <2>5
  \* There is one for every size.
  <1>2. ASSUME NEW n \in Nat PROVE \E f : Good(f, n)
    <2> DEFINE T == {k \in Nat : \A f : ~Good(f, k)}
    <2>1. SUFFICES ASSUME T # {} PROVE FALSE
      OBVIOUS
    <2>2. PICK k \in T : \A j \in T : k <= j
      BY <2>1, LeastNat
    <2> DEFINE Extended(f) ==
                 [w \in S |-> IF size[w] < k THEN f[w]
                              ELSE IF w \in stops THEN base[w] ELSE then[w][f[next[w]]]]
    <2>3. ASSUME NEW f \in [S -> X],
                 \A w \in S : size[w] < k => Follows(f, w, stops, base, next, then)
          PROVE  FALSE
      <3> DEFINE h == Extended(f)
      <3>1. h \in [S -> X]
        OBVIOUS
      <3>2. \A w \in S : size[w] < k => h[w] = f[w]
        OBVIOUS
      <3>3. \A w \in S : ~(size[w] < k) =>
              h[w] = IF w \in stops THEN base[w] ELSE then[w][f[next[w]]]
        OBVIOUS
      <3> HIDE DEF h
      <3>4. ASSUME NEW w \in S, size[w] <= k PROVE Follows(h, w, stops, base, next, then)
        <4>1. h[w] = IF w \in stops THEN base[w] ELSE then[w][f[next[w]]]
          BY <2>3, <3>2, <3>3 DEF Follows
        <4>2. ASSUME w \notin stops PROVE h[next[w]] = f[next[w]]
          <5>1. next[w] \in S /\ size[next[w]] < size[w] /\ size[next[w]] \in Nat /\ size[w] \in Nat
                /\ k \in Nat
            BY <1>s, <4>2, <2>2
          <5>2. size[next[w]] < k
            BY <3>4, <5>1
          <5>3. QED
            BY <3>2, <5>1, <5>2
        <4>3. QED
          BY <4>1, <4>2 DEF Follows
      <3>5. Good(h, k)
        BY <3>1, <3>4 DEF Upto
      <3>6. QED
        BY <2>2, <3>5
    <2>4. CASE k = 0
      <3>1. base \in [S -> X] /\ \A w \in S : ~(size[w] < k)
        BY <1>s, <2>4
      <3>2. QED
        BY <2>3, <3>1
    <2>5. CASE k # 0
      <3>1. k - 1 \in Nat /\ ~(k <= k - 1)
        BY <2>2, <2>5
      <3>2. k - 1 \notin T
        BY <2>2, <3>1
      <3>3. PICK f : Good(f, k - 1)
        BY <3>1, <3>2
      <3>4. f \in [S -> X] /\ \A w \in S : size[w] < k => Follows(f, w, stops, base, next, then)
        <4>1. \A w \in S : size[w] < k => size[w] <= k - 1
          BY <1>s, <2>2
        <4>2. QED
          BY <3>3, <4>1 DEF Upto
      <3>5. QED
        BY <2>3, <3>4
    <2>6. QED
      BY <2>4, <2>5
  <1> DEFINE F(n) == CHOOSE f : Good(f, n)
             fcn == [w \in S |-> F(size[w])[w]]
  <1>3. \A n \in Nat : Good(F(n), n)
    BY <1>2
  <1> HIDE DEF F, Good
  <1>4. ASSUME NEW w \in S
        PROVE  /\ F(size[w])[w] \in X
               /\ F(size[w])[w] = IF w \in stops THEN base[w] ELSE then[w][F(size[w])[next[w]]]
    <2>1. Good(F(size[w]), size[w]) /\ size[w] <= size[w]
      BY <1>3, <1>s
    <2>2. QED
      BY <1>g, <2>1
  <1>5. fcn \in [S -> X] /\ \A w \in S : fcn[w] = F(size[w])[w]
    BY <1>4
  <1> HIDE DEF fcn
  <1>6. ASSUME NEW w \in S PROVE Follows(fcn, w, stops, base, next, then)
    <2>1. CASE w \in stops
      BY <1>4, <1>5, <2>1 DEF Follows
    <2>2. CASE w \notin stops
      <3> DEFINE v == next[w]
      <3>1. v \in S /\ size[v] < size[w] /\ size[v] \in Nat /\ size[w] \in Nat
        BY <1>s, <2>2
      <3> HIDE DEF v
      <3>2. size[v] <= size[v] /\ size[v] <= size[w]
        BY <3>1
      <3>3. F(size[v])[v] = F(size[w])[v]
        BY <1>1, <1>3, <3>1, <3>2
      <3>4. QED
        BY <1>4, <1>5, <2>2, <3>1, <3>3 DEF Follows, v
    <2>3. QED
      BY <2>1, <2>2
  <1>7. QED
    BY <1>5, <1>6

-----------------------------------------------------------------------------
(* The flash frame parser.                                                 *)

FrameResults == [buffer : Seq(Bytes), frames : Seq(Seq(Bytes)), text : Seq(Bytes)]

Unread(work) == [buffer |-> work, frames |-> <<>>, text |-> <<>>]
TotalOf(work) == HeaderBytes + LengthOf(work[HeaderBytes]) + TrailerBytes

IsText(work)   == work # <<>> /\ Head(work) # "S"
TooShort(work) == \/ work = <<>>
                  \/ Head(work) = "S" /\ Len(work) < HeaderBytes
                  \/ /\ Head(work) = "S" /\ ~(Len(work) < HeaderBytes)
                     /\ ~(LengthOf(work[HeaderBytes]) > MaxPayload) /\ Len(work) < TotalOf(work)
IsFrame(work)  == /\ work # <<>> /\ Head(work) = "S" /\ ~(Len(work) < HeaderBytes)
                  /\ ~(LengthOf(work[HeaderBytes]) > MaxPayload) /\ ~(Len(work) < TotalOf(work))
                  /\ ChecksumOk(work[TotalOf(work)])

\* What is read in one step: a frame, or a byte.
FrameRest(work) == IF IsFrame(work) THEN Drop(work, TotalOf(work)) ELSE Tail(work)
FrameMore(work, r) ==
  IF IsText(work) THEN [buffer |-> r.buffer, frames |-> r.frames, text |-> <<Head(work)>> \o r.text]
  ELSE IF IsFrame(work)
       THEN [buffer |-> r.buffer, frames |-> <<SubSeq(work, 1, TotalOf(work))>> \o r.frames,
             text |-> r.text]
  ELSE r

LEMMA LengthIs == \A byte \in Bytes : LengthOf(byte) \in Nat
  <1>1. MaxPayload + 1 \in Nat
    BY SerialAssumption
  <1>2. QED
    BY <1>1 DEF LengthOf, Bytes

LEMMA SerialSizes ==
  /\ HeaderBytes \in Nat /\ HeaderBytes >= 2 /\ TrailerBytes \in Nat /\ TrailerBytes >= 1
  BY SerialAssumption

LEMMA TotalIs ==
  ASSUME NEW work \in Seq(Bytes), ~(Len(work) < HeaderBytes)
  PROVE  TotalOf(work) \in Nat /\ TotalOf(work) >= HeaderBytes + 1
  <1>1. Len(work) \in Nat
    BY LenProperties
  <1>2. HeaderBytes \in 1 .. Len(work)
    BY <1>1, SerialSizes
  <1>3. work[HeaderBytes] \in Bytes
    BY <1>2, ElementOfSeq
  <1>4. LengthOf(work[HeaderBytes]) \in Nat
    BY <1>3, LengthIs
  <1>5. QED
    BY <1>4, SerialSizes DEF TotalOf

\* The rest of a sequence.
LEMMA DropIs ==
  ASSUME NEW X, NEW s \in Seq(X), NEW n \in 0 .. Len(s)
  PROVE  /\ Drop(s, n) \in Seq(X) /\ Len(Drop(s, n)) = Len(s) - n
         /\ \A k \in 1 .. Len(s) - n : Drop(s, n)[k] = s[n + k]
  <1> DEFINE d == SubSeq(s, n + 1, Len(s))
  <1>1. Len(s) \in Nat
    BY LenProperties
  <1>2. n + 1 \in 1 .. Len(s) + 1 /\ Len(s) \in (n + 1) - 1 .. Len(s)
    BY <1>1
  <1>3. d \in Seq(X) /\ Len(d) = IF n + 1 <= Len(s) THEN Len(s) - (n + 1) + 1 ELSE 0
    BY <1>1, <1>2, SubSeqProperties
  <1>4. \A k \in 1 .. Len(s) - (n + 1) + 1 : d[k] = s[(n + 1) + k - 1]
    BY <1>1, <1>2, SubSeqProperties
  <1> HIDE DEF d
  <1>5. d \in Seq(X) /\ Len(d) = Len(s) - n
    BY <1>1, <1>3
  <1>6. \A k \in 1 .. Len(s) - n : k \in 1 .. Len(s) - (n + 1) + 1 /\ (n + 1) + k - 1 = n + k
    BY <1>1
  <1>7. \A k \in 1 .. Len(s) - n : d[k] = s[n + k]
    BY <1>4, <1>6
  <1>8. QED
    BY <1>5, <1>7 DEF d, Drop

LEMMA FrameRestIs ==
  ASSUME NEW work \in Seq(Bytes), ~TooShort(work)
  PROVE  /\ work # <<>> /\ Head(work) \in Bytes /\ Tail(work) \in Seq(Bytes)
         /\ FrameRest(work) \in Seq(Bytes) /\ Len(FrameRest(work)) < Len(work)
         /\ Len(FrameRest(work)) \in Nat /\ Len(work) \in Nat
         /\ SubSeq(work, 1, TotalOf(work)) \in Seq(Bytes)
            \/ ~IsFrame(work)
  <1>1. work # <<>>
    BY DEF TooShort
  <1>2. Len(work) \in Nat
    BY LenProperties
  <1>3. Head(work) \in Bytes /\ Tail(work) \in Seq(Bytes) /\ Len(Tail(work)) = Len(work) - 1
    BY <1>1, HeadTailProperties
  <1>4. CASE IsFrame(work)
    <2>1. ~(Len(work) < HeaderBytes) /\ ~(Len(work) < TotalOf(work))
      BY <1>4 DEF IsFrame
    <2>2. TotalOf(work) \in Nat /\ TotalOf(work) >= HeaderBytes + 1
      BY <2>1, TotalIs
    <2>3. TotalOf(work) \in 0 .. Len(work) /\ TotalOf(work) > 0
      BY <1>2, <2>1, <2>2, SerialSizes
    <2>4. Drop(work, TotalOf(work)) \in Seq(Bytes)
          /\ Len(Drop(work, TotalOf(work))) = Len(work) - TotalOf(work)
      BY <2>3, DropIs
    <2>5. SubSeq(work, 1, TotalOf(work)) \in Seq(Bytes)
      BY <1>2, <2>3, SubSeqProperties
    <2>6. FrameRest(work) = Drop(work, TotalOf(work))
      BY <1>4 DEF FrameRest
    <2>7. QED
      BY <1>1, <1>2, <1>3, <2>3, <2>4, <2>5, <2>6
  <1>5. CASE ~IsFrame(work)
    <2>1. FrameRest(work) = Tail(work)
      BY <1>5 DEF FrameRest
    <2>2. QED
      BY <1>1, <1>2, <1>3, <1>5, <2>1
  <1>6. QED
    BY <1>4, <1>5

LEMMA FrameMoreIs ==
  ASSUME NEW work \in Seq(Bytes), ~TooShort(work), NEW r \in FrameResults
  PROVE  FrameMore(work, r) \in FrameResults
  <1>1. r.buffer \in Seq(Bytes) /\ r.frames \in Seq(Seq(Bytes)) /\ r.text \in Seq(Bytes)
    BY DEF FrameResults
  <1>2. Head(work) \in Bytes
    BY FrameRestIs
  <1>3. <<Head(work)>> \o r.text \in Seq(Bytes)
    BY <1>1, <1>2
  <1>4. IsFrame(work) => <<SubSeq(work, 1, TotalOf(work))>> \o r.frames \in Seq(Seq(Bytes))
    <2>1. IsFrame(work) => SubSeq(work, 1, TotalOf(work)) \in Seq(Bytes)
      BY FrameRestIs
    <2>2. QED
      BY <1>1, <2>1
  <1>5. QED
    BY <1>1, <1>3, <1>4 DEF FrameMore, FrameResults

LEMMA FrameEdits ==
  ASSUME NEW r \in FrameResults, NEW q
  PROVE  /\ [r EXCEPT !.text = q \o @] = [buffer |-> r.buffer, frames |-> r.frames, text |-> q \o r.text]
         /\ [r EXCEPT !.frames = q \o @] = [buffer |-> r.buffer, frames |-> q \o r.frames, text |-> r.text]
  <1>1. r = [buffer |-> r.buffer, frames |-> r.frames, text |-> r.text]
    BY DEF FrameResults
  <1> DEFINE a == q \o r.text
             b == q \o r.frames
  <1> HIDE DEF a, b
  <1>2. [r EXCEPT !.text = a] = [buffer |-> r.buffer, frames |-> r.frames, text |-> a]
    BY <1>1
  <1>3. [r EXCEPT !.frames = b] = [buffer |-> r.buffer, frames |-> b, text |-> r.text]
    BY <1>1
  <1>4. [r EXCEPT !.text = q \o @] = [r EXCEPT !.text = a]
    BY DEF a
  <1>5. [r EXCEPT !.frames = q \o @] = [r EXCEPT !.frames = b]
    BY DEF b
  <1>6. QED
    BY <1>2, <1>3, <1>4, <1>5 DEF a, b

\* The parser is defined, and reads one frame or one byte at a time.
LEMMA FramesDefined ==
  /\ consumeFrames \in [Seq(Bytes) -> FrameResults]
  /\ \A work \in Seq(Bytes) :
       consumeFrames[work] = IF TooShort(work) THEN Unread(work)
                             ELSE FrameMore(work, consumeFrames[FrameRest(work)])
  <1> DEFINE S == Seq(Bytes)
             X == FrameResults
             size == [w \in S |-> Len(w)]
             stops == {w \in S : TooShort(w)}
             base == [w \in S |-> Unread(w)]
             next == [w \in S |-> IF TooShort(w) THEN w ELSE FrameRest(w)]
             then == [w \in S |-> [r \in X |-> IF TooShort(w) THEN r ELSE FrameMore(w, r)]]
             Body(f, work) ==
               LET Incomplete == [buffer |-> work, frames |-> <<>>, text |-> <<>>]
                   len        == LengthOf(work[HeaderBytes])
                   total      == HeaderBytes + len + TrailerBytes
               IN  IF work = <<>> THEN Incomplete
                   ELSE IF Head(work) # "S"
                        THEN [f[Tail(work)] EXCEPT !.text = <<Head(work)>> \o @]
                   ELSE IF Len(work) < HeaderBytes THEN Incomplete
                   ELSE IF len > MaxPayload THEN f[Tail(work)]
                   ELSE IF Len(work) < total THEN Incomplete
                   ELSE IF ~ChecksumOk(work[total]) THEN f[Tail(work)]
                   ELSE [f[Drop(work, total)] EXCEPT !.frames = <<SubSeq(work, 1, total)>> \o @]
  <1>1. size \in [S -> Nat]
    BY LenProperties
  <1>2. base \in [S -> X]
    <2>1. \A w \in S : Unread(w) \in X
      BY DEF Unread, FrameResults
    <2>2. QED
      BY <2>1
  <1>3. next \in [S -> S] /\ \A w \in S : w \notin stops => size[next[w]] < size[w]
    BY FrameRestIs
  <1>4. then \in [S -> [X -> X]]
    BY FrameMoreIs
  <1>5. \E f \in [S -> X] : \A w \in S : Follows(f, w, stops, base, next, then)
    <2> HIDE DEF S, X, size, stops, base, next, then
    <2>1. stops \in SUBSET S
      BY DEF stops
    <2>2. QED
      BY <1>1, <1>2, <1>3, <1>4, <2>1, Recursion
  <1>6. ASSUME NEW f, NEW w \in S, TooShort(w) \/ f[FrameRest(w)] \in X
        PROVE  Body(f, w) = IF TooShort(w) THEN Unread(w) ELSE FrameMore(w, f[FrameRest(w)])
    <2> DEFINE More(v, q) == [f[v] EXCEPT !.text = q \o @]
               Framed(v, q) == [f[v] EXCEPT !.frames = q \o @]
    <2>1. ASSUME NEW v, f[v] \in X, NEW q
          PROVE  /\ More(v, q) = [buffer |-> f[v].buffer, frames |-> f[v].frames, text |-> q \o f[v].text]
                 /\ Framed(v, q) = [buffer |-> f[v].buffer, frames |-> q \o f[v].frames, text |-> f[v].text]
      <3> DEFINE r == f[v]
      <3>1. r \in FrameResults
        BY <2>1
      <3> HIDE DEF r
      <3>2. /\ [r EXCEPT !.text = q \o @] = [buffer |-> r.buffer, frames |-> r.frames, text |-> q \o r.text]
            /\ [r EXCEPT !.frames = q \o @] = [buffer |-> r.buffer, frames |-> q \o r.frames, text |-> r.text]
        BY <3>1, FrameEdits
      <3>3. QED
        BY <3>2 DEF r
    <2>4. CASE TooShort(w)
      BY <2>4 DEF TooShort, Unread, TotalOf
    <2>5. CASE ~TooShort(w)
      <3>1. f[FrameRest(w)] \in X /\ w # <<>>
        BY <1>6, <2>5, FrameRestIs
      <3>2. CASE IsText(w)
        <4>1. FrameRest(w) = Tail(w)
          BY <3>2 DEF FrameRest, IsText, IsFrame
        <4>2. Body(f, w) = More(Tail(w), <<Head(w)>>)
          BY <3>2 DEF IsText
        <4>3. QED
          BY <2>1, <2>5, <3>1, <3>2, <4>1, <4>2 DEF FrameMore
      <3>3. CASE IsFrame(w)
        <4>1. FrameRest(w) = Drop(w, TotalOf(w)) /\ ~IsText(w)
          BY <3>3 DEF FrameRest, IsFrame, IsText
        <4>2. Body(f, w) = Framed(Drop(w, TotalOf(w)), <<SubSeq(w, 1, TotalOf(w))>>)
          BY <3>3 DEF IsFrame, TotalOf
        <4>3. QED
          BY <2>1, <2>5, <3>1, <3>3, <4>1, <4>2 DEF FrameMore
      <3>4. CASE ~IsText(w) /\ ~IsFrame(w)
        <4>1. FrameRest(w) = Tail(w)
          BY <3>4 DEF FrameRest
        <4>2. Body(f, w) = f[Tail(w)]
          BY <2>5, <3>4 DEF IsFrame, IsText, TooShort, TotalOf
        <4>3. QED
          BY <2>5, <3>4, <4>1, <4>2 DEF FrameMore
      <3>5. QED
        BY <3>2, <3>3, <3>4
    <2>6. QED
      BY <2>4, <2>5
  <1>7. \E f : f \in [S -> X] /\ f = [w \in S |-> Body(f, w)]
    <2>1. PICK f \in [S -> X] : \A w \in S : Follows(f, w, stops, base, next, then)
      BY <1>5
    <2>2. ASSUME NEW w \in S PROVE f[w] = Body(f, w)
      <3>1. f[w] = IF w \in stops THEN base[w] ELSE then[w][f[next[w]]]
        BY <2>1 DEF Follows
      <3>2. CASE TooShort(w)
        <4>1. f[w] = Unread(w)
          BY <3>1, <3>2
        <4>2. QED
          BY <1>6, <3>2, <4>1
      <3>3. CASE ~TooShort(w)
        <4>1. FrameRest(w) \in S
          BY <3>3, FrameRestIs
        <4>2. f[FrameRest(w)] \in X
          BY <4>1
        <4>3. f[w] = FrameMore(w, f[FrameRest(w)])
          BY <3>1, <3>3, <4>1, <4>2
        <4>4. Body(f, w) = FrameMore(w, f[FrameRest(w)])
          <5> HIDE DEF Body, S, X
          <5>1. QED
            BY <1>6, <3>3, <4>2
        <4>5. QED
          BY <4>3, <4>4
      <3>4. QED
        BY <3>2, <3>3
    <2>3. f = [w \in S |-> Body(f, w)]
      <3> HIDE DEF Body, S, X
      <3>1. QED
        BY <2>2
    <2>4. QED
      BY <2>3
  <1>8. consumeFrames = [w \in S |-> Body(consumeFrames, w)]
    BY <1>7 DEF consumeFrames
  <1>b. \A w \in S : consumeFrames[w] = Body(consumeFrames, w)
    <2> HIDE DEF Body, S
    <2>1. QED
      BY <1>8
  <1>9. \A w \in S : consumeFrames[w] \in X
    <2> DEFINE T == {k \in Nat : \E w \in S : Len(w) = k /\ consumeFrames[w] \notin X}
    <2>1. SUFFICES ASSUME T # {} PROVE FALSE
      BY LenProperties
    <2>2. PICK k \in T : \A j \in T : k <= j
      BY <2>1, LeastNat
    <2>3. PICK w \in S : Len(w) = k /\ consumeFrames[w] \notin X
      BY <2>2
    <2> HIDE DEF Body
    <2>4. CASE TooShort(w)
      <3>1. consumeFrames[w] = Unread(w)
        BY <1>6, <1>b, <2>4
      <3>2. Unread(w) \in X
        BY DEF Unread, FrameResults
      <3>3. QED
        BY <2>3, <3>1, <3>2
    <2>5. CASE ~TooShort(w)
      <3>1. FrameRest(w) \in S /\ Len(FrameRest(w)) < k /\ Len(FrameRest(w)) \in Nat /\ k \in Nat
        BY <2>3, <2>5, FrameRestIs
      <3>2. Len(FrameRest(w)) \notin T
        BY <2>2, <3>1
      <3>3. consumeFrames[FrameRest(w)] \in X
        BY <3>1, <3>2
      <3>4. consumeFrames[w] = FrameMore(w, consumeFrames[FrameRest(w)])
        BY <1>6, <1>b, <2>5, <3>3
      <3>5. FrameMore(w, consumeFrames[FrameRest(w)]) \in X
        BY <2>5, <3>3, FrameMoreIs
      <3>6. QED
        BY <2>3, <3>4, <3>5
    <2>6. QED
      BY <2>4, <2>5
  <1> HIDE DEF Body
  <1>c. consumeFrames = [w \in S |-> consumeFrames[w]]
    BY <1>8, <1>b
  <1>d. consumeFrames \in [S -> X]
    BY <1>9, <1>c
  <1>10. ASSUME NEW w \in S
         PROVE  consumeFrames[w] = IF TooShort(w) THEN Unread(w)
                                   ELSE FrameMore(w, consumeFrames[FrameRest(w)])
    <2>1. TooShort(w) \/ consumeFrames[FrameRest(w)] \in X
      BY <1>9, FrameRestIs
    <2>2. QED
      BY <1>6, <1>b, <2>1
  <1>11. QED
    BY <1>d, <1>10

\* The front of a sequence does not see what comes after it.
LEMMA FrontOf ==
  ASSUME NEW X, NEW a \in Seq(X), NEW b \in Seq(X), NEW n \in 0 .. Len(a)
  PROVE  /\ a \o b \in Seq(X) /\ Len(a \o b) = Len(a) + Len(b) /\ Len(a) \in Nat /\ Len(b) \in Nat
         /\ \A k \in 1 .. Len(a) : (a \o b)[k] = a[k]
         /\ Drop(a \o b, n) = Drop(a, n) \o b
         /\ SubSeq(a \o b, 1, n) = SubSeq(a, 1, n)
  <1> DEFINE c == a \o b
  <1>1. Len(a) \in Nat /\ Len(b) \in Nat
    BY LenProperties
  <1>2. c \in Seq(X) /\ Len(c) = Len(a) + Len(b)
    BY ConcatProperties
  <1>3. \A k \in 1 .. Len(a) + Len(b) : c[k] = IF k <= Len(a) THEN a[k] ELSE b[k - Len(a)]
    BY ConcatProperties
  <1> HIDE DEF c
  <1>4. \A k \in 1 .. Len(a) : c[k] = a[k]
    BY <1>1, <1>3
  <1>5. n \in 0 .. Len(c)
    BY <1>1, <1>2
  <1>6. Drop(c, n) = Drop(a, n) \o b
    <2> DEFINE d == Drop(c, n)
               e == Drop(a, n)
               f == e \o b
    <2>1. d \in Seq(X) /\ Len(d) = Len(c) - n /\ \A k \in 1 .. Len(c) - n : d[k] = c[n + k]
      BY <1>2, <1>5, DropIs
    <2>2. e \in Seq(X) /\ Len(e) = Len(a) - n /\ \A k \in 1 .. Len(a) - n : e[k] = a[n + k]
      BY DropIs
    <2> HIDE DEF d, e
    <2>3. f \in Seq(X) /\ Len(f) = Len(e) + Len(b)
      BY <2>2, ConcatProperties
    <2>4. \A k \in 1 .. Len(e) + Len(b) : f[k] = IF k <= Len(e) THEN e[k] ELSE b[k - Len(e)]
      BY <2>2, ConcatProperties
    <2> HIDE DEF f
    <2>5. Len(d) = Len(f)
      BY <1>1, <1>2, <2>1, <2>2, <2>3
    <2>6. ASSUME NEW k \in 1 .. Len(d) PROVE d[k] = f[k]
      <3>1. k \in 1 .. Len(c) - n /\ n + k \in 1 .. Len(a) + Len(b) /\ k \in 1 .. Len(e) + Len(b)
        BY <1>1, <1>2, <2>1, <2>2
      <3>2. d[k] = IF n + k <= Len(a) THEN a[n + k] ELSE b[(n + k) - Len(a)]
        BY <1>3, <2>1, <3>1
      <3>3. f[k] = IF k <= Len(e) THEN e[k] ELSE b[k - Len(e)]
        BY <2>4, <3>1
      <3>4. (k <= Len(e) <=> n + k <= Len(a)) /\ k - Len(e) = (n + k) - Len(a)
        BY <1>1, <2>2
      <3>5. k <= Len(e) => e[k] = a[n + k]
        BY <1>1, <2>2
      <3>6. QED
        BY <3>2, <3>3, <3>4, <3>5
    <2>7. d = f
      BY <2>1, <2>3, <2>5, <2>6, SeqEqual
    <2>8. QED
      BY <2>7 DEF d, e, f
  <1>7. SubSeq(c, 1, n) = SubSeq(a, 1, n)
    <2> DEFINE d == SubSeq(c, 1, n)
               e == SubSeq(a, 1, n)
    <2>1. 1 \in 1 .. Len(c) + 1 /\ n \in 1 - 1 .. Len(c) /\ 1 \in 1 .. Len(a) + 1 /\ n \in 1 - 1 .. Len(a)
      BY <1>1, <1>2
    <2>2. d \in Seq(X) /\ Len(d) = (IF 1 <= n THEN n - 1 + 1 ELSE 0)
      BY <1>2, <2>1, SubSeqProperties
    <2>3. \A k \in 1 .. n - 1 + 1 : d[k] = c[1 + k - 1]
      BY <1>2, <2>1, SubSeqProperties
    <2>4. e \in Seq(X) /\ Len(e) = (IF 1 <= n THEN n - 1 + 1 ELSE 0)
      BY <2>1, SubSeqProperties
    <2>5. \A k \in 1 .. n - 1 + 1 : e[k] = a[1 + k - 1]
      BY <2>1, SubSeqProperties
    <2> HIDE DEF d, e
    <2>6. Len(d) = n /\ Len(e) = n
      BY <1>1, <2>2, <2>4
    <2>7. ASSUME NEW k \in 1 .. Len(d) PROVE d[k] = e[k]
      <3>1. k \in 1 .. n - 1 + 1 /\ 1 + k - 1 \in 1 .. Len(a)
        BY <1>1, <2>6
      <3>2. QED
        BY <1>4, <2>3, <2>5, <3>1
    <2>8. d = e
      BY <2>2, <2>4, <2>6, <2>7, SeqEqual
    <2>9. QED
      BY <2>8 DEF d, e
  <1>8. QED
    BY <1>1, <1>2, <1>4, <1>6, <1>7 DEF c

LEMMA TailDrops ==
  ASSUME NEW X, NEW a \in Seq(X), a # <<>>
  PROVE  Tail(a) = Drop(a, 1) /\ Head(a) = a[1] /\ 1 \in 1 .. Len(a) /\ 1 \in 0 .. Len(a)
  <1>1. Len(a) \in Nat /\ Len(a) # 0
    BY LenProperties, EmptySeq
  <1>2. Tail(a) = SubSeq(a, 2, Len(a)) /\ Head(a) = a[1]
    BY HeadTailProperties
  <1>3. QED
    BY <1>1, <1>2 DEF Drop

\* A step decided by the front is the same whatever comes after it.
LEMMA FrontDecides ==
  ASSUME NEW a \in Seq(Bytes), NEW b \in Seq(Bytes), ~TooShort(a)
  PROVE  /\ ~TooShort(a \o b) /\ FrameRest(a \o b) = FrameRest(a) \o b
         /\ \A r : FrameMore(a \o b, r) = FrameMore(a, r)
  <1> DEFINE c == a \o b
  <1>1. a # <<>>
    BY DEF TooShort
  <1>2. Tail(a) = Drop(a, 1) /\ Head(a) = a[1] /\ 1 \in 1 .. Len(a) /\ 1 \in 0 .. Len(a)
    BY <1>1, TailDrops
  <1>3. /\ c \in Seq(Bytes) /\ Len(c) = Len(a) + Len(b) /\ Len(a) \in Nat /\ Len(b) \in Nat
        /\ \A k \in 1 .. Len(a) : c[k] = a[k]
    BY <1>2, FrontOf
  <1>4. Drop(c, 1) = Drop(a, 1) \o b
    BY <1>2, FrontOf
  <1>d. \A n \in 0 .. Len(a) : Drop(c, n) = Drop(a, n) \o b
    BY FrontOf
  <1>s. \A n \in 0 .. Len(a) : SubSeq(c, 1, n) = SubSeq(a, 1, n)
    BY FrontOf
  <1> HIDE DEF c
  <1>5. c # <<>>
    <2>1. Len(c) # 0
      BY <1>2, <1>3
    <2>2. QED
      BY <1>3, <2>1, EmptySeq
  <1>6. Tail(c) = Tail(a) \o b /\ Head(c) = Head(a)
    BY <1>2, <1>3, <1>4, <1>5, TailDrops
  <1>7. CASE IsText(a)
    <2>1. IsText(c) /\ ~TooShort(c) /\ ~IsFrame(c) /\ ~IsFrame(a)
      BY <1>5, <1>6, <1>7 DEF IsText, IsFrame, TooShort
    <2>2. QED
      BY <1>6, <1>7, <2>1 DEF FrameRest, FrameMore, c
  <1>8. CASE ~IsText(a)
    <2>1. Head(a) = "S" /\ ~(Len(a) < HeaderBytes)
      BY <1>1, <1>8 DEF IsText, TooShort
    <2>2. HeaderBytes \in 1 .. Len(a) /\ ~(Len(c) < HeaderBytes)
      BY <1>3, <2>1, SerialSizes
    <2>3. c[HeaderBytes] = a[HeaderBytes] /\ TotalOf(c) = TotalOf(a)
      BY <1>3, <2>2 DEF TotalOf
    <2>4. TotalOf(a) \in Nat /\ TotalOf(a) >= HeaderBytes + 1
      BY <2>1, TotalIs
    <2>5. CASE LengthOf(a[HeaderBytes]) > MaxPayload
      <3>1. ~TooShort(c) /\ ~IsFrame(c) /\ ~IsFrame(a) /\ ~IsText(c)
        BY <1>5, <1>6, <2>1, <2>2, <2>3, <2>5 DEF IsText, IsFrame, TooShort
      <3>2. QED
        BY <1>6, <1>8, <3>1 DEF FrameRest, FrameMore, c
    <2>6. CASE ~(LengthOf(a[HeaderBytes]) > MaxPayload)
      <3>1. ~(Len(a) < TotalOf(a))
        BY <2>1, <2>6 DEF TooShort
      <3>2. TotalOf(a) \in 1 .. Len(a) /\ TotalOf(a) \in 0 .. Len(a) /\ ~(Len(c) < TotalOf(a))
        BY <1>3, <2>4, <3>1, SerialSizes
      <3>3. c[TotalOf(a)] = a[TotalOf(a)]
        BY <1>3, <3>2
      <3>4. ~TooShort(c) /\ ~IsText(c) /\ (IsFrame(c) <=> IsFrame(a))
        BY <1>1, <1>5, <1>6, <2>1, <2>2, <2>3, <2>6, <3>1, <3>2, <3>3 DEF IsText, IsFrame, TooShort
      <3>5. Drop(c, TotalOf(c)) = Drop(a, TotalOf(a)) \o b
            /\ SubSeq(c, 1, TotalOf(c)) = SubSeq(a, 1, TotalOf(a))
        BY <1>d, <1>s, <2>3, <3>2
      <3>6. QED
        BY <1>6, <1>8, <3>4, <3>5 DEF FrameRest, FrameMore, c
    <2>7. QED
      BY <2>5, <2>6
  <1>9. QED
    BY <1>7, <1>8

LEMMA Regroup ==
  ASSUME NEW X, NEW x \in Seq(X), NEW y \in Seq(X), NEW z \in Seq(X)
  PROVE  x \o (y \o z) = (x \o y) \o z
  BY ConcatAssociative

FrameJoin(f, g) == [buffer |-> g.buffer, frames |-> f.frames \o g.frames, text |-> f.text \o g.text]

LEMMA FrameMoreJoin ==
  ASSUME NEW a \in Seq(Bytes), ~TooShort(a), NEW f \in FrameResults, NEW g \in FrameResults
  PROVE  /\ FrameMore(a, FrameJoin(f, g)) = FrameJoin(FrameMore(a, f), g)
         /\ FrameMore(a, f).buffer = f.buffer
  <1>1. /\ f.frames \in Seq(Seq(Bytes)) /\ f.text \in Seq(Bytes)
        /\ g.frames \in Seq(Seq(Bytes)) /\ g.text \in Seq(Bytes)
    BY DEF FrameResults
  <1> DEFINE j == FrameJoin(f, g)
             h == <<Head(a)>>
             w == <<SubSeq(a, 1, TotalOf(a))>>
  <1>2. j.buffer = g.buffer /\ j.frames = f.frames \o g.frames /\ j.text = f.text \o g.text
    BY DEF FrameJoin
  <1>3. h \in Seq(Bytes) /\ (IsFrame(a) => w \in Seq(Seq(Bytes)))
    <2>1. Head(a) \in Bytes /\ (IsFrame(a) => SubSeq(a, 1, TotalOf(a)) \in Seq(Bytes))
      BY FrameRestIs
    <2>2. QED
      BY <2>1
  <1> HIDE DEF h, w, j
  <1>4. h \o (f.text \o g.text) = (h \o f.text) \o g.text
    <2> DEFINE y == f.text
               z == g.text
    <2>1. y \in Seq(Bytes) /\ z \in Seq(Bytes)
      BY <1>1
    <2> HIDE DEF y, z
    <2>2. h \o (y \o z) = (h \o y) \o z
      BY <1>3, <2>1, Regroup
    <2>3. QED
      BY <2>2 DEF y, z
  <1>5. IsFrame(a) => w \o (f.frames \o g.frames) = (w \o f.frames) \o g.frames
    <2> DEFINE y == f.frames
               z == g.frames
    <2>1. y \in Seq(Seq(Bytes)) /\ z \in Seq(Seq(Bytes))
      BY <1>1
    <2> HIDE DEF y, z
    <2>2. IsFrame(a) => w \o (y \o z) = (w \o y) \o z
      BY <1>3, <2>1, Regroup
    <2>3. QED
      BY <2>2 DEF y, z
  <1>6. CASE IsText(a)
    <2>1. FrameMore(a, j) = [buffer |-> j.buffer, frames |-> j.frames, text |-> h \o j.text]
          /\ FrameMore(a, f) = [buffer |-> f.buffer, frames |-> f.frames, text |-> h \o f.text]
      BY <1>6 DEF FrameMore, h
    <2>2. FrameMore(a, j)
            = [buffer |-> g.buffer, frames |-> f.frames \o g.frames, text |-> (h \o f.text) \o g.text]
      BY <1>2, <1>4, <2>1
    <2> DEFINE m == FrameMore(a, f)
    <2>3. m.buffer = f.buffer /\ m.frames = f.frames /\ m.text = h \o f.text
      BY <2>1
    <2> HIDE DEF m
    <2>4. FrameJoin(m, g)
            = [buffer |-> g.buffer, frames |-> f.frames \o g.frames, text |-> (h \o f.text) \o g.text]
      BY <2>3 DEF FrameJoin
    <2>5. QED
      BY <2>2, <2>3, <2>4 DEF j, m
  <1>7. CASE ~IsText(a) /\ IsFrame(a)
    <2>1. FrameMore(a, j) = [buffer |-> j.buffer, frames |-> w \o j.frames, text |-> j.text]
          /\ FrameMore(a, f) = [buffer |-> f.buffer, frames |-> w \o f.frames, text |-> f.text]
      BY <1>7 DEF FrameMore, w
    <2>2. FrameMore(a, j)
            = [buffer |-> g.buffer, frames |-> (w \o f.frames) \o g.frames, text |-> f.text \o g.text]
      BY <1>2, <1>5, <1>7, <2>1
    <2> DEFINE m == FrameMore(a, f)
    <2>3. m.buffer = f.buffer /\ m.frames = w \o f.frames /\ m.text = f.text
      BY <2>1
    <2> HIDE DEF m
    <2>4. FrameJoin(m, g)
            = [buffer |-> g.buffer, frames |-> (w \o f.frames) \o g.frames, text |-> f.text \o g.text]
      BY <2>3 DEF FrameJoin
    <2>5. QED
      BY <2>2, <2>3, <2>4 DEF j, m
  <1>8. CASE ~IsText(a) /\ ~IsFrame(a)
    BY <1>8 DEF FrameMore
  <1>9. QED
    BY <1>6, <1>7, <1>8

\* A stream in two pieces: the second is read with what the first left over.
LEMMA FramesInPieces ==
  ASSUME NEW p \in Seq(Bytes), NEW b \in Seq(Bytes)
  PROVE  consumeFrames[p \o b]
           = FrameJoin(consumeFrames[p], consumeFrames[consumeFrames[p].buffer \o b])
  <1> DEFINE AtOnce(a) == consumeFrames[a \o b]
             Pieces(a) == FrameJoin(consumeFrames[a], consumeFrames[consumeFrames[a].buffer \o b])
             T == {k \in Nat : \E a \in Seq(Bytes) : Len(a) = k /\ AtOnce(a) # Pieces(a)}
  <1>1. SUFFICES ASSUME T # {} PROVE FALSE
    BY LenProperties
  <1>2. PICK k \in T : \A j \in T : k <= j
    BY <1>1, LeastNat
  <1>3. PICK a \in Seq(Bytes) : Len(a) = k /\ AtOnce(a) # Pieces(a)
    BY <1>2
  <1>4. \A v \in Seq(Bytes) : consumeFrames[v] \in FrameResults
    BY FramesDefined
  <1>5. \A v \in Seq(Bytes) : v \o b \in Seq(Bytes)
    BY ConcatProperties
  <1>6. CASE TooShort(a)
    <2>1. consumeFrames[a] = Unread(a)
      BY <1>6, FramesDefined
    <2> DEFINE g == consumeFrames[a \o b]
    <2>2. g \in FrameResults
      BY <1>4, <1>5
    <2> HIDE DEF g
    <2>3. g.frames \in Seq(Seq(Bytes)) /\ g.text \in Seq(Bytes)
          /\ g = [buffer |-> g.buffer, frames |-> g.frames, text |-> g.text]
      BY <2>2 DEF FrameResults
    <2>4. <<>> \o g.frames = g.frames /\ <<>> \o g.text = g.text
      BY <2>3, ConcatEmptySeq
    <2>5. FrameJoin(Unread(a), g) = g
      BY <2>3, <2>4 DEF FrameJoin, Unread
    <2>6. Unread(a).buffer = a
      BY DEF Unread
    <2>7. QED
      BY <1>3, <2>1, <2>5, <2>6 DEF g
  <1>7. CASE ~TooShort(a)
    <2> DEFINE v == FrameRest(a)
               f == consumeFrames[v]
               g == consumeFrames[f.buffer \o b]
    <2>1. v \in Seq(Bytes) /\ Len(v) < k /\ Len(v) \in Nat /\ k \in Nat
      BY <1>3, <1>7, FrameRestIs
    <2>2. Len(v) \notin T
      BY <1>2, <2>1
    <2>3. consumeFrames[v \o b] = FrameJoin(f, g)
      BY <2>1, <2>2
    <2>4. ~TooShort(a \o b) /\ FrameRest(a \o b) = v \o b
      BY <1>7, FrontDecides
    <2>m. FrameMore(a \o b, FrameJoin(f, g)) = FrameMore(a, FrameJoin(f, g))
      BY <1>7, FrontDecides
    <2>5. consumeFrames[a \o b] = FrameMore(a \o b, consumeFrames[v \o b])
      BY <1>5, <2>4, FramesDefined
    <2>6. consumeFrames[a] = FrameMore(a, f)
      BY <1>7, FramesDefined
    <2>7. f \in FrameResults
      BY <1>4, <2>1
    <2>8. g \in FrameResults
      <3>1. f.buffer \in Seq(Bytes)
        BY <2>7 DEF FrameResults
      <3>2. QED
        BY <1>4, <1>5, <3>1
    <2> HIDE DEF v, f, g
    <2>9. /\ FrameMore(a, FrameJoin(f, g)) = FrameJoin(FrameMore(a, f), g)
          /\ FrameMore(a, f).buffer = f.buffer
      BY <1>7, <2>7, <2>8, FrameMoreJoin
    <2>10. consumeFrames[a \o b] = FrameJoin(consumeFrames[a], g)
      BY <2>3, <2>m, <2>5, <2>6, <2>9
    <2>11. g = consumeFrames[consumeFrames[a].buffer \o b]
      BY <2>6, <2>9 DEF g
    <2>12. QED
      BY <1>3, <2>10, <2>11
  <1>8. QED
    BY <1>6, <1>7

-----------------------------------------------------------------------------
(* The line parser.                                                        *)

LineResults == [buffer : Seq(Bytes), readings : Seq(Seq(Bytes))]

EndsOf(work) == {i \in DOMAIN work : work[i] = "n"}
EndOf(work)  == CHOOSE i \in EndsOf(work) : \A j \in EndsOf(work) : i <= j
RowAt(work)  == SubSeq(work, 1, EndOf(work) - 1)
Unended(work) == [buffer |-> work, readings |-> <<>>]
LineRest(work) == Drop(work, EndOf(work))
LineMore(work, r) ==
  IF parseLine(RowAt(work)) THEN [buffer |-> r.buffer, readings |-> <<RowAt(work)>> \o r.readings]
  ELSE r

\* The end of the first line.
LEMMA EndIs ==
  ASSUME NEW work \in Seq(Bytes), EndsOf(work) # {}
  PROVE  /\ EndOf(work) \in EndsOf(work) /\ \A j \in EndsOf(work) : EndOf(work) <= j
         /\ EndOf(work) \in 1 .. Len(work) /\ Len(work) \in Nat
  <1>1. Len(work) \in Nat /\ DOMAIN work = 1 .. Len(work)
    BY LenProperties
  <1>2. EndsOf(work) \in SUBSET Nat /\ EndsOf(work) \subseteq 1 .. Len(work)
    BY <1>1 DEF EndsOf
  <1>3. \E i \in EndsOf(work) : \A j \in EndsOf(work) : i <= j
    BY <1>2, LeastNat
  <1>4. EndOf(work) \in EndsOf(work) /\ \A j \in EndsOf(work) : EndOf(work) <= j
    BY <1>3 DEF EndOf
  <1>5. QED
    BY <1>1, <1>2, <1>4

LEMMA LineRestIs ==
  ASSUME NEW work \in Seq(Bytes), EndsOf(work) # {}
  PROVE  /\ LineRest(work) \in Seq(Bytes) /\ Len(LineRest(work)) < Len(work)
         /\ Len(LineRest(work)) \in Nat /\ Len(work) \in Nat /\ RowAt(work) \in Seq(Bytes)
  <1> DEFINE e == EndOf(work)
  <1>1. e \in 1 .. Len(work) /\ Len(work) \in Nat
    BY EndIs
  <1> HIDE DEF e
  <1>2. e \in 0 .. Len(work)
    BY <1>1
  <1>3. Drop(work, e) \in Seq(Bytes) /\ Len(Drop(work, e)) = Len(work) - e
    BY <1>2, DropIs
  <1>4. SubSeq(work, 1, e - 1) \in Seq(Bytes)
    <2>1. 1 \in Int /\ e - 1 \in Int /\ \A i \in 1 .. e - 1 : i \in 1 .. Len(work)
      BY <1>1
    <2>2. \A i \in 1 .. e - 1 : work[i] \in Bytes
      BY <2>1, ElementOfSeq
    <2>3. QED
      BY <2>1, <2>2, SubSeqProperties
  <1>5. Len(work) - e \in Nat /\ Len(work) - e < Len(work)
    BY <1>1
  <1>6. QED
    BY <1>1, <1>3, <1>4, <1>5 DEF e, LineRest, RowAt

LEMMA LineMoreIs ==
  ASSUME NEW work \in Seq(Bytes), EndsOf(work) # {}, NEW r \in LineResults
  PROVE  LineMore(work, r) \in LineResults
  <1>1. r.buffer \in Seq(Bytes) /\ r.readings \in Seq(Seq(Bytes))
    BY DEF LineResults
  <1>2. RowAt(work) \in Seq(Bytes)
    BY LineRestIs
  <1>3. <<RowAt(work)>> \o r.readings \in Seq(Seq(Bytes))
    BY <1>1, <1>2
  <1>4. QED
    BY <1>1, <1>3 DEF LineMore, LineResults

LEMMA LineEdits ==
  ASSUME NEW r \in LineResults, NEW q
  PROVE  [r EXCEPT !.readings = q \o @] = [buffer |-> r.buffer, readings |-> q \o r.readings]
  <1>1. r = [buffer |-> r.buffer, readings |-> r.readings]
    BY DEF LineResults
  <1> DEFINE a == q \o r.readings
  <1> HIDE DEF a
  <1>2. [r EXCEPT !.readings = a] = [buffer |-> r.buffer, readings |-> a]
    BY <1>1
  <1>3. [r EXCEPT !.readings = q \o @] = [r EXCEPT !.readings = a]
    BY DEF a
  <1>4. QED
    BY <1>2, <1>3 DEF a

\* The parser is defined, and reads one line at a time.
LEMMA LinesDefined ==
  /\ consumeLines \in [Seq(Bytes) -> LineResults]
  /\ \A work \in Seq(Bytes) :
       consumeLines[work] = IF EndsOf(work) = {} THEN Unended(work)
                            ELSE LineMore(work, consumeLines[LineRest(work)])
  <1> DEFINE S == Seq(Bytes)
             X == LineResults
             size == [w \in S |-> Len(w)]
             stops == {w \in S : EndsOf(w) = {}}
             base == [w \in S |-> Unended(w)]
             next == [w \in S |-> IF EndsOf(w) = {} THEN w ELSE LineRest(w)]
             then == [w \in S |-> [r \in X |-> IF EndsOf(w) = {} THEN r ELSE LineMore(w, r)]]
             Body(f, buffer) ==
               LET ends == {i \in DOMAIN buffer : buffer[i] = "n"}
                   end  == CHOOSE i \in ends : \A j \in ends : i <= j
                   row  == SubSeq(buffer, 1, end - 1)
                   rest == f[Drop(buffer, end)]
               IN  IF ends = {} THEN [buffer |-> buffer, readings |-> <<>>]
                   ELSE IF parseLine(row) THEN [rest EXCEPT !.readings = <<row>> \o @]
                   ELSE rest
  <1>1. size \in [S -> Nat]
    BY LenProperties
  <1>2. base \in [S -> X] /\ \A w \in S : Unended(w) \in X
    <2>1. \A w \in S : Unended(w) \in X
      BY DEF Unended, LineResults
    <2>2. QED
      BY <2>1
  <1>3. next \in [S -> S] /\ \A w \in S : w \notin stops => size[next[w]] < size[w]
    BY LineRestIs
  <1>4. then \in [S -> [X -> X]]
    BY LineMoreIs
  <1>5. \E f \in [S -> X] : \A w \in S : Follows(f, w, stops, base, next, then)
    <2> HIDE DEF S, X, size, stops, base, next, then
    <2>1. stops \in SUBSET S
      BY DEF stops
    <2>2. QED
      BY <1>1, <1>2, <1>3, <1>4, <2>1, Recursion
  <1>6. ASSUME NEW f, NEW w \in S, EndsOf(w) = {} \/ f[LineRest(w)] \in X
        PROVE  Body(f, w) = IF EndsOf(w) = {} THEN Unended(w) ELSE LineMore(w, f[LineRest(w)])
    <2> DEFINE r == f[LineRest(w)]
    <2>1. Body(f, w) = IF EndsOf(w) = {} THEN Unended(w)
                       ELSE IF parseLine(RowAt(w)) THEN [r EXCEPT !.readings = <<RowAt(w)>> \o @]
                       ELSE r
      BY DEF EndsOf, EndOf, RowAt, LineRest, Unended
    <2> HIDE DEF Body, r
    <2>2. CASE EndsOf(w) = {}
      BY <2>1, <2>2
    <2>3. CASE EndsOf(w) # {}
      <3>1. r \in LineResults
        BY <1>6, <2>3 DEF r
      <3>2. [r EXCEPT !.readings = <<RowAt(w)>> \o @]
              = [buffer |-> r.buffer, readings |-> <<RowAt(w)>> \o r.readings]
        BY <3>1, LineEdits
      <3>3. Body(f, w) = LineMore(w, r)
        BY <2>1, <2>3, <3>2 DEF LineMore
      <3>4. QED
        BY <2>3, <3>3 DEF r
    <2>4. QED
      BY <2>2, <2>3
  <1>7. \E f : f \in [S -> X] /\ f = [w \in S |-> Body(f, w)]
    <2>1. PICK f \in [S -> X] : \A w \in S : Follows(f, w, stops, base, next, then)
      BY <1>5
    <2>2. ASSUME NEW w \in S PROVE f[w] = Body(f, w)
      <3>1. f[w] = IF w \in stops THEN base[w] ELSE then[w][f[next[w]]]
        BY <2>1 DEF Follows
      <3>2. CASE EndsOf(w) = {}
        <4>1. f[w] = Unended(w)
          BY <3>1, <3>2
        <4>2. Body(f, w) = Unended(w)
          <5> HIDE DEF Body, S, X
          <5>1. QED
            BY <1>6, <3>2
        <4>3. QED
          BY <4>1, <4>2
      <3>3. CASE EndsOf(w) # {}
        <4>1. LineRest(w) \in S
          BY <3>3, LineRestIs
        <4>2. f[LineRest(w)] \in X
          BY <4>1
        <4>3. f[w] = LineMore(w, f[LineRest(w)])
          BY <3>1, <3>3, <4>1, <4>2
        <4>4. Body(f, w) = LineMore(w, f[LineRest(w)])
          <5> HIDE DEF Body, S, X
          <5>1. QED
            BY <1>6, <3>3, <4>2
        <4>5. QED
          BY <4>3, <4>4
      <3>4. QED
        BY <3>2, <3>3
    <2>3. f = [w \in S |-> Body(f, w)]
      <3> HIDE DEF Body, S, X
      <3>1. QED
        BY <2>2
    <2>4. QED
      BY <2>3
  <1>8. consumeLines = [w \in S |-> Body(consumeLines, w)]
    BY <1>7 DEF consumeLines
  <1>b. \A w \in S : consumeLines[w] = Body(consumeLines, w)
    <2> HIDE DEF Body, S
    <2>1. QED
      BY <1>8
  <1>9. \A w \in S : consumeLines[w] \in X
    <2> DEFINE T == {k \in Nat : \E w \in S : Len(w) = k /\ consumeLines[w] \notin X}
    <2>1. SUFFICES ASSUME T # {} PROVE FALSE
      BY LenProperties
    <2>2. PICK k \in T : \A j \in T : k <= j
      BY <2>1, LeastNat
    <2>3. PICK w \in S : Len(w) = k /\ consumeLines[w] \notin X
      BY <2>2
    <2> HIDE DEF Body
    <2>4. CASE EndsOf(w) = {}
      <3>1. consumeLines[w] = Unended(w)
        BY <1>6, <1>b, <2>4
      <3>2. QED
        BY <1>2, <2>3, <3>1
    <2>5. CASE EndsOf(w) # {}
      <3>1. LineRest(w) \in S /\ Len(LineRest(w)) < k /\ Len(LineRest(w)) \in Nat /\ k \in Nat
        BY <2>3, <2>5, LineRestIs
      <3>2. Len(LineRest(w)) \notin T
        BY <2>2, <3>1
      <3>3. consumeLines[LineRest(w)] \in X
        BY <3>1, <3>2
      <3>4. consumeLines[w] = LineMore(w, consumeLines[LineRest(w)])
        BY <1>6, <1>b, <2>5, <3>3
      <3>5. LineMore(w, consumeLines[LineRest(w)]) \in X
        BY <2>5, <3>3, LineMoreIs
      <3>6. QED
        BY <2>3, <3>4, <3>5
    <2>6. QED
      BY <2>4, <2>5
  <1> HIDE DEF Body
  <1>c. consumeLines = [w \in S |-> consumeLines[w]]
    BY <1>8, <1>b
  <1>d. consumeLines \in [S -> X]
    BY <1>9, <1>c
  <1>10. ASSUME NEW w \in S
         PROVE  consumeLines[w] = IF EndsOf(w) = {} THEN Unended(w)
                                  ELSE LineMore(w, consumeLines[LineRest(w)])
    <2>1. EndsOf(w) = {} \/ consumeLines[LineRest(w)] \in X
      BY <1>9, LineRestIs
    <2>2. QED
      BY <1>6, <1>b, <2>1
  <1>11. QED
    BY <1>d, <1>10

\* The first line is the same whatever comes after it.
LEMMA LineDecides ==
  ASSUME NEW a \in Seq(Bytes), NEW b \in Seq(Bytes), EndsOf(a) # {}
  PROVE  /\ EndsOf(a \o b) # {} /\ LineRest(a \o b) = LineRest(a) \o b
         /\ RowAt(a \o b) = RowAt(a)
  <1> DEFINE c == a \o b
             e == EndOf(a)
  <1>1. /\ e \in EndsOf(a) /\ \A j \in EndsOf(a) : e <= j
        /\ e \in 1 .. Len(a) /\ Len(a) \in Nat
    BY EndIs
  <1> HIDE DEF e
  <1>2. e \in 0 .. Len(a) /\ e - 1 \in 0 .. Len(a) /\ e \in Int
    BY <1>1
  <1>3. /\ c \in Seq(Bytes) /\ Len(c) = Len(a) + Len(b) /\ Len(b) \in Nat
        /\ \A k \in 1 .. Len(a) : c[k] = a[k]
    BY <1>2, FrontOf
  <1>4. Drop(c, e) = Drop(a, e) \o b
    BY <1>2, FrontOf
  <1>5. SubSeq(c, 1, e - 1) = SubSeq(a, 1, e - 1)
    BY <1>2, FrontOf
  <1>6. DOMAIN a = 1 .. Len(a) /\ DOMAIN c = 1 .. Len(c)
    BY <1>3, LenProperties
  <1> HIDE DEF c
  <1>7. e \in EndsOf(c)
    BY <1>1, <1>3, <1>6 DEF EndsOf
  <1>8. \A j \in EndsOf(c) : e <= j
    <2> TAKE j \in EndsOf(c)
    <2>1. j \in 1 .. Len(c) /\ c[j] = "n"
      BY <1>6 DEF EndsOf
    <2>2. CASE j \in 1 .. Len(a)
      <3>1. j \in EndsOf(a)
        BY <1>3, <1>6, <2>1, <2>2 DEF EndsOf
      <3>2. QED
        BY <1>1, <3>1
    <2>3. CASE j \notin 1 .. Len(a)
      BY <1>1, <1>3, <2>1, <2>3
    <2>4. QED
      BY <2>2, <2>3
  <1>9. EndOf(c) = e
    <2>1. EndOf(c) \in EndsOf(c) /\ EndOf(c) <= e /\ EndOf(c) \in 1 .. Len(c) /\ Len(c) \in Nat
      BY <1>3, <1>7, EndIs
    <2>2. e <= EndOf(c)
      BY <1>8, <2>1
    <2>3. EndOf(c) \in Int
      BY <2>1
    <2>4. QED
      BY <1>2, <2>1, <2>2, <2>3
  <1>10. QED
    BY <1>4, <1>5, <1>7, <1>9 DEF LineRest, RowAt, c, e

LineJoin(f, g) == [buffer |-> g.buffer, readings |-> f.readings \o g.readings]

LEMMA LineMoreJoin ==
  ASSUME NEW a \in Seq(Bytes), EndsOf(a) # {}, NEW f \in LineResults, NEW g \in LineResults
  PROVE  /\ LineMore(a, LineJoin(f, g)) = LineJoin(LineMore(a, f), g)
         /\ LineMore(a, f).buffer = f.buffer
  <1> DEFINE j == LineJoin(f, g)
             m == LineMore(a, f)
             w == <<RowAt(a)>>
             y == f.readings
             z == g.readings
  <1>1. y \in Seq(Seq(Bytes)) /\ z \in Seq(Seq(Bytes))
    BY DEF LineResults
  <1>2. j.buffer = g.buffer /\ j.readings = y \o z
    BY DEF LineJoin
  <1>3. w \in Seq(Seq(Bytes))
    <2>1. RowAt(a) \in Seq(Bytes)
      BY LineRestIs
    <2>2. QED
      BY <2>1
  <1>4. CASE parseLine(RowAt(a))
    <2>1. LineMore(a, j) = [buffer |-> j.buffer, readings |-> w \o j.readings]
      BY <1>4 DEF LineMore
    <2>2. m = [buffer |-> f.buffer, readings |-> w \o y]
      BY <1>4 DEF LineMore
    <2>3. m.buffer = f.buffer /\ m.readings = w \o y
      BY <2>2
    <2>4. LineJoin(m, g) = [buffer |-> g.buffer, readings |-> m.readings \o z]
      BY DEF LineJoin
    <2> HIDE DEF j, m, w, y, z
    <2>5. w \o (y \o z) = (w \o y) \o z
      BY <1>1, <1>3, Regroup
    <2>6. LineMore(a, j) = LineJoin(m, g)
      BY <1>2, <2>1, <2>3, <2>4, <2>5
    <2>7. QED
      BY <2>3, <2>6 DEF m, j
  <1>5. CASE ~parseLine(RowAt(a))
    BY <1>5 DEF LineMore
  <1>6. QED
    BY <1>4, <1>5

LEMMA LinesInPieces ==
  ASSUME NEW p \in Seq(Bytes), NEW b \in Seq(Bytes)
  PROVE  consumeLines[p \o b]
           = LineJoin(consumeLines[p], consumeLines[consumeLines[p].buffer \o b])
  <1> DEFINE AtOnce(a) == consumeLines[a \o b]
             Pieces(a) == LineJoin(consumeLines[a], consumeLines[consumeLines[a].buffer \o b])
             T == {k \in Nat : \E a \in Seq(Bytes) : Len(a) = k /\ AtOnce(a) # Pieces(a)}
  <1>1. SUFFICES ASSUME T # {} PROVE FALSE
    BY LenProperties
  <1>2. PICK k \in T : \A j \in T : k <= j
    BY <1>1, LeastNat
  <1>3. PICK a \in Seq(Bytes) : Len(a) = k /\ AtOnce(a) # Pieces(a)
    BY <1>2
  <1>4. \A v \in Seq(Bytes) : consumeLines[v] \in LineResults
    BY LinesDefined
  <1>5. \A v \in Seq(Bytes) : v \o b \in Seq(Bytes)
    BY ConcatProperties
  <1>6. CASE EndsOf(a) = {}
    <2>1. consumeLines[a] = Unended(a)
      BY <1>6, LinesDefined
    <2> DEFINE g == consumeLines[a \o b]
    <2>2. g \in LineResults
      BY <1>4, <1>5
    <2> HIDE DEF g
    <2>3. g.readings \in Seq(Seq(Bytes)) /\ g = [buffer |-> g.buffer, readings |-> g.readings]
      BY <2>2 DEF LineResults
    <2>4. <<>> \o g.readings = g.readings
      BY <2>3, ConcatEmptySeq
    <2>5. LineJoin(Unended(a), g) = g
      BY <2>3, <2>4 DEF LineJoin, Unended
    <2>6. Unended(a).buffer = a
      BY DEF Unended
    <2>7. QED
      BY <1>3, <2>1, <2>5, <2>6 DEF g
  <1>7. CASE EndsOf(a) # {}
    <2> DEFINE v == LineRest(a)
               f == consumeLines[v]
               g == consumeLines[f.buffer \o b]
    <2>1. v \in Seq(Bytes) /\ Len(v) < k /\ Len(v) \in Nat /\ k \in Nat
      BY <1>3, <1>7, LineRestIs
    <2>2. Len(v) \notin T
      BY <1>2, <2>1
    <2>3. consumeLines[v \o b] = LineJoin(f, g)
      BY <2>1, <2>2
    <2>4. EndsOf(a \o b) # {} /\ LineRest(a \o b) = v \o b /\ RowAt(a \o b) = RowAt(a)
      BY <1>7, LineDecides
    <2>m. LineMore(a \o b, LineJoin(f, g)) = LineMore(a, LineJoin(f, g))
      BY <2>4 DEF LineMore
    <2>5. consumeLines[a \o b] = LineMore(a \o b, consumeLines[v \o b])
      BY <1>5, <2>4, LinesDefined
    <2>6. consumeLines[a] = LineMore(a, f)
      BY <1>7, LinesDefined
    <2>7. f \in LineResults
      BY <1>4, <2>1
    <2>8. g \in LineResults
      <3>1. f.buffer \in Seq(Bytes)
        BY <2>7 DEF LineResults
      <3>2. QED
        BY <1>4, <1>5, <3>1
    <2> HIDE DEF v, f, g
    <2>9. /\ LineMore(a, LineJoin(f, g)) = LineJoin(LineMore(a, f), g)
          /\ LineMore(a, f).buffer = f.buffer
      BY <1>7, <2>7, <2>8, LineMoreJoin
    <2>10. consumeLines[a \o b] = LineJoin(consumeLines[a], g)
      BY <2>3, <2>m, <2>5, <2>6, <2>9
    <2>11. g = consumeLines[consumeLines[a].buffer \o b]
      BY <2>6, <2>9 DEF g
    <2>12. QED
      BY <1>3, <2>10, <2>11
  <1>8. QED
    BY <1>6, <1>7

\* What two results joined hold.
LEMMA LinesJoined ==
  \A f, g, r : r = LineJoin(f, g) => r.buffer = g.buffer /\ r.readings = f.readings \o g.readings
  <1>1. ASSUME NEW f, NEW g
        PROVE  LineJoin(f, g).buffer = g.buffer /\ LineJoin(f, g).readings = f.readings \o g.readings
    BY DEF LineJoin
  <1>2. QED
    BY <1>1, Zenon

\* What the parser keeps is the end of what it was given, without a line end.
KeepsEnd(s) ==
  LET b == consumeLines[s].buffer
  IN  /\ Len(b) \in 0 .. Len(s)
      /\ \A k \in 1 .. Len(b) : b[k] = s[Len(s) - Len(b) + k] /\ b[k] # "n"

LEMMA BufferIs ==
  ASSUME NEW s \in Seq(Bytes)
  PROVE  KeepsEnd(s)
  <1> DEFINE T == {k \in Nat : \E a \in Seq(Bytes) : Len(a) = k /\ ~KeepsEnd(a)}
  <1>1. SUFFICES ASSUME T # {} PROVE FALSE
    BY LenProperties
  <1>2. PICK k \in T : \A j \in T : k <= j
    BY <1>1, LeastNat
  <1>3. PICK a \in Seq(Bytes) : Len(a) = k /\ ~KeepsEnd(a)
    BY <1>2
  <1>4. Len(a) \in Nat /\ DOMAIN a = 1 .. Len(a)
    BY LenProperties
  <1>5. CASE EndsOf(a) = {}
    <2>1. consumeLines[a] = Unended(a)
      BY <1>5, LinesDefined
    <2>2. consumeLines[a].buffer = a
      BY <2>1 DEF Unended
    <2>3. \A i \in 1 .. Len(a) : Len(a) - Len(a) + i = i /\ a[i] # "n"
      BY <1>4, <1>5 DEF EndsOf
    <2>4. QED
      BY <1>3, <1>4, <2>2, <2>3 DEF KeepsEnd
  <1>6. CASE EndsOf(a) # {}
    <2> DEFINE v == LineRest(a)
               f == consumeLines[v]
               e == EndOf(a)
               b == f.buffer
    <2>1. v \in Seq(Bytes) /\ Len(v) < k /\ Len(v) \in Nat
      BY <1>3, <1>6, LineRestIs
    <2>2. KeepsEnd(v)
      BY <1>2, <2>1
    <2>3. f \in LineResults
      BY <2>1, LinesDefined
    <2>4. consumeLines[a].buffer = b
      <3>1. consumeLines[a] = LineMore(a, f)
        BY <1>6, LinesDefined
      <3>2. LineMore(a, f).buffer = f.buffer
        BY <1>6, <2>3, LineMoreJoin
      <3>3. QED
        BY <3>1, <3>2
    <2>5. e \in 0 .. Len(a) /\ e \in Nat
      BY <1>6, EndIs
    <2>6. /\ Len(v) = Len(a) - e
          /\ \A i \in 1 .. Len(a) - e : v[i] = a[e + i]
      <3> HIDE DEF e
      <3>1. Len(Drop(a, e)) = Len(a) - e
        BY <2>5, DropIs
      <3>2. \A i \in 1 .. Len(a) - e : Drop(a, e)[i] = a[e + i]
        BY <2>5, DropIs
      <3>3. QED
        BY <3>1, <3>2 DEF e, LineRest
    <2>7. Len(b) \in 0 .. Len(v) /\ \A i \in 1 .. Len(b) : b[i] = v[Len(v) - Len(b) + i] /\ b[i] # "n"
      BY <2>2 DEF KeepsEnd
    <2> HIDE DEF v, f, e, b
    <2>8. ASSUME NEW i \in 1 .. Len(b) PROVE b[i] = a[Len(a) - Len(b) + i] /\ b[i] # "n"
      <3>1. /\ Len(v) - Len(b) + i \in 1 .. Len(a) - e
            /\ e + (Len(v) - Len(b) + i) = Len(a) - Len(b) + i
        BY <1>4, <2>5, <2>6, <2>7
      <3>2. v[Len(v) - Len(b) + i] = a[Len(a) - Len(b) + i]
        BY <2>6, <3>1
      <3>3. QED
        BY <2>7, <3>2
    <2>9. Len(b) \in 0 .. Len(a)
      BY <1>4, <2>5, <2>6, <2>7
    <2>10. QED
      BY <1>3, <2>4, <2>8, <2>9 DEF KeepsEnd
  <1>7. QED
    BY <1>5, <1>6

\* Nothing is kept after a line end.
LEMMA NothingKept ==
  ASSUME NEW s \in Seq(Bytes), Len(s) # 0, s[Len(s)] = "n"
  PROVE  consumeLines[s].buffer = <<>>
  <1> DEFINE b == consumeLines[s].buffer
  <1>1. Len(b) \in 0 .. Len(s) /\ \A k \in 1 .. Len(b) : b[k] = s[Len(s) - Len(b) + k] /\ b[k] # "n"
    BY BufferIs DEF KeepsEnd
  <1>2. b \in Seq(Bytes)
    <2>1. consumeLines[s] \in LineResults
      BY LinesDefined
    <2>2. QED
      BY <2>1 DEF LineResults
  <1> HIDE DEF b
  <1>3. Len(s) \in Nat
    BY LenProperties
  <1>4. Len(b) = 0
    <2> SUFFICES ASSUME Len(b) # 0 PROVE FALSE
      OBVIOUS
    <2>1. Len(b) \in 1 .. Len(b) /\ Len(s) - Len(b) + Len(b) = Len(s)
      BY <1>1, <1>3
    <2>2. b[Len(b)] = s[Len(s)] /\ b[Len(b)] # "n"
      BY <1>1, <2>1
    <2>3. QED
      BY <2>2
  <1>5. b = <<>>
    BY <1>2, <1>4, EmptySeq
  <1>6. QED
    BY <1>5 DEF b

\* An unfinished line of a text that fits is not discarded.
LEMMA KeptIs ==
  ASSUME NEW s \in Seq(Bytes), Fits(s)
  PROVE  Kept(consumeLines[s].buffer) = consumeLines[s].buffer
  <1> DEFINE b == consumeLines[s].buffer
  <1>1. Len(b) \in 0 .. Len(s) /\ \A k \in 1 .. Len(b) : b[k] = s[Len(s) - Len(b) + k] /\ b[k] # "n"
    BY BufferIs DEF KeepsEnd
  <1> HIDE DEF b
  <1>2. Len(s) \in Nat /\ kMaxBufferBytes \in Nat
    BY LenProperties, SerialAssumption
  <1>3. ~(Len(b) > kMaxBufferBytes)
    <2> SUFFICES ASSUME Len(b) > kMaxBufferBytes PROVE FALSE
      OBVIOUS
    <2> DEFINE i == Len(s) - Len(b)
    <2>1. i \in 0 .. (Len(s) - kMaxBufferBytes - 1)
      BY <1>1, <1>2
    <2>2. PICK k \in (i + 1) .. (i + kMaxBufferBytes + 1) : s[k] = "n"
      BY <2>1 DEF Fits
    <2>3. k - i \in 1 .. Len(b) /\ i + (k - i) = k
      BY <1>1, <1>2, <2>2
    <2> HIDE DEF i
    <2>4. b[k - i] = s[i + (k - i)] /\ b[k - i] # "n"
      BY <1>1, <2>3 DEF i
    <2>5. QED
      BY <2>2, <2>3, <2>4
  <1>4. QED
    BY <1>3 DEF Kept, b

LEMMA FitsInFront ==
  ASSUME NEW a \in Seq(Bytes), NEW g \in Seq(Bytes), Fits(a \o g)
  PROVE  Fits(a)
  <1>1. Len(a) \in Nat /\ Len(g) \in Nat /\ kMaxBufferBytes \in Nat
    BY LenProperties, SerialAssumption
  <1>2. 0 \in 0 .. Len(a)
    BY <1>1
  <1> DEFINE c == a \o g
  <1>3. Len(c) = Len(a) + Len(g) /\ \A k \in 1 .. Len(a) : c[k] = a[k]
    BY <1>2, FrontOf
  <1>4. Fits(c)
    OBVIOUS
  <1> HIDE DEF c
  <1>5. SUFFICES ASSUME NEW i \in 0 .. (Len(a) - kMaxBufferBytes - 1)
                 PROVE  \E k \in (i + 1) .. (i + kMaxBufferBytes + 1) : a[k] = "n"
    BY DEF Fits
  <1>6. i \in 0 .. (Len(c) - kMaxBufferBytes - 1)
    BY <1>1, <1>3
  <1>7. PICK k \in (i + 1) .. (i + kMaxBufferBytes + 1) : c[k] = "n"
    BY <1>4, <1>6 DEF Fits
  <1>8. k \in 1 .. Len(a)
    BY <1>1, <1>7
  <1>9. QED
    BY <1>3, <1>7, <1>8

\* Dropping more than the first part.
LEMMA DropBoth ==
  ASSUME NEW X, NEW a \in Seq(X), NEW b \in Seq(X), NEW j \in 0 .. Len(b)
  PROVE  /\ Len(a) + j \in 0 .. Len(a \o b) /\ Drop(a \o b, Len(a) + j) = Drop(b, j)
  <1> DEFINE c == a \o b
             n == Len(a) + j
             d == Drop(c, n)
             h == Drop(b, j)
  <1>1. Len(a) \in Nat /\ Len(b) \in Nat /\ j \in Nat
    BY LenProperties
  <1>2. c \in Seq(X) /\ Len(c) = Len(a) + Len(b)
    BY ConcatProperties
  <1>3. \A i \in 1 .. Len(a) + Len(b) : c[i] = IF i <= Len(a) THEN a[i] ELSE b[i - Len(a)]
    BY ConcatProperties
  <1> HIDE DEF c
  <1>4. n \in 0 .. Len(c) /\ Len(c) - n = Len(b) - j
    BY <1>1, <1>2
  <1> HIDE DEF n
  <1>5. d \in Seq(X) /\ Len(d) = Len(c) - n
    BY <1>2, <1>4, DropIs
  <1>6. \A k \in 1 .. Len(c) - n : d[k] = c[n + k]
    BY <1>2, <1>4, DropIs
  <1>7. h \in Seq(X) /\ Len(h) = Len(b) - j
    BY DropIs
  <1>8. \A k \in 1 .. Len(b) - j : h[k] = b[j + k]
    BY DropIs
  <1> HIDE DEF d, h
  <1>9. ASSUME NEW k \in 1 .. Len(d) PROVE d[k] = h[k]
    <2>1. k \in 1 .. Len(b) - j /\ k \in 1 .. Len(c) - n
      BY <1>4, <1>5
    <2>2. n + k \in 1 .. Len(a) + Len(b) /\ ~(n + k <= Len(a)) /\ (n + k) - Len(a) = j + k
      BY <1>1, <2>1 DEF n
    <2>3. d[k] = b[j + k]
      BY <1>3, <1>6, <2>1, <2>2
    <2>4. QED
      BY <1>8, <2>1, <2>3
  <1>10. d = h
    BY <1>4, <1>5, <1>7, <1>9, SeqEqual
  <1>11. QED
    BY <1>4, <1>10 DEF c, n, d, h

\* A sequence that ends with another; from the first line on, it is all of it.
EndsWith(s, t, i) == \E n \in 0 .. Len(s) : Drop(s, n) = t /\ (i = 0 => n = 0)

\* The parser, fed some text in chunks, is where it would be at the end of the
\* text from every line start on after which the lines fit.
InStep(text, kept, rs) ==
  \A i \in LineStarts(text) :
    Fits(Drop(text, i)) =>
      /\ kept = consumeLines[Drop(text, i)].buffer
      /\ EndsWith(rs, consumeLines[Drop(text, i)].readings, i)

LEMMA EndsWithMore ==
  ASSUME NEW X, NEW s \in Seq(X), NEW t, NEW u \in Seq(X), NEW i, EndsWith(s, t, i)
  PROVE  EndsWith(s \o u, t \o u, i)
  <1>1. PICK n \in 0 .. Len(s) : Drop(s, n) = t /\ (i = 0 => n = 0)
    BY DEF EndsWith
  <1>2. /\ Len(s \o u) = Len(s) + Len(u) /\ Len(s) \in Nat /\ Len(u) \in Nat
        /\ Drop(s \o u, n) = Drop(s, n) \o u
    BY FrontOf
  <1>3. n \in 0 .. Len(s \o u)
    BY <1>2
  <1>4. QED
    BY <1>1, <1>2, <1>3 DEF EndsWith

LEMMA EndsWithLast ==
  ASSUME NEW X, NEW s \in Seq(X), NEW x \in Seq(X), NEW y \in Seq(X), NEW i, i # 0
  PROVE  EndsWith(s \o (x \o y), y, i)
  <1> DEFINE a == s \o x
  <1>1. a \in Seq(X) /\ s \o (x \o y) = a \o y
    BY ConcatProperties, Regroup
  <1> HIDE DEF a
  <1>2. 0 \in 0 .. Len(y) /\ Len(a) + 0 = Len(a) /\ Len(y) \in Nat
    BY <1>1, LenProperties
  <1>3. Len(a) + 0 \in 0 .. Len(a \o y) /\ Drop(a \o y, Len(a) + 0) = Drop(y, 0)
    BY <1>1, <1>2, DropBoth
  <1>4. Drop(y, 0) = y
    <2>1. Drop(y, 0) \in Seq(X) /\ Len(Drop(y, 0)) = Len(y) - 0
      BY <1>2, DropIs
    <2>2. \A k \in 1 .. Len(y) - 0 : Drop(y, 0)[k] = y[0 + k]
      BY <1>2, DropIs
    <2> DEFINE d == Drop(y, 0)
    <2> HIDE DEF d
    <2>3. Len(d) = Len(y) /\ \A k \in 1 .. Len(d) : d[k] = y[k]
      BY <1>2, <2>1, <2>2 DEF d
    <2>4. d = y
      BY <2>1, <2>3, SeqEqual DEF d
    <2>5. QED
      BY <2>4 DEF d
  <1>5. QED
    BY <1>1, <1>2, <1>3, <1>4 DEF EndsWith

LEMMA RegroupBytes ==
  \A x, y, z \in Seq(Bytes) : x \o (y \o z) = (x \o y) \o z
  BY Regroup

\* A chunk of text more, wherever it was cut.
LEMMA InStepMore ==
  ASSUME NEW text \in Seq(Bytes), NEW g \in Seq(Bytes), NEW kept \in Seq(Bytes),
         NEW rs \in Seq(Seq(Bytes)), InStep(text, kept, rs)
  PROVE  InStep(text \o g, Kept(consumeLines[kept \o g].buffer), rs \o consumeLines[kept \o g].readings)
  <1> DEFINE m == consumeLines[kept \o g]
             c == text \o g
  <1>1. Len(text) \in Nat /\ Len(g) \in Nat /\ c \in Seq(Bytes) /\ Len(c) = Len(text) + Len(g)
    BY LenProperties, ConcatProperties
  <1>2. \A i \in 1 .. Len(text) + Len(g) : c[i] = IF i <= Len(text) THEN text[i] ELSE g[i - Len(text)]
    BY ConcatProperties
  <1>3. m \in LineResults /\ m.buffer \in Seq(Bytes) /\ m.readings \in Seq(Seq(Bytes))
    <2>1. kept \o g \in Seq(Bytes)
      BY ConcatProperties
    <2>2. m \in LineResults
      BY <2>1, LinesDefined
    <2>3. QED
      BY <2>2 DEF LineResults
  <1>4. SUFFICES ASSUME NEW i \in LineStarts(c), Fits(Drop(c, i))
                 PROVE  /\ Kept(m.buffer) = consumeLines[Drop(c, i)].buffer
                        /\ EndsWith(rs \o m.readings, consumeLines[Drop(c, i)].readings, i)
    BY DEF InStep
  <1>5. i = 0 \/ (i \in 1 .. Len(text) + Len(g) /\ c[i] = "n")
    BY <1>1 DEF LineStarts
  <1>6. CASE i \in 0 .. Len(text)
    <2> DEFINE d == Drop(text, i)
               l == consumeLines[d]
    <2>1. i \in LineStarts(text)
      <3>1. CASE i = 0
        BY <3>1 DEF LineStarts
      <3>2. CASE i # 0
        <4>1. i \in 1 .. Len(text) /\ i \in 1 .. Len(text) + Len(g) /\ i <= Len(text)
          BY <1>1, <1>6, <3>2
        <4>2. text[i] = "n"
          BY <1>2, <1>5, <3>2, <4>1
        <4>3. QED
          BY <4>1, <4>2 DEF LineStarts
      <3>3. QED
        BY <3>1, <3>2
    <2>2. Drop(c, i) = d \o g
      BY <1>6, FrontOf
    <2>3. d \in Seq(Bytes)
      BY <1>6, DropIs
    <2>4. Fits(d)
      BY <1>4, <2>2, <2>3, FitsInFront
    <2>5. kept = l.buffer /\ EndsWith(rs, l.readings, i)
      BY <2>1, <2>4 DEF InStep
    <2>6. consumeLines[d \o g] = LineJoin(l, m)
      BY <2>3, <2>5, LinesInPieces
    <2> HIDE DEF d, l, m, c
    <2>7. consumeLines[Drop(c, i)] = LineJoin(l, m)
      BY <2>2, <2>6
    <2>8. consumeLines[Drop(c, i)].buffer = m.buffer /\ consumeLines[Drop(c, i)].readings = l.readings \o m.readings
      BY <2>7, LinesJoined, Zenon
    <2>9. d \o g \in Seq(Bytes)
      BY <2>3, ConcatProperties
    <2>10. Kept(m.buffer) = m.buffer
      BY <1>4, <2>2, <2>8, <2>9, KeptIs
    <2>11. EndsWith(rs \o m.readings, l.readings \o m.readings, i)
      BY <1>3, <2>5, EndsWithMore
    <2>12. QED
      BY <2>8, <2>10, <2>11
  <1>7. CASE i \notin 0 .. Len(text)
    <2> DEFINE j == i - Len(text)
               q == SubSeq(g, 1, j)
               h == Drop(g, j)
               p == kept \o q
               x == consumeLines[p]
               y == consumeLines[h]
    <2>1. /\ i # 0 /\ i \in 1 .. Len(text) + Len(g) /\ c[i] = "n" /\ ~(i <= Len(text))
          /\ j \in 1 .. Len(g) /\ j \in 0 .. Len(g) /\ Len(text) + j = i
      BY <1>1, <1>5, <1>7
    <2>2. g[j] = "n"
      BY <1>2, <2>1
    <2> HIDE DEF j
    <2>3. Drop(c, i) = h
      <3>1. Drop(c, Len(text) + j) = h
        BY <2>1, DropBoth
      <3>2. QED
        BY <2>1, <3>1
    <2>4. q \in Seq(Bytes) /\ Len(q) = j /\ \A k \in 1 .. j : q[k] = g[k]
      <3>1. 1 \in Int /\ j \in Int /\ \A k \in 1 .. j : k \in 1 .. Len(g)
        BY <1>1, <2>1
      <3>2. \A k \in 1 .. j : g[k] \in Bytes
        BY <3>1, ElementOfSeq
      <3>3. q \in Seq(Bytes) /\ Len(q) = IF 1 <= j THEN j - 1 + 1 ELSE 0
        BY <3>1, <3>2, SubSeqProperties
      <3>4. \A k \in 1 .. j - 1 + 1 : q[k] = g[1 + k - 1]
        BY <3>1, <3>2, SubSeqProperties
      <3> HIDE DEF q
      <3>5. \A k \in 1 .. j : k \in 1 .. j - 1 + 1 /\ 1 + k - 1 = k
        BY <2>1
      <3>6. Len(q) = j
        BY <2>1, <3>3
      <3>7. \A k \in 1 .. j : q[k] = g[k]
        BY <3>4, <3>5
      <3>8. QED
        BY <3>3, <3>6, <3>7
    <2>5. h \in Seq(Bytes) /\ Len(h) = Len(g) - j
      BY <2>1, DropIs
    <2>6. \A k \in 1 .. Len(g) - j : h[k] = g[j + k]
      BY <2>1, DropIs
    <2>7. q \o h = g
      <3> DEFINE z == q \o h
      <3> HIDE DEF q, h
      <3>1. z \in Seq(Bytes) /\ Len(z) = Len(q) + Len(h)
        BY <2>4, <2>5, ConcatProperties
      <3>2. \A k \in 1 .. Len(q) + Len(h) : z[k] = IF k <= Len(q) THEN q[k] ELSE h[k - Len(q)]
        BY <2>4, <2>5, ConcatProperties
      <3> HIDE DEF z
      <3>3. Len(z) = Len(g)
        BY <1>1, <2>1, <2>4, <2>5, <3>1
      <3>4. ASSUME NEW k \in 1 .. Len(z) PROVE z[k] = g[k]
        <4>1. k \in 1 .. Len(q) + Len(h) /\ j \in Nat
          BY <2>1, <3>1
        <4>2. CASE k <= Len(q)
          <5>1. k \in 1 .. j
            BY <2>4, <4>1, <4>2
          <5>2. QED
            BY <2>4, <3>2, <4>1, <4>2, <5>1
        <4>3. CASE ~(k <= Len(q))
          <5>1. k - Len(q) \in 1 .. Len(g) - j /\ j + (k - Len(q)) = k
            BY <1>1, <2>4, <2>5, <4>1, <4>3
          <5>2. QED
            BY <2>6, <3>2, <4>1, <4>3, <5>1
        <4>4. QED
          BY <4>2, <4>3
      <3>5. z = g
        BY <3>1, <3>3, <3>4, SeqEqual
      <3>6. QED
        BY <3>5 DEF z
    <2> HIDE DEF q, h
    <2>8. p \in Seq(Bytes) /\ Len(p) = Len(kept) + j /\ Len(kept) \in Nat
      BY <2>4, ConcatProperties, LenProperties
    <2>9. \A k \in 1 .. Len(kept) + Len(q) : p[k] = IF k <= Len(kept) THEN kept[k] ELSE q[k - Len(kept)]
      BY <2>4, ConcatProperties
    <2>10. kept \o g = p \o h
      <3>1. kept \o (q \o h) = (kept \o q) \o h
        BY <2>4, <2>5, RegroupBytes
      <3>2. QED
        BY <2>7, <3>1
    <2> HIDE DEF p
    <2>11. Len(p) # 0 /\ p[Len(p)] = "n"
      <3>1. /\ Len(p) \in 1 .. Len(kept) + Len(q) /\ ~(Len(p) <= Len(kept)) /\ Len(p) - Len(kept) = j
            /\ j \in 1 .. j
        BY <2>1, <2>4, <2>8
      <3>2. p[Len(p)] = q[j]
        BY <2>9, <3>1
      <3>3. q[j] = g[j]
        BY <2>4, <3>1
      <3>4. QED
        BY <2>2, <3>1, <3>2, <3>3
    <2>12. x.buffer = <<>>
      BY <2>8, <2>11, NothingKept
    <2>13. <<>> \o h = h
      BY <2>5, ConcatEmptySeq
    <2>14. consumeLines[p \o h] = LineJoin(x, consumeLines[x.buffer \o h])
      BY <2>5, <2>8, LinesInPieces
    <2>15. m = LineJoin(x, y)
      BY <2>10, <2>12, <2>13, <2>14
    <2>16. x.readings \in Seq(Seq(Bytes)) /\ y.readings \in Seq(Seq(Bytes))
      <3>1. x \in LineResults /\ y \in LineResults
        BY <2>5, <2>8, LinesDefined
      <3>2. QED
        BY <3>1 DEF LineResults
    <2>17. Kept(y.buffer) = y.buffer
      BY <1>4, <2>3, <2>5, KeptIs
    <2> HIDE DEF m, x, c
    <2>18. m.buffer = y.buffer /\ m.readings = x.readings \o y.readings
      <3> HIDE DEF y
      <3>1. QED
        BY <2>15, LinesJoined, Zenon
    <2>19. EndsWith(rs \o m.readings, y.readings, i)
      BY <2>1, <2>16, <2>18, EndsWithLast
    <2>20. QED
      BY <2>3, <2>17, <2>18, <2>19
  <1>8. QED
    BY <1>6, <1>7

-----------------------------------------------------------------------------
(* The read chain.                                                         *)

Read == SubSeq(stream, 1, fed)

\* The flash parser has done with what has arrived what it would do with it at
\* once, also in what it keeps; so has the line parser from every line start on
\* after which the lines fit.  Nothing arrives before start().
StreamInv ==
  /\ stream \in Seq(Bytes) /\ fed \in 0 .. Len(stream)
  /\ lineBuffer \in Seq(Bytes) /\ readings \in Seq(Seq(Bytes))
  /\ frameBuffer = consumeFrames[Read].buffer /\ frames_ = consumeFrames[Read].frames
  /\ InStep(consumeFrames[Read].text, lineBuffer, readings)
  /\ ToStart("serial") => fed = 0 /\ lineBuffer = <<>>

LEMMA NothingRead ==
  /\ consumeFrames[<<>>] = Unread(<<>>) /\ consumeLines[<<>>] = Unended(<<>>)
  <1>1. <<>> \in Seq(Bytes)
    BY EmptySeq
  <1>2. TooShort(<<>>) /\ EndsOf(<<>>) = {}
    BY DEF TooShort, EndsOf
  <1>3. consumeFrames[<<>>] = Unread(<<>>)
    BY <1>1, <1>2, FramesDefined
  <1>4. consumeLines[<<>>] = Unended(<<>>)
    BY <1>1, <1>2, LinesDefined
  <1>5. QED
    BY <1>3, <1>4

\* What has been read, before anything arrived.
LEMMA FirstRead ==
  ASSUME stream \in Seq(Bytes), fed = 0
  PROVE  /\ consumeFrames[Read].buffer = <<>> /\ consumeFrames[Read].frames = <<>>
         /\ InStep(consumeFrames[Read].text, <<>>, <<>>)
  <1>1. Read = <<>>
    BY SubSeqEmpty DEF Read
  <1>2. consumeFrames[Read].text = <<>> /\ consumeFrames[Read].buffer = <<>>
        /\ consumeFrames[Read].frames = <<>>
    BY <1>1, NothingRead DEF Unread
  <1>3. consumeLines[<<>>].buffer = <<>> /\ consumeLines[<<>>].readings = <<>>
    BY NothingRead DEF Unended
  <1>4. InStep(<<>>, <<>>, <<>>)
    <2>1. <<>> \in Seq(Bytes) /\ Len(<<>>) = 0
      BY EmptySeq
    <2>2. LineStarts(<<>>) = {0}
      BY <2>1 DEF LineStarts
    <2>3. Drop(<<>>, 0) = <<>>
      BY <2>1, SubSeqEmpty DEF Drop
    <2>4. 0 \in 0 .. Len(<<>>)
      BY <2>1
    <2>5. EndsWith(<<>>, <<>>, 0)
      BY <2>3, <2>4 DEF EndsWith
    <2>6. QED
      BY <1>3, <2>2, <2>3, <2>5 DEF InStep
  <1>5. QED
    BY <1>2, <1>4

LEMMA StreamStarts == Init => StreamInv
  <1> SUFFICES ASSUME Init PROVE StreamInv
    OBVIOUS
  <1>1. /\ fed = 0 /\ frameBuffer = <<>> /\ lineBuffer = <<>> /\ frames_ = <<>> /\ readings = <<>>
        /\ stream \in Streams \cup {<<>>}
    BY DEF Init, SerialInit
  <1>2. stream \in Seq(Bytes)
    BY <1>1, SerialAssumption, EmptySeq
  <1>3. Len(stream) \in Nat
    BY <1>2, LenProperties
  <1>4. <<>> \in Seq(Bytes) /\ <<>> \in Seq(Seq(Bytes))
    BY EmptySeq
  <1>5. QED
    BY <1>1, <1>2, <1>3, <1>4, FirstRead DEF StreamInv

\* What two results joined hold, for the frames.
LEMMA FramesJoined ==
  \A f, g, r : r = FrameJoin(f, g) =>
                 /\ r.buffer = g.buffer /\ r.frames = f.frames \o g.frames
                 /\ r.text = f.text \o g.text
  <1>1. ASSUME NEW f, NEW g
        PROVE  /\ FrameJoin(f, g).buffer = g.buffer /\ FrameJoin(f, g).frames = f.frames \o g.frames
               /\ FrameJoin(f, g).text = f.text \o g.text
    BY DEF FrameJoin
  <1>2. QED
    BY <1>1, Zenon

\* One chunk more.
LEMMA ChunkRead ==
  ASSUME StreamInv, NEW n \in 1 .. (Len(stream) - fed), fed' = fed + n, stream' = stream,
         routeChunk(SubSeq(stream, fed + 1, fed + n)), ~ToStart("serial")'
  PROVE  StreamInv'
  <1> DEFINE a == Read
             b == SubSeq(stream, fed + 1, fed + n)
             f == consumeFrames[a]
             g == consumeFrames[f.buffer \o b]
             m == consumeLines[lineBuffer \o g.text]
  <1>1. stream \in Seq(Bytes) /\ fed \in 0 .. Len(stream) /\ Len(stream) \in Nat
    BY LenProperties DEF StreamInv
  <1>i. \A i \in 1 .. Len(stream) : stream[i] \in Bytes
    BY <1>1, ElementOfSeq
  <1>2. a \in Seq(Bytes) /\ Len(a) = fed /\ \A i \in 1 .. fed : a[i] = stream[i]
    <2>1. 1 \in Int /\ fed \in Int /\ \A i \in 1 .. fed : stream[i] \in Bytes
      BY <1>1, <1>i
    <2>2. a \in Seq(Bytes) /\ Len(a) = IF 1 <= fed THEN fed - 1 + 1 ELSE 0
      BY <2>1, SubSeqProperties DEF Read
    <2>3. \A i \in 1 .. fed - 1 + 1 : a[i] = stream[1 + i - 1]
      BY <2>1, SubSeqProperties DEF Read
    <2> HIDE DEF a
    <2>4. QED
      BY <1>1, <2>2, <2>3
  <1>3. b \in Seq(Bytes) /\ Len(b) = n /\ \A i \in 1 .. n : b[i] = stream[fed + i]
    <2>1. fed + 1 \in Int /\ fed + n \in Int /\ \A i \in fed + 1 .. fed + n : stream[i] \in Bytes
      BY <1>1, <1>i
    <2>2. b \in Seq(Bytes) /\ Len(b) = IF fed + 1 <= fed + n THEN (fed + n) - (fed + 1) + 1 ELSE 0
      BY <2>1, SubSeqProperties
    <2>3. \A i \in 1 .. (fed + n) - (fed + 1) + 1 : b[i] = stream[(fed + 1) + i - 1]
      BY <2>1, SubSeqProperties
    <2> HIDE DEF b
    <2>4. Len(b) = n
      BY <1>1, <2>2
    <2>5. \A i \in 1 .. n : i \in 1 .. (fed + n) - (fed + 1) + 1 /\ (fed + 1) + i - 1 = fed + i
      BY <1>1
    <2>6. QED
      BY <2>2, <2>3, <2>4, <2>5
  <1>4. Read' = a \o b
    <2> DEFINE c == SubSeq(stream, 1, fed + n)
               d == a \o b
    <2>1. 1 \in Int /\ fed + n \in Int /\ \A i \in 1 .. fed + n : stream[i] \in Bytes
      BY <1>1, <1>i
    <2>2. c \in Seq(Bytes) /\ Len(c) = IF 1 <= fed + n THEN (fed + n) - 1 + 1 ELSE 0
      BY <2>1, SubSeqProperties
    <2>3. \A i \in 1 .. (fed + n) - 1 + 1 : c[i] = stream[1 + i - 1]
      BY <2>1, SubSeqProperties
    <2>4. Read' = c
      BY DEF Read
    <2> HIDE DEF a, b, c
    <2>5. d \in Seq(Bytes) /\ Len(d) = fed + n
      BY <1>2, <1>3, ConcatProperties
    <2>6. \A i \in 1 .. Len(a) + Len(b) : d[i] = IF i <= Len(a) THEN a[i] ELSE b[i - Len(a)]
      BY <1>2, <1>3, ConcatProperties
    <2> HIDE DEF d
    <2>7. Len(c) = fed + n
      BY <1>1, <2>2
    <2>8. ASSUME NEW i \in 1 .. Len(c) PROVE c[i] = d[i]
      <3>1. i \in 1 .. (fed + n) - 1 + 1 /\ 1 + i - 1 = i /\ i \in 1 .. Len(a) + Len(b)
        BY <1>1, <1>2, <1>3, <2>7
      <3>2. c[i] = stream[i]
        BY <2>3, <3>1
      <3>3. CASE i <= Len(a)
        <4>1. i \in 1 .. fed
          BY <1>1, <1>2, <3>1, <3>3
        <4>2. QED
          BY <1>2, <2>6, <3>1, <3>2, <3>3, <4>1
      <3>4. CASE ~(i <= Len(a))
        <4>1. i - Len(a) \in 1 .. n /\ fed + (i - Len(a)) = i
          BY <1>1, <1>2, <1>3, <3>1, <3>4
        <4>2. QED
          BY <1>3, <2>6, <3>1, <3>2, <3>4, <4>1
      <3>5. QED
        BY <3>3, <3>4
    <2>9. c = d
      BY <2>2, <2>5, <2>7, <2>8, SeqEqual
    <2>10. QED
      BY <2>4, <2>9 DEF d
  <1>5. f \in FrameResults /\ f.buffer \in Seq(Bytes) /\ f.text \in Seq(Bytes)
    <2>1. f \in FrameResults
      BY <1>2, FramesDefined
    <2>2. QED
      BY <2>1 DEF FrameResults
  <1>6. consumeFrames[a \o b] = FrameJoin(f, g)
    BY <1>2, <1>3, FramesInPieces
  <1>7. g \in FrameResults /\ g.text \in Seq(Bytes)
    <2>1. f.buffer \o b \in Seq(Bytes)
      BY <1>3, <1>5, ConcatProperties
    <2>2. g \in FrameResults
      BY <2>1, FramesDefined
    <2>3. QED
      BY <2>2 DEF FrameResults
  <1>9. /\ frameBuffer = f.buffer /\ frames_ = f.frames
        /\ lineBuffer \in Seq(Bytes) /\ readings \in Seq(Seq(Bytes))
        /\ InStep(f.text, lineBuffer, readings)
    BY DEF StreamInv
  <1>8. InStep(f.text \o g.text, Kept(m.buffer), readings \o m.readings)
    BY <1>5, <1>7, <1>9, InStepMore
  <1>10. /\ frameBuffer' = g.buffer /\ lineBuffer' = Kept(m.buffer)
         /\ frames_' = f.frames \o g.frames /\ readings' = readings \o m.readings
    BY <1>9 DEF routeChunk
  <1>11. fed' \in 0 .. Len(stream')
    BY <1>1
  <1>m. Kept(m.buffer) \in Seq(Bytes) /\ m.readings \in Seq(Seq(Bytes))
    <2>1. lineBuffer \o g.text \in Seq(Bytes)
      BY <1>7, <1>9, ConcatProperties
    <2>2. m \in LineResults
      BY <2>1, LinesDefined
    <2>3. m.buffer \in Seq(Bytes) /\ m.readings \in Seq(Seq(Bytes)) /\ <<>> \in Seq(Bytes)
      BY <2>2, EmptySeq DEF LineResults
    <2>4. QED
      BY <2>3 DEF Kept
  <1> HIDE DEF a, b, f, g, m
  <1>n. readings \o m.readings \in Seq(Seq(Bytes))
    BY <1>9, <1>m, ConcatProperties
  <1>12. consumeFrames[Read'] = FrameJoin(f, g)
    BY <1>4, <1>6
  <1>13. /\ consumeFrames[Read'].buffer = g.buffer /\ consumeFrames[Read'].frames = f.frames \o g.frames
         /\ consumeFrames[Read'].text = f.text \o g.text
    BY <1>12, FramesJoined, Zenon
  <1>14. InStep(consumeFrames[Read'].text, lineBuffer', readings')
    BY <1>8, <1>10, <1>13
  <1>15. QED
    BY <1>1, <1>10, <1>11, <1>13, <1>14, <1>m, <1>n DEF StreamInv, InStep

\* Nothing arrives and start() is not called.
LEMMA StreamKept ==
  ASSUME StreamInv, UNCHANGED <<stream, fed, frameBuffer, lineBuffer, frames_, readings>>,
         ToStart("serial")' => ToStart("serial")
  PROVE  StreamInv'
  BY DEF StreamInv, Read, InStep

LEMMA StreamStep ==
  ASSUME LifeInv, StreamInv, [Next]_all
  PROVE  StreamInv'
  <1>1. ToStart("serial")' => ToStart("serial")
    <2>1. CASE Next
      BY <2>1, NextMove, MoveOfManager, StartsOnce DEF LifeInv
    <2>2. CASE UNCHANGED all
      BY <2>2 DEF all, life, ToStart
    <2>3. QED
      BY <2>1, <2>2
  <1>2. CASE UNCHANGED serial
    BY <1>1, <1>2, StreamKept DEF serial
  <1>3. CASE serialStart
    <2>1. ToStart("serial")
      BY <1>3, CallIsFresh, OrderFacts DEF serialStart, LifeInv
    <2>2. fed = 0 /\ lineBuffer = <<>> /\ stream \in Seq(Bytes)
      BY <2>1 DEF StreamInv
    <2>3. /\ frameBuffer' = <<>> /\ lineBuffer' = <<>> /\ frameBuffer = <<>> /\ lineBuffer = <<>>
          /\ UNCHANGED <<stream, fed, frames_, readings>>
      BY <1>3, <2>2, FirstRead DEF serialStart, StreamInv
    <2>4. QED
      BY <1>1, <2>3, StreamKept
  <1>4. CASE armRead
    <2>1. thread["serial"] = "live" /\ UNCHANGED life /\ stream' = stream
      BY <1>4 DEF armRead
    <2>2. PICK n \in 1 .. (Len(stream) - fed) :
            routeChunk(SubSeq(stream, fed + 1, fed + n)) /\ fed' = fed + n
      BY <1>4 DEF armRead
    <2>3. ~ToStart("serial")
      BY <2>1, OrderFacts DEF LifeInv, FreshInv
    <2>4. ~ToStart("serial")'
      BY <1>1, <2>3
    <2>5. QED
      BY <2>1, <2>2, <2>4, ChunkRead
  <1>5. CASE KeepParsers
    BY <1>1, <1>5, StreamKept DEF KeepParsers
  <1>6. CASE SerialNext
    BY <1>2, <1>3, <1>4, <1>5, <1>6
    DEF SerialNext, registerSerialBackend, serialReadFails, send, Enqueue, writeNext, WriteFails,
        serialStop, serialRunIoLoop, serialRunsDry, serialJoin
  <1>7. QED
    BY <1>2, <1>6 DEF Next, all

\* However the port cuts the stream into chunks, the frame sink gets the frames
\* the stream holds, and the reading sink, from every line start on after which
\* no line is longer than kMaxBufferBytes, exactly the readings of the text from
\* there: for every byte stream, every way to cut it and all sizes of header,
\* trailer, payload and line buffer (FlashFrameParser::consume,
\* SerialFrameParser::consume, SerialBackend::routeChunk).
THEOREM ChunksAreInvisible == Spec => []ChunkingInvisible
  <1>1. LifeInv /\ StreamInv /\ [Next]_all => StreamInv'
    BY StreamStep
  <1>2. StreamInv => ChunkingInvisible
    BY DEF StreamInv, ChunkingInvisible, InStep, EndsWith, Read
  <1>3. QED
    BY <1>1, <1>2, StreamStarts, LifeInvariant, PTL DEF Spec
=============================================================================
