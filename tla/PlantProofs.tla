---------------------------- MODULE PlantProofs ----------------------------
(***************************************************************************)
(* Two parts that meet at the plant's model.                               *)
(*                                                                         *)
(* The Modbus ingest path, for every register map and queue depth: one     *)
(* consumer at a time, and a stop() that loses no accepted sample.         *)
(*                                                                         *)
(* The production model and its presenter, for any threads, lines and      *)
(* checkpoints: while only the GUI thread commands the model, the panel    *)
(* and the alarms tell the truth whenever the threads are at rest.         *)
(***************************************************************************)
EXTENDS ModbusPollLoop, ProductionModel, SequenceTheorems, TLAPS

-----------------------------------------------------------------------------
(* The Modbus ingest path.                                                 *)

\* TypeOK without the Booleans, and with what the threads rely on: a walk is
\* at an entry of the map or past its end.
StateOK ==
  /\ device \in [Registers -> Values]
  /\ poll \in {"none", "top", "walk", "exited"} /\ at \in 0 .. Len(RegisterMap) + 1
  /\ poll = "walk" => at # 0
  /\ queue \in Seq(Samples) /\ Len(queue) <= QueueDepth
  /\ drain \in {"none", "top", "pop", "check", "wait", "exited"}
  /\ hand \in Samples \cup {None}
  /\ lastPushed \in [Registers -> Values \cup {None}]
  /\ cached \in [Registers -> Values \cup {None}]
  /\ shown \in [Registers -> Values]
  /\ owned \subseteq RateRegisters /\ held \subseteq Registers
  /\ ctl \in {"stopped", "spawning", "running", "joinPoll", "joinDrain", "flush"}

FlagsOK == pollStop \in BOOLEAN /\ drainStop \in BOOLEAN /\ ready \in BOOLEAN

LEMMA Constants ==
  /\ RegisterMap \in Seq(Registers) /\ Len(RegisterMap) \in Nat
  /\ RateRegisters \subseteq Registers
  /\ Demo \in Values /\ None \notin Values /\ None \notin Samples
  /\ QueueDepth \in Nat
  BY ModbusConstants, LenProperties

LEMMA SampleIs ==
  ASSUME NEW s \in Samples
  PROVE  s.register \in Registers /\ s.value \in Values
  BY DEF Samples

LEMMA SampleMade ==
  ASSUME NEW r \in Registers, NEW v \in Values
  PROVE  /\ [register |-> r, value |-> v] \in Samples
         /\ [register |-> r, value |-> v].register = r
         /\ [register |-> r, value |-> v].value = v
  BY DEF Samples

LEMMA QueueParts ==
  ASSUME NEW s \in Seq(Samples)
  PROVE  /\ Len(s) \in Nat
         /\ \A i \in 1 .. Len(s) : s[i] \in Samples
         /\ s # <<>> => /\ Head(s) \in Samples /\ Head(s) = s[1] /\ Len(s) >= 1
                        /\ Tail(s) \in Seq(Samples) /\ Len(Tail(s)) = Len(s) - 1
                        /\ \A i \in 1 .. Len(s) - 1 : Tail(s)[i] = s[i + 1]
  <1>1. Len(s) \in Nat /\ \A i \in 1 .. Len(s) : s[i] \in Samples
    BY LenProperties, ElementOfSeq
  <1>2. ASSUME s # <<>>
        PROVE  /\ Head(s) \in Samples /\ Tail(s) \in Seq(Samples) /\ Len(Tail(s)) = Len(s) - 1
               /\ \A i \in 1 .. Len(s) - 1 : Tail(s)[i] = s[i + 1]
    BY <1>2, HeadTailProperties
  <1>3. s # <<>> => Head(s) = s[1] /\ Len(s) >= 1
    BY <1>1
  <1>4. QED
    BY <1>1, <1>2, <1>3

LEMMA EntryIs ==
  ASSUME StateOK, Reading
  PROVE  Entry \in Registers
  <1>1. at \in 1 .. Len(RegisterMap)
    BY Constants DEF StateOK, Reading
  <1>2. QED
    BY <1>1, Constants, ElementOfSeq DEF Entry

\* The bridge's call into the model.
LEMMA BridgeTyped ==
  ASSUME StateOK, NEW s \in Samples, OnRegisterChanged(s)
  PROVE  /\ cached' = [cached EXCEPT ![s.register] = s.value]
         /\ cached' \in [Registers -> Values \cup {None}]
         /\ shown' \in [Registers -> Values]
         /\ owned' \subseteq RateRegisters /\ held' \subseteq Registers
  <1>1. s.register \in Registers /\ s.value \in Values
    BY SampleIs
  <1>2. cached' = [cached EXCEPT ![s.register] = s.value]
    BY DEF OnRegisterChanged
  <1>3. CASE UNCHANGED <<shown, owned, held>>
    BY <1>1, <1>2, <1>3 DEF StateOK
  <1>4. CASE /\ shown' = [shown EXCEPT ![s.register] = s.value]
             /\ held' = held \cup {s.register}
             /\ owned' = owned \cup ({s.register} \cap RateRegisters)
    BY <1>1, <1>2, <1>4 DEF StateOK
  <1>5. QED
    BY <1>3, <1>4, Zenon DEF OnRegisterChanged, Store

-----------------------------------------------------------------------------
(* Which thread is where.                                                  *)

\* The poll thread exists between its start and its join; a popped sample is
\* in the drain thread's hand only inside drainOnce(); nobody is left when
\* stop() drains what remains.
PhaseInv ==
  /\ OneConsumer
  /\ ctl \in {"spawning", "joinDrain"} => poll = "none"
  /\ hand # None => drain = "pop"
  /\ ctl = "stopped" => queue = <<>>

LEMMA InitOK == Init => StateOK /\ PhaseInv
  BY Constants DEF Init, StateOK, PhaseInv, OneConsumer

LEMMA StepOK ==
  ASSUME StateOK, PhaseInv, [Next]_vars
  PROVE  StateOK' /\ PhaseInv'
  <1>1. CASE ReadFails
    BY <1>1, Constants DEF ReadFails, Reading, consumer, domain, StateOK, PhaseInv, OneConsumer
  <1>2. CASE ReadSucceeds
    <2> DEFINE sample == [register |-> Entry, value |-> device[Entry]]
    <2>1. Entry \in Registers /\ device[Entry] \in Values
      BY <1>2, EntryIs DEF ReadSucceeds, StateOK
    <2>2. sample \in Samples
      BY <2>1, SampleMade
    <2>3. /\ at' = at + 1 /\ at <= Len(RegisterMap) /\ poll = "walk"
          /\ UNCHANGED <<device, poll, drain, hand, cached, shown, owned, held, ctl>>
      BY <1>2 DEF ReadSucceeds, Reading, domain, Fifo!Push
    <2>4. /\ lastPushed' \in [Registers -> Values \cup {None}]
      BY <1>2, <2>1 DEF ReadSucceeds, StateOK
    <2>5. queue' \in Seq(Samples) /\ Len(queue') <= QueueDepth
      <3>1. CASE Fifo!Push(sample)
        BY <2>2, <3>1, Constants, QueueParts DEF Fifo!Push, StateOK
      <3>2. CASE UNCHANGED queue
        BY <3>2 DEF StateOK
      <3>3. QED
        BY <1>2, <3>1, <3>2 DEF ReadSucceeds
    <2>6. ctl # "stopped"
      BY <2>3 DEF PhaseInv, OneConsumer
    <2>7. QED
      BY <2>3, <2>4, <2>5, <2>6, Constants DEF StateOK, PhaseInv, OneConsumer
  <1>3. CASE PollNotify \/ PollWake
    BY <1>3, Constants
    DEF PollNotify, PollWake, consumer, domain, StateOK, PhaseInv, OneConsumer
  <1>4. CASE DrainLoop \/ DrainEmpty \/ DrainCheck \/ DrainTimeout
    BY <1>4 DEF DrainLoop, DrainEmpty, DrainCheck, DrainTimeout, producer, domain, StateOK,
                PhaseInv, OneConsumer
  <1>5. CASE DrainPop
    <2>1. /\ drain = "pop" /\ queue # <<>> /\ hand' = Head(queue) /\ queue' = Tail(queue)
          /\ UNCHANGED <<device, poll, at, drain, lastPushed, cached, shown, owned, held, ctl>>
      BY <1>5 DEF DrainPop, producer, domain, Fifo!Pop
    <2>2. hand' \in Samples /\ queue' \in Seq(Samples) /\ Len(queue') <= QueueDepth
      BY <2>1, QueueParts, Constants DEF StateOK
    <2>3. QED
      BY <2>1, <2>2 DEF StateOK, PhaseInv, OneConsumer
  <1>6. CASE DrainDispatch
    <2>1. /\ hand \in Samples /\ OnRegisterChanged(hand) /\ hand' = None
          /\ UNCHANGED <<device, poll, at, queue, drain, lastPushed, ctl>>
      BY <1>6 DEF DrainDispatch, producer, StateOK
    <2>2. QED
      BY <2>1, BridgeTyped DEF StateOK, PhaseInv, OneConsumer
  <1>7. CASE Start \/ SpawnPoll \/ Stop \/ JoinPoll \/ JoinDrain \/ StopReturns
    BY <1>7, Constants
    DEF Start, SpawnPoll, Stop, JoinPoll, JoinDrain, StopReturns, producer, consumer, domain,
        StateOK, PhaseInv, OneConsumer
  <1>8. CASE Flush
    <2>1. /\ ctl = "flush" /\ queue # <<>> /\ OnRegisterChanged(Head(queue)) /\ queue' = Tail(queue)
          /\ UNCHANGED <<device, poll, at, drain, hand, lastPushed, ctl>>
      BY <1>8 DEF Flush, producer, consumer
    <2>2. Head(queue) \in Samples /\ queue' \in Seq(Samples) /\ Len(queue') <= QueueDepth
      BY <2>1, QueueParts, Constants DEF StateOK
    <2>3. QED
      BY <2>1, <2>2, BridgeTyped DEF StateOK, PhaseInv, OneConsumer
  <1>9. CASE InitializeDemoData \/ SimulationTick \/ RegisterChanges
    BY <1>9, Constants
    DEF InitializeDemoData, SimulationTick, RegisterChanges, producer, consumer, domain, StateOK,
        PhaseInv, OneConsumer
  <1>10. CASE OtherWriter
    <2>1. /\ shown' \in [Registers -> Values]
          /\ owned' \subseteq RateRegisters /\ held' \subseteq Registers
      BY <1>10 DEF OtherWriter, Store, StateOK
    <2>2. QED
      BY <1>10, <2>1 DEF OtherWriter, producer, consumer, StateOK, PhaseInv, OneConsumer
  <1>11. CASE UNCHANGED vars
    BY <1>11 DEF vars, producer, consumer, domain, StateOK, PhaseInv, OneConsumer
  <1>12. QED
    BY <1>1, <1>2, <1>3, <1>4, <1>5, <1>6, <1>7, <1>8, <1>9, <1>10, <1>11
    DEF Next, PollThread, DrainThread, Stopping

\* stop() and the drain thread never consume side by side: SpscQueue and the
\* bridge's cache stay with one consumer through any number of starts and stops.
THEOREM OneConsumerAtATime == Spec => []OneConsumer
  BY InitOK, StepOK, PTL DEF Spec, PhaseInv

\* Every state of the two threads, the bridge and the controller is well typed.
THEOREM TypeInvariant == Spec => []TypeOK
  <1>1. Init => FlagsOK
    BY Zenon DEF Init, FlagsOK
  <1>2. ASSUME FlagsOK, [Next]_vars
        PROVE  FlagsOK'
    <2>1. CASE UNCHANGED <<pollStop, drainStop>>
      <3>1. CASE InitializeDemoData
        BY <1>2, <2>1, <3>1, Zenon DEF InitializeDemoData, FlagsOK
      <3>2. CASE ~InitializeDemoData
        <4>1. UNCHANGED ready
          BY <1>2, <3>2
          DEF Next, PollThread, DrainThread, Stopping, ReadFails, ReadSucceeds, PollNotify, PollWake,
              DrainLoop, DrainPop, DrainDispatch, DrainEmpty, DrainCheck, DrainTimeout, Start,
              SpawnPoll, Stop, JoinPoll, JoinDrain, Flush, StopReturns, SimulationTick,
              OtherWriter, RegisterChanges, OnRegisterChanged, domain, vars
        <4>2. QED
          BY <1>2, <2>1, <4>1, Zenon DEF FlagsOK
      <3>3. QED
        BY <3>1, <3>2
    <2>2. CASE Start \/ SpawnPoll \/ Stop \/ JoinPoll
      BY <1>2, <2>2, Zenon
      DEF Start, SpawnPoll, Stop, JoinPoll, producer, consumer, domain, FlagsOK
    <2>3. CASE ~(Start \/ SpawnPoll \/ Stop \/ JoinPoll)
      <3>1. UNCHANGED <<pollStop, drainStop>>
        BY <1>2, <2>3
        DEF Next, PollThread, DrainThread, Stopping, ReadFails, ReadSucceeds, PollNotify, PollWake,
            DrainLoop, DrainPop, DrainDispatch, DrainEmpty, DrainCheck, DrainTimeout, JoinDrain,
            Flush, StopReturns, InitializeDemoData, SimulationTick, OtherWriter, RegisterChanges,
            producer, consumer, vars
      <3>2. QED
        BY <2>1, <3>1
    <2>4. QED
      BY <2>2, <2>3
  <1>3. StateOK /\ FlagsOK => TypeOK
    BY DEF StateOK, FlagsOK, TypeOK
  <1>4. QED
    BY <1>1, <1>2, <1>3, InitOK, StepOK, PTL DEF Spec

-----------------------------------------------------------------------------
(* What is on its way to the bridge.                                       *)

\* The i-th sample is the newest of its register in the queue.
NewestAt(r, i) ==
  /\ queue[i].register = r
  /\ \A j \in 1 .. Len(queue) : j > i => queue[j].register # r
Absent(r) == \A i \in 1 .. Len(queue) : queue[i].register # r

\* Behind the queue: the sample in the drain thread's hand, or else the cache.
Delivered(r) ==
  IF hand # None /\ hand.register = r THEN hand.value = lastPushed[r] ELSE cached[r] = lastPushed[r]

\* The newest accepted sample of a register is the last one of it in the queue,
\* or, when the queue has none, what was taken from the queue last.
NothingLost ==
  \A r \in Registers :
    /\ \A i \in 1 .. Len(queue) : NewestAt(r, i) => queue[i].value = lastPushed[r]
    /\ Absent(r) => Delivered(r)

\* The head of the queue is the newest of its register, or a newer one is
\* behind it.
LEMMA HeadLeaves ==
  ASSUME StateOK, NothingLost, queue # <<>>, queue' = Tail(queue), UNCHANGED lastPushed,
         NEW r \in Registers
  PROVE  /\ \A i \in 1 .. Len(queue)' : NewestAt(r, i)' => queue[i]'.value = lastPushed'[r]
         /\ Absent(r)' => IF Head(queue).register = r THEN Head(queue).value = lastPushed'[r]
                          ELSE Absent(r)
  <1>1. /\ Len(queue) \in Nat /\ Len(queue) >= 1 /\ Len(queue') = Len(queue) - 1
        /\ \A i \in 1 .. Len(queue) - 1 : queue'[i] = queue[i + 1]
        /\ Head(queue) = queue[1]
    BY QueueParts DEF StateOK
  <1>2. ASSUME NEW i \in 1 .. Len(queue'), NewestAt(r, i)'
        PROVE  queue'[i].value = lastPushed'[r]
    <2>1. i + 1 \in 1 .. Len(queue) /\ queue'[i] = queue[i + 1]
      BY <1>1
    <2>2. ASSUME NEW j \in 1 .. Len(queue), j > i + 1
          PROVE  queue[j].register # r
      <3>1. j - 1 \in 1 .. Len(queue') /\ j - 1 > i /\ queue'[j - 1] = queue[(j - 1) + 1]
        BY <1>1, <2>1, <2>2
      <3>2. (j - 1) + 1 = j
        OBVIOUS
      <3>3. QED
        BY <1>2, <3>1, <3>2 DEF NewestAt
    <2>3. NewestAt(r, i + 1)
      BY <1>2, <2>1, <2>2 DEF NewestAt
    <2>4. QED
      BY <2>1, <2>3 DEF NothingLost
  <1>3. ASSUME Absent(r)', NEW j \in 2 .. Len(queue)
        PROVE  queue[j].register # r
    <2>1. j - 1 \in 1 .. Len(queue') /\ queue'[j - 1] = queue[(j - 1) + 1] /\ (j - 1) + 1 = j
      BY <1>1
    <2>2. QED
      BY <1>3, <2>1 DEF Absent
  <1>4. ASSUME Absent(r)', Head(queue).register = r
        PROVE  Head(queue).value = lastPushed'[r]
    <2>1. NewestAt(r, 1) /\ 1 \in 1 .. Len(queue)
      BY <1>1, <1>3, <1>4 DEF NewestAt
    <2>2. QED
      BY <1>1, <2>1 DEF NothingLost
  <1>5. ASSUME Absent(r)', Head(queue).register # r
        PROVE  Absent(r)
    BY <1>1, <1>3, <1>5 DEF Absent
  <1>6. QED
    BY <1>2, <1>4, <1>5

LEMMA PushKeeps ==
  ASSUME StateOK, NothingLost, NEW s \in Samples, queue' = Append(queue, s),
         lastPushed' = [lastPushed EXCEPT ![s.register] = s.value], UNCHANGED <<hand, cached>>
  PROVE  NothingLost'
  <1>1. /\ Len(queue) \in Nat /\ Len(queue') = Len(queue) + 1
        /\ \A i \in 1 .. Len(queue) : queue'[i] = queue[i]
        /\ queue'[Len(queue) + 1] = s
    BY QueueParts, AppendProperties DEF StateOK
  <1>2. s.register \in Registers
    BY SampleIs
  <1>3. ASSUME NEW r \in Registers, NEW i \in 1 .. Len(queue'), NewestAt(r, i)'
        PROVE  queue'[i].value = lastPushed'[r]
    <2>1. CASE i = Len(queue) + 1
      BY <1>1, <1>2, <1>3, <2>1 DEF NewestAt, StateOK
    <2>2. CASE i \in 1 .. Len(queue)
      <3>1. Len(queue) + 1 \in 1 .. Len(queue') /\ Len(queue) + 1 > i
        BY <1>1, <2>2
      <3>2. s.register # r
        BY <1>1, <1>3, <3>1 DEF NewestAt
      <3>3. NewestAt(r, i)
        BY <1>1, <1>3, <2>2 DEF NewestAt
      <3>4. QED
        BY <1>1, <1>2, <2>2, <3>2, <3>3 DEF NothingLost, StateOK
    <2>3. QED
      BY <1>1, <1>3, <2>1, <2>2
  <1>4. ASSUME NEW r \in Registers, Absent(r)'
        PROVE  Delivered(r)'
    <2>1. s.register # r /\ Absent(r)
      BY <1>1, <1>4 DEF Absent
    <2>2. lastPushed'[r] = lastPushed[r] /\ Delivered(r)
      BY <1>2, <1>4, <2>1 DEF StateOK, NothingLost
    <2>3. QED
      BY <2>2 DEF Delivered
  <1>5. QED
    BY <1>3, <1>4 DEF NothingLost

LEMMA StepLosesNothing ==
  ASSUME StateOK, PhaseInv, NothingLost, [Next]_vars
  PROVE  NothingLost'
  <1>1. CASE UNCHANGED <<queue, hand, cached, lastPushed>>
    BY <1>1 DEF NothingLost, NewestAt, Absent, Delivered
  <1>2. CASE ReadSucceeds
    <2> DEFINE sample == [register |-> Entry, value |-> device[Entry]]
    <2>1. Entry \in Registers /\ device[Entry] \in Values
      BY <1>2, EntryIs DEF ReadSucceeds, StateOK
    <2>2. sample \in Samples /\ sample.register = Entry /\ sample.value = device[Entry]
      BY <2>1, SampleMade
    <2>3. UNCHANGED <<hand, cached>>
      BY <1>2 DEF ReadSucceeds, domain, Fifo!Push
    <2> HIDE DEF sample
    <2>4. CASE /\ queue' = Append(queue, sample)
               /\ lastPushed' = [lastPushed EXCEPT ![sample.register] = sample.value]
      BY <2>2, <2>3, <2>4, PushKeeps
    <2>5. QED
      BY <1>1, <1>2, <2>2, <2>3, <2>4 DEF ReadSucceeds, Fifo!Push, sample
  <1>3. CASE DrainPop
    <2>1. /\ hand = None /\ queue # <<>> /\ hand' = Head(queue) /\ queue' = Tail(queue)
          /\ UNCHANGED <<lastPushed, cached>>
      BY <1>3 DEF DrainPop, producer, domain, Fifo!Pop
    <2>2. hand' # None
      BY <2>1, QueueParts, Constants DEF StateOK
    <2>3. ASSUME NEW r \in Registers, Absent(r)'
          PROVE  Delivered(r)'
      BY <2>1, <2>2, <2>3, HeadLeaves DEF NothingLost, Delivered
    <2>4. QED
      BY <2>1, <2>3, HeadLeaves DEF NothingLost
  <1>4. CASE DrainDispatch
    <2>1. /\ hand \in Samples /\ hand # None /\ hand' = None
          /\ cached' = [cached EXCEPT ![hand.register] = hand.value]
          /\ UNCHANGED <<queue, lastPushed>>
      BY <1>4 DEF DrainDispatch, OnRegisterChanged, producer, StateOK
    <2>2. ASSUME NEW r \in Registers, Delivered(r)
          PROVE  Delivered(r)'
      BY <2>1, <2>2, SampleIs DEF Delivered, StateOK
    <2>3. QED
      BY <2>1, <2>2 DEF NothingLost, NewestAt, Absent
  <1>5. CASE Flush
    <2>1. /\ hand = None /\ hand' = None /\ queue # <<>> /\ queue' = Tail(queue)
          /\ cached' = [cached EXCEPT ![Head(queue).register] = Head(queue).value]
          /\ UNCHANGED lastPushed
      BY <1>5 DEF Flush, OnRegisterChanged, producer, consumer, PhaseInv, OneConsumer
    <2>2. Head(queue).register \in Registers
      BY <2>1, QueueParts, SampleIs DEF StateOK
    <2>3. ASSUME NEW r \in Registers, Absent(r)'
          PROVE  Delivered(r)'
      BY <2>1, <2>2, <2>3, HeadLeaves DEF NothingLost, Delivered, StateOK
    <2>4. QED
      BY <2>1, <2>3, HeadLeaves DEF NothingLost
  <1>6. CASE ~(ReadSucceeds \/ DrainPop \/ DrainDispatch \/ Flush)
    <2>1. UNCHANGED <<queue, hand, cached, lastPushed>>
      BY <1>6
      DEF Next, PollThread, DrainThread, Stopping, ReadFails, PollNotify, PollWake, DrainLoop,
          DrainEmpty, DrainCheck, DrainTimeout, Start, SpawnPoll, Stop, JoinPoll, JoinDrain,
          StopReturns, InitializeDemoData, SimulationTick, OtherWriter, RegisterChanges, producer,
          consumer, domain, vars
    <2>2. QED
      BY <1>1, <2>1
  <1>7. QED
    BY <1>2, <1>3, <1>4, <1>5, <1>6

\* When stop() has returned, the bridge has seen the newest accepted sample of
\* every register, for every register map and queue depth.
THEOREM StopLosesNothing == Spec => []CleanStopLosesNothing
  <1>1. Init => NothingLost
    BY DEF Init, NothingLost, Delivered
  <1>2. ASSUME StateOK, PhaseInv, NothingLost
        PROVE  CleanStopLosesNothing
    <2>1. SUFFICES ASSUME ctl = "stopped" PROVE queue = <<>> /\ cached = lastPushed
      BY DEF CleanStopLosesNothing
    <2>2. queue = <<>> /\ hand = None
      BY <1>2, <2>1 DEF PhaseInv, OneConsumer
    <2>3. \A r \in Registers : cached[r] = lastPushed[r]
      BY <1>2, <2>2 DEF NothingLost, Absent, Delivered
    <2>4. QED
      BY <1>2, <2>2, <2>3 DEF StateOK
  <1>3. QED
    BY <1>1, <1>2, InitOK, StepOK, StepLosesNothing, PTL DEF Spec

\* The part of FollowsDevice that needs no fairness: a field that nobody wrote
\* after the bridge shows the value of the bridge's cache.
HeldFieldsShowCache == \A r \in held : shown[r] = cached[r]

\* What keeps it: the simulation spares the checkpoints somebody else feeds.
HeldInv ==
  /\ HeldFieldsShowCache
  /\ held \cap RateRegisters \subseteq owned
  /\ ready \/ held \cap RateRegisters = {}

LEMMA BridgeHolds ==
  ASSUME StateOK, HeldInv, NEW s \in Samples, OnRegisterChanged(s)
  PROVE  HeldInv'
  <1>1. s.register \in Registers /\ s.value \in Values /\ held \subseteq Registers
    BY SampleIs DEF StateOK
  <1>2. cached' = [cached EXCEPT ![s.register] = s.value]
    BY DEF OnRegisterChanged
  <1>3. CASE cached[s.register] = s.value
    BY <1>1, <1>2, <1>3 DEF OnRegisterChanged, HeldInv, HeldFieldsShowCache, StateOK
  <1>4. CASE s.register \in RateRegisters /\ ~ready /\ UNCHANGED <<shown, owned, held>>
    <2>1. s.register \notin held
      BY <1>4 DEF HeldInv
    <2>2. HeldFieldsShowCache'
      BY <1>1, <1>2, <1>4, <2>1 DEF HeldInv, HeldFieldsShowCache, StateOK
    <2>3. QED
      BY <1>4, <2>2 DEF OnRegisterChanged, HeldInv
  <1>5. CASE /\ ~(s.register \in RateRegisters /\ ~ready)
             /\ shown' = [shown EXCEPT ![s.register] = s.value]
             /\ held' = held \cup {s.register}
             /\ owned' = owned \cup ({s.register} \cap RateRegisters)
    <2>1. HeldFieldsShowCache'
      BY <1>1, <1>2, <1>5 DEF HeldInv, HeldFieldsShowCache, StateOK
    <2>2. QED
      BY <1>5, <2>1 DEF OnRegisterChanged, HeldInv
  <1>6. QED
    BY <1>3, <1>4, <1>5, Zenon DEF OnRegisterChanged, Store

\* Where the bridge wrote last, the model shows what the bridge saw last, for
\* every register map, though the simulation walks over the pass rates, others
\* write the same fields and rebuilt windows store the demo data again
\* (ModbusIngestBridge::onRegisterChanged, SimulatedModel::tickSimulation).
THEOREM HeldFieldsFollow == Spec => []HeldFieldsShowCache
  <1>1. Init => HeldInv
    BY DEF Init, HeldInv, HeldFieldsShowCache
  <1>2. ASSUME StateOK, PhaseInv, HeldInv, [Next]_vars
        PROVE  HeldInv'
    <2>1. CASE DrainDispatch
      <3>1. hand \in Samples
        BY <1>2, <2>1 DEF DrainDispatch, StateOK
      <3>2. QED
        BY <1>2, <2>1, <3>1, BridgeHolds DEF DrainDispatch
    <2>2. CASE Flush
      <3>1. Head(queue) \in Samples
        BY <1>2, <2>2, QueueParts DEF Flush, StateOK
      <3>2. QED
        BY <1>2, <2>2, <3>1, BridgeHolds DEF Flush
    <2>3. CASE InitializeDemoData
      BY <2>3 DEF InitializeDemoData, HeldInv, HeldFieldsShowCache
    <2>4. CASE SimulationTick
      BY <1>2, <2>4 DEF SimulationTick, HeldInv, HeldFieldsShowCache, StateOK
    <2>5. CASE OtherWriter
      <3>1. PICK r \in Registers, v \in Values : Store(r, v, held \ {r})
        BY <2>5 DEF OtherWriter
      <3>2. UNCHANGED <<cached, ready>>
        BY <2>5 DEF OtherWriter
      <3>3. CASE UNCHANGED <<shown, owned, held>>
        BY <1>2, <3>2, <3>3 DEF HeldInv, HeldFieldsShowCache
      <3>4. CASE /\ shown' = [shown EXCEPT ![r] = v]
                 /\ held' = held \ {r}
                 /\ owned' = owned \cup ({r} \cap RateRegisters)
        BY <1>2, <3>2, <3>4 DEF HeldInv, HeldFieldsShowCache, StateOK
      <3>5. QED
        BY <3>1, <3>3, <3>4, Zenon DEF Store
    <2>6. CASE ~(DrainDispatch \/ Flush \/ InitializeDemoData \/ SimulationTick \/ OtherWriter)
      <3>1. UNCHANGED domain
        BY <1>2, <2>6
        DEF Next, PollThread, DrainThread, Stopping, ReadFails, ReadSucceeds, PollNotify, PollWake,
            DrainLoop, DrainPop, DrainEmpty, DrainCheck, DrainTimeout, Start, SpawnPoll, Stop,
            JoinPoll, JoinDrain, StopReturns, RegisterChanges, domain, vars
      <3>2. QED
        BY <1>2, <3>1 DEF domain, HeldInv, HeldFieldsShowCache
    <2>7. QED
      BY <2>1, <2>2, <2>3, <2>4, <2>5, <2>6
  <1>3. QED
    BY <1>1, <1>2, InitOK, StepOK, PTL DEF Spec, HeldInv
-----------------------------------------------------------------------------
(* The production model.                                                   *)

\* Steps that come right after the step that asked for them, and steps that
\* only the GUI thread takes.
Immediate == {"enter", "compare", "line", "quality", "judge", "state", "seen", "show"}
GuiOnly ==
  {"process", "enter", "after", "compare", "notifyState", "state", "seen", "show",
   "clearCallbacks", "initialize", "demo"}
StartsOver == {"clearCallbacks", "initialize", "demo"}

\* Which steps are where in a thread's list.  What starts the model over is
\* followed by an announcement of every line, and a new presenter by one of
\* the state.
ListOK(t, s) ==
  /\ \A i \in 2 .. Len(s) : s[i].op \notin Immediate
  /\ t # Gui => \A i \in 1 .. Len(s) : s[i].op \notin GuiOnly
  /\ \A i \in 1 .. Len(s) : s[i].op \in StartsOver =>
       \A l \in ToSet(Lines) : \E j \in i + 1 .. Len(s) : s[j] = NotifyLine(l)
  /\ \A i \in 1 .. Len(s) : s[i].op \in {"clearCallbacks", "initialize"} =>
       \E j \in i + 1 .. Len(s) : s[j].op = "notifyState"
  /\ \A i \in 1 .. Len(s) : s[i].op = "clearCallbacks" =>
       i < Len(s) /\ s[i + 1].op = "initialize"
  /\ s # <<>> /\ s[1].op = "enter" => Len(s) >= 2 /\ s[2].op = "after"

ListsOK == \A t \in Threads : ListOK(t, todo[t])

\* Between clearCallbacks() and initialize() nobody listens; whoever is in a
\* callback of a presenter that is gone is another thread, and not in one
\* about the state.
WiringOK ==
  /\ wired = TRUE \/ At(Gui, "initialize")
  /\ \A t \in orphaned :
       t # Gui /\ todo[t] # <<>> /\ todo[t][1].op \in {"line", "quality", "judge"}

\* The copies of the state that the GUI thread works with are fresh, and the
\* observers, the presenter and the panel are behind only while it is about to
\* tell them.
StateHeard ==
  LET s == todo[Gui] IN
  /\ s # <<>> /\ s[1].op \in {"compare", "state", "seen", "show"} => s[1].of = sm
  /\ s # <<>> /\ s[1].op = "show" => prev = sm
  /\ lastNotified # sm => s # <<>> /\ s[1].op \in {"after", "compare"}
  /\ prev # lastNotified \/ panel # lastNotified =>
       \E i \in 1 .. Len(s) : s[i].op \in {"notifyState", "state", "seen", "show"}

\* The state the fault alarm was last decided by.
Judged == IF At(Gui, "seen") THEN Now(Gui).of ELSE prev

FaultAlarmOK ==
  /\ Judged = "ERROR" => SystemError \in reported \cup dismissed
  /\ SystemError \in reported => Judged = "ERROR" \/ abandoned = TRUE

\* A copy of a line's status is the status, unless the line was crossed.
CopiesFresh ==
  \A l \in ToSet(Lines) \ crossed : \A t \in Threads :
    At(t, "line") /\ Now(t).of = l => Now(t).value = status[l]

Announces(t, l) ==
  \/ \E i \in 1 .. Len(todo[t]) :
       todo[t][i].op \in {"setStatus", "notifyLine"} /\ todo[t][i].of = l
  \/ At(t, "line") /\ Now(t).of = l /\ t \notin orphaned

LineAlarmOK(l) ==
  IF status[l] = "Offline" THEN l \in reported \cup dismissed ELSE l \notin reported

\* A line whose alarm is wrong is about to be announced by some thread.
WrongIsAnnounced ==
  \A l \in ToSet(Lines) \ crossed :
    LineAlarmOK(l) \/ \E t \in Threads : Announces(t, l)

\* The inductive invariant.
PlantInv ==
  ListsOK /\ WiringOK /\ StateHeard /\ FaultAlarmOK /\ CopiesFresh /\ WrongIsAnnounced

\* ProductionTypeOK without the Booleans.
PlantTypes ==
  /\ sm \in States /\ lastNotified \in States
  /\ completed \in 0 .. Operations
  /\ status \in [ToSet(Lines) -> Statuses]
  /\ rate \in [ToSet(Checkpoints) -> Rates]
  /\ external \subseteq ToSet(Checkpoints)
  /\ prev \in States /\ panel \in States
  /\ reported \subseteq Keys /\ dismissed \subseteq Keys
  /\ todo \in [Threads -> Seq(Steps)] /\ crossed \subseteq ToSet(Lines)
  /\ orphaned \subseteq Threads

PlantFlags == wired \in BOOLEAN /\ abandoned \in BOOLEAN

\* Reading a step and making one.
LEMMA StepIs ==
  ASSUME NEW s \in Steps
  PROVE  /\ s.op \in {"enter", "compare", "state", "seen", "show"} => s.of \in States
         /\ s.op \in {"setStatus", "line"} => s.of \in ToSet(Lines) /\ s.value \in Statuses
         /\ s.op = "notifyLine" => s.of \in ToSet(Lines) /\ s = NotifyLine(s.of)
         /\ s.op \in {"setRate", "judge"} => s.of \in ToSet(Checkpoints) /\ s.value \in Rates
         /\ s.op \in {"notifyRate", "quality"} => s.of \in ToSet(Checkpoints)
  BY DEF Steps, NotifyLine, Step

LEMMA StepMade ==
  /\ \A e \in {"Start", "Stop", "Reset", "Calibrate", "Fault"} : Dispatch(e) \in Steps
  /\ \A name \in {"enter", "compare", "state", "seen", "show"}, s \in States :
       Step(name, s, Nothing) \in Steps
  /\ \A name \in {"setStatus", "line"}, l \in ToSet(Lines), s \in Statuses :
       Step(name, l, s) \in Steps
  /\ \A l \in ToSet(Lines) : NotifyLine(l) \in Steps
  /\ \A name \in {"setRate", "judge"}, c \in ToSet(Checkpoints), r \in Rates :
       Step(name, c, r) \in Steps
  /\ \A name \in {"notifyRate", "quality"}, c \in ToSet(Checkpoints) :
       Step(name, c, Nothing) \in Steps
  /\ \A name \in {"cycle", "zero", "tick", "demo", "after", "notifyState",
                  "clearCallbacks", "initialize"} : Step(name, Nothing, Nothing) \in Steps
  BY DEF Steps, Dispatch, NotifyLine, Step

LEMMA StepRead ==
  \A name, of, value :
    /\ Step(name, of, value).op = name
    /\ Step(name, of, value).of = of
    /\ Step(name, of, value).value = value
  BY DEF Step

-----------------------------------------------------------------------------
(* How a thread's list moves.                                              *)

LEMMA ListParts ==
  ASSUME NEW s \in Seq(Steps)
  PROVE  /\ Len(s) \in Nat
         /\ \A i \in 1 .. Len(s) : s[i] \in Steps
         /\ s # <<>> <=> Len(s) >= 1
         /\ s # <<>> => Head(s) = s[1]
  <1>1. Len(s) \in Nat /\ \A i \in 1 .. Len(s) : s[i] \in Steps
    BY LenProperties, ElementOfSeq
  <1>2. s # <<>> => Head(s) = s[1] /\ Len(s) >= 1
    BY <1>1, HeadTailProperties
  <1>3. QED
    BY <1>1, <1>2

\* The steps that take the place of the first one.
LEMMA ListMoves ==
  ASSUME NEW s \in Seq(Steps), s # <<>>, NEW steps \in Seq(Steps)
  PROVE  LET n == steps \o Tail(s) IN
         /\ n \in Seq(Steps)
         /\ Len(n) = Len(steps) + Len(s) - 1
         /\ \A i \in 1 .. Len(steps) : n[i] = steps[i]
         /\ \A i \in 2 .. Len(s) : n[Len(steps) + i - 1] = s[i]
         /\ \A j \in Len(steps) + 1 .. Len(n) : n[j] = s[j - Len(steps) + 1]
  <1> DEFINE r == Tail(s)
             n == steps \o r
  <1>1. r \in Seq(Steps) /\ Len(r) = Len(s) - 1 /\ \A i \in 1 .. Len(s) - 1 : r[i] = s[i + 1]
    BY HeadTailProperties, ListParts
  <1>2. Len(s) \in Nat /\ Len(s) >= 1 /\ Len(steps) \in Nat
    BY ListParts
  <1> HIDE DEF r
  <1>3. n \in Seq(Steps) /\ Len(n) = Len(steps) + Len(r)
    BY <1>1, ConcatProperties
  <1>4. \A i \in 1 .. Len(steps) + Len(r) :
          n[i] = IF i <= Len(steps) THEN steps[i] ELSE r[i - Len(steps)]
    BY <1>1, ConcatProperties
  <1> HIDE DEF n
  <1>5. \A i \in 1 .. Len(steps) : n[i] = steps[i]
    BY <1>1, <1>2, <1>4
  <1>6. ASSUME NEW j \in Len(steps) + 1 .. Len(n)
        PROVE  n[j] = s[j - Len(steps) + 1]
    <2>1. j \in Int /\ j - Len(steps) \in 1 .. Len(s) - 1 /\ j \in 1 .. Len(steps) + Len(r)
      BY <1>1, <1>2, <1>3
    <2>2. n[j] = r[j - Len(steps)]
      BY <1>2, <1>4, <2>1
    <2>3. QED
      BY <1>1, <2>1, <2>2
  <1>7. ASSUME NEW i \in 2 .. Len(s)
        PROVE  n[Len(steps) + i - 1] = s[i]
    <2>1. /\ i \in Int
          /\ Len(steps) + i - 1 \in Len(steps) + 1 .. Len(n)
          /\ (Len(steps) + i - 1) - Len(steps) + 1 = i
      BY <1>1, <1>2, <1>3
    <2>2. QED
      BY <1>6, <2>1
  <1>8. QED
    BY <1>1, <1>2, <1>3, <1>5, <1>6, <1>7 DEF n, r

\* Steps that may take the place of another one.
Follows(t, steps) ==
  /\ \A i \in 2 .. Len(steps) : steps[i].op \notin Immediate
  /\ t # Gui => \A i \in 1 .. Len(steps) : steps[i].op \notin GuiOnly
  /\ \A i \in 1 .. Len(steps) : steps[i].op \notin StartsOver
  /\ steps # <<>> /\ steps[1].op = "enter" => Len(steps) = 2 /\ steps[2].op = "after"
  /\ steps # <<>> /\ steps[1].op = "seen" => At(t, "state")
  /\ steps # <<>> /\ steps[1].op = "line" => At(t, "notifyLine")

LEMMA ListKept ==
  ASSUME NEW t, NEW s \in Seq(Steps), s # <<>>, ListOK(t, s),
         NEW steps \in Seq(Steps), Follows(t, steps)
  PROVE  ListOK(t, steps \o Tail(s))
  <1> DEFINE n == steps \o Tail(s)
             k == Len(steps)
  <1>0. Len(s) \in Nat /\ Len(s) >= 1 /\ k \in Nat /\ (steps # <<>> <=> k >= 1)
    BY ListParts
  <1>1. /\ n \in Seq(Steps) /\ Len(n) = k + Len(s) - 1
        /\ \A i \in 1 .. k : n[i] = steps[i]
        /\ \A i \in 2 .. Len(s) : n[k + i - 1] = s[i]
        /\ \A j \in k + 1 .. Len(n) : n[j] = s[j - k + 1]
    BY ListMoves
  <1>2. n # <<>> <=> Len(n) >= 1
    BY <1>1, ListParts
  <1> HIDE DEF n, k
  <1>3. \A j \in 2 .. Len(n) : n[j].op \notin Immediate
    <2> TAKE j \in 2 .. Len(n)
    <2>1. CASE j <= k
      BY <1>0, <1>1, <2>1 DEF Follows, k
    <2>2. CASE j > k
      <3>1. j \in Int /\ j \in k + 1 .. Len(n) /\ j - k + 1 \in 2 .. Len(s)
        BY <1>0, <1>1, <2>2
      <3>2. QED
        BY <1>1, <3>1 DEF ListOK
    <2>3. QED
      BY <1>0, <1>1, <2>1, <2>2
  <1>4. ASSUME NEW j \in 1 .. Len(n), n[j].op \in StartsOver
        PROVE  j \in k + 1 .. Len(n) /\ j - k + 1 \in 2 .. Len(s) /\ n[j] = s[j - k + 1]
    <2>1. j > k
      BY <1>0, <1>1, <1>4 DEF Follows, k
    <2>2. QED
      BY <1>0, <1>1, <2>1
  <1>5. ASSUME t # Gui, NEW j \in 1 .. Len(n)
        PROVE  n[j].op \notin GuiOnly
    <2>1. CASE j <= k
      BY <1>0, <1>1, <1>5, <2>1 DEF Follows, k
    <2>2. CASE j > k
      <3>1. j \in Int /\ j \in k + 1 .. Len(n) /\ j - k + 1 \in 1 .. Len(s)
        BY <1>0, <1>1, <2>2
      <3>2. QED
        BY <1>1, <1>5, <3>1 DEF ListOK
    <2>3. QED
      BY <1>0, <1>1, <2>1, <2>2
  <1>6. ASSUME NEW j \in 1 .. Len(n), n[j].op \in StartsOver, NEW l \in ToSet(Lines)
        PROVE  \E m \in j + 1 .. Len(n) : n[m] = NotifyLine(l)
    <2>1. j \in k + 1 .. Len(n) /\ j - k + 1 \in 2 .. Len(s) /\ n[j] = s[j - k + 1]
      BY <1>4, <1>6
    <2>2. PICK i \in (j - k + 1) + 1 .. Len(s) : s[i] = NotifyLine(l)
      BY <1>0, <1>6, <2>1 DEF ListOK
    <2>3. i \in 2 .. Len(s) /\ k + i - 1 \in j + 1 .. Len(n)
      BY <1>0, <1>1, <2>1
    <2>4. QED
      BY <1>1, <2>2, <2>3
  <1>7. ASSUME NEW j \in 1 .. Len(n), n[j].op \in {"clearCallbacks", "initialize"}
        PROVE  \E m \in j + 1 .. Len(n) : n[m].op = "notifyState"
    <2>1. j \in k + 1 .. Len(n) /\ j - k + 1 \in 2 .. Len(s) /\ n[j] = s[j - k + 1]
      BY <1>4, <1>7 DEF StartsOver
    <2>2. PICK i \in (j - k + 1) + 1 .. Len(s) : s[i].op = "notifyState"
      BY <1>0, <1>7, <2>1 DEF ListOK
    <2>3. i \in 2 .. Len(s) /\ k + i - 1 \in j + 1 .. Len(n)
      BY <1>0, <1>1, <2>1
    <2>4. QED
      BY <1>1, <2>2, <2>3
  <1>8. ASSUME NEW j \in 1 .. Len(n), n[j].op = "clearCallbacks"
        PROVE  j < Len(n) /\ n[j + 1].op = "initialize"
    <2>1. j \in k + 1 .. Len(n) /\ j - k + 1 \in 2 .. Len(s) /\ n[j] = s[j - k + 1]
      BY <1>4, <1>8 DEF StartsOver
    <2>2. j - k + 1 < Len(s) /\ s[(j - k + 1) + 1].op = "initialize"
      BY <1>0, <1>8, <2>1 DEF ListOK
    <2>3. j - k + 1 < Len(s) /\ Len(n) = k + Len(s) - 1
      BY <1>1, <2>2
    <2>4. j < Len(n) /\ (j - k + 1) + 1 \in 2 .. Len(s) /\ k + ((j - k + 1) + 1) - 1 = j + 1
      BY <1>0, <2>1, <2>3
    <2>5. QED
      BY <1>1, <2>2, <2>4
  <1>9. ASSUME n # <<>>, n[1].op = "enter"
        PROVE  Len(n) >= 2 /\ n[2].op = "after"
    <2>1. Len(n) >= 1
      BY <1>2, <1>9
    <2>2. CASE k = 0
      <3>1. 1 \in k + 1 .. Len(n) /\ 1 - k + 1 = 2 /\ 2 \in 2 .. Len(s)
        BY <1>0, <1>1, <2>1, <2>2
      <3>2. n[1] = s[2] /\ s[2].op \notin Immediate
        BY <1>1, <3>1 DEF ListOK
      <3>3. QED
        BY <1>9, <3>2 DEF Immediate
    <2>3. CASE k # 0
      <3>1. n[1] = steps[1] /\ steps # <<>>
        BY <1>0, <1>1, <2>3
      <3>2. k = 2 /\ steps[2].op = "after"
        BY <1>9, <3>1 DEF Follows, k
      <3>3. QED
        BY <1>0, <1>1, <3>2
    <2>4. QED
      BY <2>2, <2>3
  <1>10. QED
    BY <1>3, <1>5, <1>6, <1>7, <1>8, <1>9 DEF ListOK, n

LEMMA FollowsNone ==
  ASSUME NEW t
  PROVE  <<>> \in Seq(Steps) /\ Follows(t, <<>>)
  BY EmptySeq DEF Follows

LEMMA FollowsOne ==
  ASSUME NEW t, NEW x \in Steps, x.op \notin StartsOver, x.op # "enter",
         t = Gui \/ x.op \notin GuiOnly,
         x.op = "seen" => At(t, "state"), x.op = "line" => At(t, "notifyLine")
  PROVE  <<x>> \in Seq(Steps) /\ Follows(t, <<x>>)
  BY DEF Follows

LEMMA FollowsTwo ==
  ASSUME NEW x \in Steps, NEW y \in Steps, x.op = "enter", y.op = "after"
  PROVE  <<x, y>> \in Seq(Steps) /\ Follows(Gui, <<x, y>>)
  BY DEF Follows, StartsOver, Immediate

\* A thread at a step of this name.
LEMMA AtIs ==
  ASSUME PlantTypes, ListsOK, NEW t \in Threads, NEW name, At(t, name)
  PROVE  /\ todo[t] \in Seq(Steps) /\ todo[t] # <<>>
         /\ Now(t) = todo[t][1] /\ Now(t) \in Steps /\ Now(t).op = name
         /\ name \in GuiOnly => t = Gui
  <1>1. todo[t] \in Seq(Steps) /\ todo[t] # <<>> /\ Now(t).op = name
    BY DEF PlantTypes, At, Now
  <1>2. Len(todo[t]) \in Nat /\ Len(todo[t]) >= 1 /\ Now(t) = todo[t][1] /\ Now(t) \in Steps
    BY <1>1, ListParts DEF Now
  <1>3. name \in GuiOnly => t = Gui
    BY <1>1, <1>2 DEF ListsOK, ListOK
  <1>4. QED
    BY <1>1, <1>2, <1>3

\* What every step does to the list of its thread.
LEMMA RunFollows ==
  ASSUME PlantTypes, ListsOK, WiringOK, NEW t \in Threads, Runs(t)
  PROVE  \E steps \in Seq(Steps) :
           Then(t, steps) /\ todo[t] # <<>> /\ Follows(t, steps)
  <1> DEFINE Goal == \E steps \in Seq(Steps) :
                       Then(t, steps) /\ todo[t] # <<>> /\ Follows(t, steps)
             x == Now(t)
  <1> SUFFICES Goal
    OBVIOUS
  <1>a. ASSUME Then(t, <<>>), todo[t] # <<>> PROVE Goal
    BY <1>a, FollowsNone
  <1>b. ASSUME NEW y \in Steps, Then(t, <<y>>), todo[t] # <<>>, y.op \notin StartsOver,
               y.op # "enter", t = Gui \/ y.op \notin GuiOnly,
               y.op = "seen" => At(t, "state"), y.op = "line" => At(t, "notifyLine")
        PROVE  Goal
    BY <1>b, FollowsOne
  <1> HIDE DEF Goal
  <1>1. CASE ProcessEvent(t)
    <2>1. At(t, "process")
      BY <1>1 DEF ProcessEvent
    <2>2. t = Gui /\ todo[t] # <<>>
      BY <2>1, AtIs DEF GuiOnly
    <2>3. CASE \E row \in Table :
                 Then(t, <<Step("enter", row[3], Nothing), Step("after", Nothing, Nothing)>>)
      <3>1. PICK row \in Table :
              Then(t, <<Step("enter", row[3], Nothing), Step("after", Nothing, Nothing)>>)
        BY <2>3
      <3>2. row[3] \in States
        BY DEF Table, States
      <3>3. /\ Step("enter", row[3], Nothing) \in Steps /\ Step("after", Nothing, Nothing) \in Steps
        BY <3>2, StepMade
      <3> DEFINE two == <<Step("enter", row[3], Nothing), Step("after", Nothing, Nothing)>>
      <3>4. two \in Seq(Steps) /\ Follows(Gui, two)
        BY <3>3, StepRead, FollowsTwo
      <3> HIDE DEF two
      <3>5. Then(t, two)
        BY <3>1 DEF two
      <3>6. QED
        BY <2>2, <3>4, <3>5 DEF Goal
    <2>4. CASE Then(t, <<Step("after", Nothing, Nothing)>>)
      BY <1>b, <2>2, <2>4, StepMade, StepRead DEF StartsOver
    <2>5. QED
      BY <1>1, <2>3, <2>4 DEF ProcessEvent
  <1>2. CASE EnterState(t)
    BY <1>2, <1>a, AtIs DEF EnterState
  <1>3. CASE AfterDispatch(t)
    <2>1. t = Gui /\ todo[t] # <<>> /\ Then(t, <<Step("compare", sm, Nothing)>>)
      BY <1>3, AtIs DEF AfterDispatch, GuiOnly
    <2>2. Step("compare", sm, Nothing) \in Steps /\ Step("compare", sm, Nothing).op = "compare"
      BY StepMade, StepRead DEF PlantTypes
    <2>3. QED
      BY <1>b, <2>1, <2>2 DEF StartsOver
  <1>4. CASE CompareNotified(t)
    <2>1. t = Gui /\ todo[t] # <<>> /\ (Then(t, <<>>) \/ Then(t, <<NotifyState>>))
      BY <1>4, AtIs DEF CompareNotified, GuiOnly
    <2>2. QED
      BY <1>a, <1>b, <2>1, StepMade, StepRead DEF NotifyState, StartsOver
  <1>5. CASE ProductionCycle(t)
    <2>1. todo[t] # <<>> /\ (Then(t, <<>>) \/ Then(t, <<SetStatus(BLine, "Processing")>>))
      BY <1>5, AtIs DEF ProductionCycle
    <2>2. SetStatus(BLine, "Processing") \in Steps /\ SetStatus(BLine, "Processing").op = "setStatus"
      BY ProductionConstants, StepMade, StepRead DEF SetStatus, Statuses
    <2>3. QED
      BY <1>a, <1>b, <2>1, <2>2 DEF StartsOver, GuiOnly
  <1>6. CASE ZeroWorkUnit(t)
    BY <1>6, <1>a, AtIs DEF ZeroWorkUnit
  <1>7. CASE StoreStatus(t)
    <2>1. todo[t] # <<>> /\ x \in Steps /\ x.op = "setStatus" /\ Then(t, <<NotifyLine(x.of)>>)
      BY <1>7, AtIs DEF StoreStatus
    <2>2. NotifyLine(x.of) \in Steps /\ NotifyLine(x.of).op = "notifyLine"
      BY <2>1, StepIs, StepMade, StepRead DEF NotifyLine
    <2>3. QED
      BY <1>b, <2>1, <2>2 DEF StartsOver, GuiOnly
  <1>8. CASE StoreRate(t)
    <2>1. todo[t] # <<>> /\ x \in Steps /\ x.op = "setRate" /\ Then(t, <<NotifyRate(x.of)>>)
      BY <1>8, AtIs DEF StoreRate
    <2>2. NotifyRate(x.of) \in Steps /\ NotifyRate(x.of).op = "notifyRate"
      BY <2>1, StepIs, StepMade, StepRead DEF NotifyRate
    <2>3. QED
      BY <1>b, <2>1, <2>2 DEF StartsOver, GuiOnly
  <1>9. CASE SimulationStep(t)
    BY <1>9, <1>a, AtIs DEF SimulationStep
  <1>10. CASE DemoData(t)
    BY <1>10, <1>a, AtIs DEF DemoData
  <1>11. CASE NotifyLineStep(t)
    <2>1. /\ todo[t] # <<>> /\ x \in Steps /\ x.op = "notifyLine"
          /\ Then(t, <<>>) \/ Then(t, <<Step("line", x.of, status[x.of])>>)
      BY <1>11, AtIs DEF NotifyLineStep
    <2>3. At(t, "notifyLine")
      BY <1>11 DEF NotifyLineStep
    <2>2. x.of \in ToSet(Lines) /\ status[x.of] \in Statuses
      BY <2>1, StepIs DEF PlantTypes
    <2>4. QED
      BY <1>a, <1>b, <2>1, <2>2, <2>3, StepMade, StepRead DEF StartsOver, GuiOnly
  <1>12. CASE NotifyRateStep(t)
    <2>1. /\ todo[t] # <<>> /\ x \in Steps /\ x.op = "notifyRate"
          /\ Then(t, <<>>) \/ Then(t, <<Step("quality", x.of, Nothing)>>)
      BY <1>12, AtIs DEF NotifyRateStep
    <2>2. x.of \in ToSet(Checkpoints)
      BY <2>1, StepIs
    <2>3. QED
      BY <1>a, <1>b, <2>1, <2>2, StepMade, StepRead DEF StartsOver, GuiOnly
  <1>13. CASE NotifyStateStep(t)
    <2>1. /\ t = Gui /\ todo[t] # <<>>
          /\ Then(t, <<>>) \/ Then(t, <<Step("state", sm, Nothing)>>)
      BY <1>13, AtIs DEF NotifyStateStep, GuiOnly
    <2>2. QED
      BY <1>a, <1>b, <2>1, StepMade, StepRead DEF PlantTypes, StartsOver
  <1>14. CASE HandleEquipmentStatus(t)
    BY <1>14, <1>a, AtIs DEF HandleEquipmentStatus
  <1>15. CASE HandleQualityCheckpoint(t)
    <2>1. /\ todo[t] # <<>> /\ x \in Steps /\ x.op = "quality"
          /\ Then(t, <<Step("judge", x.of, rate[x.of])>>)
      BY <1>15, AtIs DEF HandleQualityCheckpoint
    <2>2. x.of \in ToSet(Checkpoints) /\ rate[x.of] \in Rates
      BY <2>1, StepIs DEF PlantTypes
    <2>3. QED
      BY <1>b, <2>1, <2>2, StepMade, StepRead DEF StartsOver, GuiOnly
  <1>16. CASE JudgeQuality(t)
    BY <1>16, <1>a, AtIs DEF JudgeQuality
  <1>17. CASE HandleSystemState(t)
    <2>1. /\ t = Gui /\ todo[t] # <<>> /\ x \in Steps /\ x.op = "state"
          /\ Then(t, <<Step("seen", x.of, Nothing)>>) /\ At(t, "state")
      BY <1>17, AtIs DEF HandleSystemState, GuiOnly
    <2>2. x.of \in States
      BY <2>1, StepIs
    <2>3. QED
      BY <1>b, <2>1, <2>2, StepMade, StepRead DEF StartsOver
  <1>18. CASE RememberState(t)
    <2>1. t = Gui /\ todo[t] # <<>> /\ Then(t, <<Step("show", sm, Nothing)>>)
      BY <1>18, AtIs DEF RememberState, GuiOnly
    <2>2. QED
      BY <1>b, <2>1, StepMade, StepRead DEF PlantTypes, StartsOver
  <1>19. CASE ShowControlPanel(t)
    BY <1>19, <1>a, AtIs DEF ShowControlPanel
  <1>20. CASE ClearCallbacks(t)
    BY <1>20, <1>a, AtIs DEF ClearCallbacks
  <1>21. CASE Initialize(t)
    BY <1>21, <1>a, AtIs DEF Initialize
  <1>22. CASE OrphanDoesNothing(t)
    BY <1>22, <1>a DEF OrphanDoesNothing, WiringOK
  <1>23. QED
    BY <1>1, <1>2, <1>3, <1>4, <1>5, <1>6, <1>7, <1>8, <1>9, <1>10, <1>11, <1>12, <1>13, <1>14,
       <1>15, <1>16, <1>17, <1>18, <1>19, <1>20, <1>21, <1>22 DEF Runs

LEMMA RunKeepsLists ==
  ASSUME PlantTypes, ListsOK, WiringOK, NEW t \in Threads, Runs(t)
  PROVE  todo' \in [Threads -> Seq(Steps)] /\ ListsOK'
  <1>1. PICK steps \in Seq(Steps) : Then(t, steps) /\ todo[t] # <<>> /\ Follows(t, steps)
    BY RunFollows
  <1>2. todo \in [Threads -> Seq(Steps)] /\ todo[t] \in Seq(Steps) /\ ListOK(t, todo[t])
    BY DEF PlantTypes, ListsOK
  <1> DEFINE n == steps \o Tail(todo[t])
  <1>3. n \in Seq(Steps) /\ ListOK(t, n)
    BY <1>1, <1>2, ListMoves, ListKept
  <1>4. todo' = [todo EXCEPT ![t] = n]
    BY <1>1 DEF Then
  <1> HIDE DEF n
  <1>5. todo' \in [Threads -> Seq(Steps)]
    BY <1>2, <1>3, <1>4
  <1>6. \A u \in Threads : ListOK(u, todo'[u])
    BY <1>2, <1>3, <1>4 DEF ListsOK
  <1>7. QED
    BY <1>5, <1>6 DEF ListsOK, ListOK

-----------------------------------------------------------------------------
(* The lists of the calls.                                                 *)

\* A call's list, before its first step.
Call(t, steps) == ListOK(t, steps) /\ \A i \in 1 .. Len(steps) : steps[i].op \notin Immediate

LEMMA OneStepCall ==
  ASSUME NEW t, NEW x \in Steps, x.op \notin Immediate \cup StartsOver,
         t = Gui \/ x.op \notin GuiOnly
  PROVE  <<x>> \in Seq(Steps) /\ Call(t, <<x>>)
  BY DEF Call, ListOK, StartsOver, Immediate

LEMMA TwoStepCall ==
  ASSUME NEW x \in Steps, NEW y \in Steps,
         x.op \notin Immediate \cup StartsOver, y.op \notin Immediate \cup StartsOver
  PROVE  <<x, y>> \in Seq(Steps) /\ Call(Gui, <<x, y>>)
  <1> DEFINE s == <<x, y>>
  <1>1. s \in Seq(Steps) /\ Len(s) = 2 /\ s[1] = x /\ s[2] = y /\ s # <<>>
    OBVIOUS
  <1>2. \A i \in 1 .. 2 : i = 1 \/ i = 2
    OBVIOUS
  <1>3. /\ x.op \notin Immediate /\ y.op \notin Immediate
        /\ x.op \notin StartsOver /\ y.op \notin StartsOver
    OBVIOUS
  <1> HIDE DEF s
  <1>4. \A i \in 1 .. 2 : s[i].op \notin Immediate /\ s[i].op \notin StartsOver
    BY <1>1, <1>2, <1>3
  <1>5. s[1].op # "enter" /\ \A i \in 2 .. 2 : i \in 1 .. 2
    BY <1>1, <1>3 DEF Immediate
  <1>6. Call(Gui, s)
    BY <1>1, <1>4, <1>5 DEF Call, ListOK, StartsOver
  <1>7. QED
    BY <1>1, <1>6 DEF s

\* Nothing but announcements.
Announcing(s) ==
  s \in Seq(Steps) /\ \A i \in 1 .. Len(s) : s[i].op \in {"notifyLine", "notifyRate", "notifyState"}

LEMMA AnnouncingParts ==
  /\ Announcing(NotifyLines) /\ Len(NotifyLines) = Len(Lines)
  /\ \A i \in 1 .. Len(Lines) : NotifyLines[i] = NotifyLine(Lines[i])
  /\ Announcing(NotifyRates)
  /\ Announcing(<<NotifyState>>)
  <1>1. /\ Len(Lines) \in Nat /\ Len(Checkpoints) \in Nat
        /\ \A i \in 1 .. Len(Lines) : Lines[i] \in ToSet(Lines)
        /\ \A i \in 1 .. Len(Checkpoints) : Checkpoints[i] \in ToSet(Checkpoints)
    BY ProductionConstants, LenProperties, ElementOfSeq
  <1>2. /\ \A l \in ToSet(Lines) : NotifyLine(l) \in Steps /\ NotifyLine(l).op = "notifyLine"
        /\ \A c \in ToSet(Checkpoints) : NotifyRate(c) \in Steps /\ NotifyRate(c).op = "notifyRate"
        /\ NotifyState \in Steps /\ NotifyState.op = "notifyState"
    BY StepMade, StepRead DEF NotifyLine, NotifyRate, NotifyState
  <1>3. NotifyLines \in Seq(Steps) /\ Len(NotifyLines) = Len(Lines)
    BY <1>1, <1>2 DEF NotifyLines
  <1>4. \A i \in 1 .. Len(Lines) : NotifyLines[i] = NotifyLine(Lines[i])
    BY <1>1 DEF NotifyLines
  <1>5. Announcing(NotifyLines)
    BY <1>1, <1>2, <1>3, <1>4 DEF Announcing
  <1>6. NotifyRates \in Seq(Steps) /\ Len(NotifyRates) = Len(Checkpoints)
    BY <1>1, <1>2 DEF NotifyRates
  <1>7. \A i \in 1 .. Len(Checkpoints) : NotifyRates[i] = NotifyRate(Checkpoints[i])
    BY <1>1 DEF NotifyRates
  <1>8. Announcing(NotifyRates)
    BY <1>1, <1>2, <1>6, <1>7 DEF Announcing
  <1>9. Announcing(<<NotifyState>>)
    BY <1>2 DEF Announcing
  <1>10. QED
    BY <1>3, <1>4, <1>5, <1>8, <1>9

\* One list after another, by index.
LEMMA Joined2 ==
  ASSUME NEW s \in Seq(Steps), NEW r \in Seq(Steps)
  PROVE  /\ s \o r \in Seq(Steps) /\ Len(s \o r) = Len(s) + Len(r)
         /\ \A i \in 1 .. Len(s) : (s \o r)[i] = s[i]
         /\ \A i \in 1 .. Len(r) : (s \o r)[Len(s) + i] = r[i]
         /\ \A i \in 1 .. Len(s \o r) :
              i \in 1 .. Len(s) \/ (i - Len(s) \in 1 .. Len(r) /\ (s \o r)[i] = r[i - Len(s)])
  <1>1. Len(s) \in Nat /\ Len(r) \in Nat
    BY ListParts
  <1>2. s \o r \in Seq(Steps) /\ Len(s \o r) = Len(s) + Len(r)
    BY ConcatProperties
  <1>3. \A i \in 1 .. Len(s) + Len(r) :
          (s \o r)[i] = IF i <= Len(s) THEN s[i] ELSE r[i - Len(s)]
    BY ConcatProperties
  <1> DEFINE n == s \o r
  <1> HIDE DEF n
  <1>4. \A i \in 1 .. Len(s) : n[i] = s[i]
    BY <1>1, <1>3 DEF n
  <1>5. \A i \in 1 .. Len(r) : n[Len(s) + i] = r[i]
    <2> TAKE i \in 1 .. Len(r)
    <2>1. Len(s) + i \in 1 .. Len(s) + Len(r) /\ ~(Len(s) + i <= Len(s)) /\ (Len(s) + i) - Len(s) = i
      BY <1>1
    <2>2. QED
      BY <1>3, <2>1 DEF n
  <1>6. \A i \in 1 .. Len(n) :
          i \in 1 .. Len(s) \/ (i - Len(s) \in 1 .. Len(r) /\ n[i] = r[i - Len(s)])
    BY <1>1, <1>2, <1>3 DEF n
  <1>7. QED
    BY <1>2, <1>4, <1>5, <1>6 DEF n

LEMMA AnnouncingJoined ==
  ASSUME NEW s, NEW r, Announcing(s), Announcing(r)
  PROVE  Announcing(s \o r)
  <1>1. s \in Seq(Steps) /\ r \in Seq(Steps)
    BY DEF Announcing
  <1>2. QED
    BY <1>1, Joined2 DEF Announcing

\* Announcements, with one step before them or none, are a call.
LEMMA AnnouncingCall ==
  ASSUME NEW s, Announcing(s)
  PROVE  /\ s \in Seq(Steps) /\ Call(Gui, s)
         /\ \A x \in Steps : x.op \notin Immediate \cup StartsOver =>
              <<x>> \o s \in Seq(Steps) /\ Call(Gui, <<x>> \o s)
  <1>1. s \in Seq(Steps) /\ \A i \in 1 .. Len(s) : s[i].op \notin Immediate \cup StartsOver
    BY DEF Announcing, Immediate, StartsOver
  <1>2. ASSUME NEW r \in Seq(Steps), \A i \in 1 .. Len(r) : r[i].op \notin Immediate \cup StartsOver
        PROVE  Call(Gui, r)
    <2>1. Len(r) \in Nat /\ (r # <<>> <=> Len(r) >= 1)
      BY ListParts
    <2>2. r # <<>> => r[1].op # "enter"
      BY <1>2, <2>1 DEF Immediate
    <2>3. \A i \in 2 .. Len(r) : r[i].op \notin Immediate
      BY <1>2, <2>1
    <2>4. QED
      BY <1>2, <2>2, <2>3 DEF Call, ListOK, StartsOver
  <1>3. ASSUME NEW x \in Steps, x.op \notin Immediate \cup StartsOver
        PROVE  <<x>> \o s \in Seq(Steps) /\ Call(Gui, <<x>> \o s)
    <2>1. <<x>> \in Seq(Steps) /\ Len(<<x>>) = 1 /\ <<x>>[1] = x
      OBVIOUS
    <2> DEFINE h == <<x>>
    <2> HIDE DEF h
    <2>2. h \in Seq(Steps) /\ Len(h) = 1 /\ h[1] = x
      BY <2>1 DEF h
    <2>3. h \o s \in Seq(Steps)
      BY <1>1, <2>2, Joined2
    <2>4. \A i \in 1 .. Len(h \o s) : (h \o s)[i].op \notin Immediate \cup StartsOver
      <3> TAKE i \in 1 .. Len(h \o s)
      <3>1. i \in 1 .. Len(h) \/ (i - Len(h) \in 1 .. Len(s) /\ (h \o s)[i] = s[i - Len(h)])
        BY <1>1, <2>2, Joined2
      <3>2. CASE i \in 1 .. Len(h)
        <4>1. (h \o s)[i] = h[i]
          BY <1>1, <2>2, <3>2, Joined2
        <4>2. i = 1
          BY <2>2, <3>2
        <4>3. QED
          BY <1>3, <2>2, <4>1, <4>2
      <3>3. CASE i - Len(h) \in 1 .. Len(s) /\ (h \o s)[i] = s[i - Len(h)]
        BY <1>1, <3>3
      <3>4. QED
        BY <3>1, <3>2, <3>3
    <2>5. QED
      BY <1>2, <2>3, <2>4 DEF h
  <1>4. QED
    BY <1>1, <1>2, <1>3

\* republishAll()
Everything == NotifyLines \o NotifyRates \o <<NotifyState>>

LEMMA EverythingAnnounced ==
  /\ Announcing(Everything)
  /\ \A l \in ToSet(Lines) : \E j \in 1 .. Len(Everything) : Everything[j] = NotifyLine(l)
  /\ \E j \in 1 .. Len(Everything) : Everything[j].op = "notifyState"
  <1> DEFINE both == NotifyLines \o NotifyRates
             last == <<NotifyState>>
  <1>1. Announcing(both) /\ Announcing(last)
    BY AnnouncingParts, AnnouncingJoined
  <1>2. last \in Seq(Steps) /\ Len(last) = 1 /\ last[1].op = "notifyState"
    BY AnnouncingParts, StepMade, StepRead DEF NotifyState
  <1>3. /\ NotifyLines \in Seq(Steps) /\ NotifyRates \in Seq(Steps)
        /\ Len(NotifyLines) \in Nat /\ Len(NotifyRates) \in Nat
    BY AnnouncingParts, ListParts DEF Announcing
  <1>4. both \in Seq(Steps) /\ Len(both) = Len(NotifyLines) + Len(NotifyRates)
    BY <1>3, Joined2
  <1>5. ASSUME NEW l \in ToSet(Lines)
        PROVE  \E j \in 1 .. Len(NotifyLines) : NotifyLines[j] = NotifyLine(l)
    <2>1. PICK j \in DOMAIN Lines : Lines[j] = l
      BY DEF ToSet
    <2>2. j \in 1 .. Len(Lines)
      BY ProductionConstants, LenProperties
    <2>3. QED
      BY <2>1, <2>2, AnnouncingParts
  <1>6. \A j \in 1 .. Len(NotifyLines) : both[j] = NotifyLines[j]
    BY <1>3, Joined2
  <1> HIDE DEF both, last
  <1>7. Everything = both \o last
    BY DEF Everything, both, last
  <1>8. /\ Len(Everything) = Len(both) + 1
        /\ \A i \in 1 .. Len(both) : Everything[i] = both[i]
        /\ Everything[Len(both) + 1].op = "notifyState"
    BY <1>2, <1>4, <1>7, Joined2
  <1>9. Announcing(Everything)
    BY <1>1, <1>7, AnnouncingJoined
  <1>10. ASSUME NEW l \in ToSet(Lines)
         PROVE  \E j \in 1 .. Len(Everything) : Everything[j] = NotifyLine(l)
    <2>1. PICK j \in 1 .. Len(NotifyLines) : NotifyLines[j] = NotifyLine(l)
      BY <1>5
    <2>2. j \in 1 .. Len(both) /\ j \in 1 .. Len(Everything)
      BY <1>3, <1>4, <1>8
    <2>3. QED
      BY <1>6, <1>8, <2>1, <2>2
  <1>11. Len(both) + 1 \in 1 .. Len(Everything)
    BY <1>3, <1>4, <1>8
  <1>12. QED
    BY <1>8, <1>9, <1>10, <1>11

\* rebuildPages() before the announcements.
StartingOver ==
  <<Step("clearCallbacks", Nothing, Nothing), Step("initialize", Nothing, Nothing),
    Step("demo", Nothing, Nothing), Dispatch("Reset")>>

LEMMA RebuildCall ==
  /\ StartingOver \o Everything \in Seq(Steps)
  /\ Call(Gui, StartingOver \o Everything)
  <1> DEFINE h == StartingOver
             e == Everything
             n == h \o e
  <1>1. /\ h \in Seq(Steps) /\ Len(h) = 4
        /\ h[1].op = "clearCallbacks" /\ h[2].op = "initialize" /\ h[3].op = "demo"
        /\ h[4].op = "process"
    BY StepMade, StepRead DEF StartingOver, Dispatch
  <1>2. e \in Seq(Steps) /\ Len(e) \in Nat
    BY EverythingAnnounced, ListParts DEF Announcing
  <1>3. \A i \in 1 .. Len(e) : e[i].op \in {"notifyLine", "notifyRate", "notifyState"}
    BY EverythingAnnounced DEF Announcing
  <1>4. /\ \A l \in ToSet(Lines) : \E j \in 1 .. Len(e) : e[j] = NotifyLine(l)
        /\ \E j \in 1 .. Len(e) : e[j].op = "notifyState"
    BY EverythingAnnounced
  <1>5. n \in Seq(Steps) /\ Len(n) = Len(h) + Len(e)
    BY <1>1, <1>2, Joined2
  <1>6. \A i \in 1 .. Len(h) : n[i] = h[i]
    BY <1>1, <1>2, Joined2
  <1>7. \A i \in 1 .. Len(e) : n[Len(h) + i] = e[i]
    BY <1>1, <1>2, Joined2
  <1>8. \A i \in 1 .. Len(n) :
          i \in 1 .. Len(h) \/ (i - Len(h) \in 1 .. Len(e) /\ n[i] = e[i - Len(h)])
    BY <1>1, <1>2, Joined2
  <1> HIDE DEF h, e, n
  <1>9. /\ n[1].op = "clearCallbacks" /\ n[2].op = "initialize" /\ n[3].op = "demo"
        /\ n[4].op = "process" /\ 1 \in 1 .. 4 /\ 2 \in 1 .. 4 /\ 3 \in 1 .. 4 /\ 4 \in 1 .. 4
        /\ \A i \in 1 .. 4 : i = 1 \/ i = 2 \/ i = 3 \/ i = 4
    BY <1>1, <1>6
  <1>10. \A i \in 1 .. Len(n) :
           i = 1 \/ i = 2 \/ i = 3 \/ i = 4 \/ n[i].op \in {"notifyLine", "notifyRate", "notifyState"}
    <2> TAKE i \in 1 .. Len(n)
    <2>1. CASE i \in 1 .. Len(h)
      BY <1>1, <1>9, <2>1
    <2>2. CASE i - Len(h) \in 1 .. Len(e) /\ n[i] = e[i - Len(h)]
      BY <1>3, <2>2
    <2>3. QED
      BY <1>8, <2>1, <2>2
  <1>11. \A i \in 1 .. Len(n) : n[i].op \notin Immediate
    BY <1>9, <1>10 DEF Immediate
  <1>12. ASSUME NEW i \in 1 .. Len(n), n[i].op \in StartsOver
         PROVE  /\ \A l \in ToSet(Lines) : \E j \in i + 1 .. Len(n) : n[j] = NotifyLine(l)
                /\ \E j \in i + 1 .. Len(n) : n[j].op = "notifyState"
    <2>1. i \in {1, 2, 3}
      BY <1>9, <1>10, <1>12 DEF StartsOver
    <2>2. \A j \in 1 .. Len(e) : Len(h) + j \in i + 1 .. Len(n)
      BY <1>1, <1>2, <1>5, <2>1
    <2>3. QED
      BY <1>4, <1>7, <2>2
  <1>13. ASSUME NEW i \in 1 .. Len(n), n[i].op = "clearCallbacks"
         PROVE  i < Len(n) /\ n[i + 1].op = "initialize"
    <2>1. i = 1
      BY <1>9, <1>10, <1>13
    <2>2. QED
      BY <1>1, <1>2, <1>5, <1>9, <2>1
  <1>14. \A i \in 2 .. Len(n) : i \in 1 .. Len(n)
    BY <1>1, <1>2, <1>5
  <1>15. Call(Gui, n)
    BY <1>9, <1>11, <1>12, <1>13, <1>14 DEF Call, ListOK, StartsOver
  <1>16. QED
    BY <1>5, <1>15 DEF n, h, e

\* Every call is such a list, taken up by a thread that was in none.
LEMMA CallIs ==
  ASSUME "state" \notin Remote, GuiCall \/ \E t \in Threads \ {Gui} : RemoteCall(t)
  PROVE  \/ ClearAll
         \/ \E t \in Threads : \E steps \in Seq(Steps) : Calls(t, steps) /\ Call(t, steps)
  <1> DEFINE Goal == \E t \in Threads : \E steps \in Seq(Steps) : Calls(t, steps) /\ Call(t, steps)
  <1> SUFFICES ClearAll \/ Goal
    OBVIOUS
  <1>0. Gui \in Threads /\ Remote \subseteq {"state", "enable", "supply", "rate"}
    BY ProductionConstants
  <1>a. ASSUME NEW t \in Threads, NEW x \in Steps, x.op \notin Immediate \cup StartsOver,
               t = Gui \/ x.op \notin GuiOnly, Calls(t, <<x>>)
        PROVE  Goal
    BY <1>a, OneStepCall
  <1>b. ASSUME NEW x \in Steps, NEW y \in Steps,
               x.op \notin Immediate \cup StartsOver, y.op \notin Immediate \cup StartsOver,
               Calls(Gui, <<x, y>>)
        PROVE  Goal
    BY <1>0, <1>b, TwoStepCall
  <1>c. ASSUME NEW s, Call(Gui, s), s \in Seq(Steps), Calls(Gui, s)
        PROVE  Goal
    BY <1>0, <1>c
  <1> HIDE DEF Goal
  <1>1. ASSUME NEW t \in Threads, Enable(t) PROVE Goal
    <2>1. PICK l \in ToSet(Lines), on \in BOOLEAN : SetEquipmentEnabled(t, l, on)
      BY <1>1 DEF Enable
    <2>2. PICK v \in Statuses : Calls(t, <<SetStatus(l, v)>>)
      BY <2>1 DEF SetEquipmentEnabled, Statuses
    <2>3. SetStatus(l, v) \in Steps /\ SetStatus(l, v).op = "setStatus"
      BY StepMade, StepRead DEF SetStatus
    <2>4. QED
      BY <1>a, <2>2, <2>3 DEF Immediate, StartsOver, GuiOnly
  <1>2. /\ \A e \in {"Start", "Stop", "Reset", "Calibrate", "Fault"} :
             Dispatch(e) \in Steps /\ Dispatch(e).op = "process"
        /\ \A name \in {"cycle", "zero", "tick"} :
             Step(name, Nothing, Nothing) \in Steps /\ Step(name, Nothing, Nothing).op = name
    BY StepMade, StepRead DEF Dispatch
  <1>3. CASE Drive(Gui)
    <2>1. CASE StartProduction(Gui)
      BY <1>b, <1>2, <2>1 DEF StartProduction, Immediate, StartsOver
    <2>2. CASE StopProduction(Gui)
      BY <1>0, <1>a, <1>2, <2>2 DEF StopProduction, Immediate, StartsOver
    <2>3. CASE ResetSystem(Gui)
      BY <1>b, <1>2, <2>3 DEF ResetSystem, Immediate, StartsOver
    <2>4. CASE StartCalibration(Gui)
      BY <1>0, <1>a, <1>2, <2>4 DEF StartCalibration, Immediate, StartsOver
    <2>5. QED
      BY <1>3, <2>1, <2>2, <2>3, <2>4 DEF Drive
  <1>4. CASE TriggerFault(Gui)
    BY <1>0, <1>a, <1>2, <1>4 DEF TriggerFault, Immediate, StartsOver
  <1>5. CASE LoadProduct \/ TickSimulation
    <2>1. PICK name \in {"zero", "tick"} :
            Calls(Gui, <<Step(name, Nothing, Nothing)>> \o NotifyRates)
      BY <1>5 DEF LoadProduct, TickSimulation
    <2>2. QED
      BY <1>c, <1>2, <2>1, AnnouncingParts, AnnouncingCall DEF Immediate, StartsOver
  <1>6. CASE RepublishAll
    <2>1. Calls(Gui, Everything)
      BY <1>6 DEF RepublishAll, Everything
    <2>2. QED
      BY <1>c, <2>1, EverythingAnnounced, AnnouncingCall
  <1>7. CASE Rebuild
    <2>1. /\ NotifyLines \in Seq(Steps) /\ NotifyRates \in Seq(Steps)
          /\ <<NotifyState>> \in Seq(Steps) /\ StartingOver \in Seq(Steps)
      BY AnnouncingParts, StepMade DEF Announcing, StartingOver
    <2>2. NotifyLines \o NotifyRates \in Seq(Steps)
      BY <2>1, Joined2
    <2>3. StartingOver \o NotifyLines \o NotifyRates = StartingOver \o (NotifyLines \o NotifyRates)
      BY <2>1, ConcatAssociative
    <2>4. StartingOver \o NotifyLines \o NotifyRates \o <<NotifyState>> = StartingOver \o Everything
      BY <2>1, <2>2, <2>3, ConcatAssociative DEF Everything
    <2>5. Calls(Gui, StartingOver \o NotifyLines \o NotifyRates \o <<NotifyState>>)
      BY <1>7 DEF Rebuild, StartingOver
    <2>6. Calls(Gui, StartingOver \o Everything)
      BY <2>4, <2>5
    <2>7. QED
      BY <1>c, <2>6, RebuildCall
  <1>8. ASSUME NEW t \in Threads \ {Gui}, RemoteCall(t) PROVE Goal
    <2>1. \/ Enable(t)
          \/ \E l \in ToSet(Lines) : SetEquipmentSupplyLevel(t, l)
          \/ \E c \in ToSet(Checkpoints), r \in Rates : SetQualityPassRate(t, c, r)
      BY <1>0, <1>8 DEF RemoteCall
    <2>2. CASE Enable(t)
      BY <1>1, <2>2
    <2>3. CASE \E l \in ToSet(Lines) : SetEquipmentSupplyLevel(t, l)
      <3>1. PICK l \in ToSet(Lines) : Calls(t, <<NotifyLine(l)>>)
        BY <2>3 DEF SetEquipmentSupplyLevel
      <3>2. NotifyLine(l) \in Steps /\ NotifyLine(l).op = "notifyLine"
        BY StepMade, StepRead DEF NotifyLine
      <3>3. QED
        BY <1>a, <3>1, <3>2 DEF Immediate, StartsOver, GuiOnly
    <2>4. CASE \E c \in ToSet(Checkpoints), r \in Rates : SetQualityPassRate(t, c, r)
      <3>1. PICK c \in ToSet(Checkpoints), r \in Rates : Calls(t, <<Step("setRate", c, r)>>)
        BY <2>4 DEF SetQualityPassRate
      <3>2. Step("setRate", c, r) \in Steps /\ Step("setRate", c, r).op = "setRate"
        BY StepMade, StepRead
      <3>3. QED
        BY <1>a, <3>1, <3>2 DEF Immediate, StartsOver, GuiOnly
    <2>5. QED
      BY <2>1, <2>2, <2>3, <2>4
  <1>9. QED
    BY <1>0, <1>1, <1>3, <1>4, <1>5, <1>6, <1>7, <1>8 DEF GuiCall

-----------------------------------------------------------------------------
(* What a step leaves of the lists.                                        *)

LEMMA ThenIs ==
  ASSUME PlantTypes, ListsOK, NEW t \in Threads, todo[t] # <<>>,
         NEW steps \in Seq(Steps), Then(t, steps)
  PROVE  /\ \A u \in Threads : u # t => todo'[u] = todo[u]
         /\ todo'[t] \in Seq(Steps)
         /\ steps = <<>> /\ todo'[t] # <<>> =>
              /\ todo'[t][1] = todo[t][2] /\ Len(todo[t]) >= 2
              /\ todo'[t][1].op \notin Immediate
         /\ steps # <<>> => todo'[t] # <<>> /\ todo'[t][1] = steps[1]
         /\ \A i \in 2 .. Len(todo[t]) : \E j \in 1 .. Len(todo'[t]) : todo'[t][j] = todo[t][i]
         /\ \A i \in 1 .. Len(steps) : \E j \in 1 .. Len(todo'[t]) : todo'[t][j] = steps[i]
  <1> DEFINE s == todo[t]
             n == steps \o Tail(s)
             k == Len(steps)
  <1>1. todo \in [Threads -> Seq(Steps)] /\ s \in Seq(Steps) /\ ListOK(t, s)
    BY DEF PlantTypes, ListsOK
  <1>2. Len(s) \in Nat /\ Len(s) >= 1 /\ k \in Nat /\ (steps # <<>> <=> k >= 1)
    BY <1>1, ListParts
  <1>3. /\ n \in Seq(Steps) /\ Len(n) = k + Len(s) - 1
        /\ \A i \in 1 .. k : n[i] = steps[i]
        /\ \A i \in 2 .. Len(s) : n[k + i - 1] = s[i]
    BY <1>1, ListMoves
  <1>4. n # <<>> <=> Len(n) >= 1
    BY <1>3, ListParts
  <1>5. \A u \in Threads : todo'[u] = IF u = t THEN n ELSE todo[u]
    BY <1>1 DEF Then
  <1> HIDE DEF n, k, s
  <1>6. ASSUME k = 0, n # <<>>
        PROVE  n[1] = s[2] /\ Len(s) >= 2 /\ s[2].op \notin Immediate
    <2>1. Len(s) >= 2 /\ 2 \in 2 .. Len(s) /\ k + 2 - 1 = 1
      BY <1>2, <1>3, <1>4, <1>6
    <2>2. QED
      BY <1>1, <1>3, <2>1 DEF ListOK
  <1>7. k >= 1 => n # <<>> /\ n[1] = steps[1]
    BY <1>2, <1>3, <1>4
  <1>8. ASSUME NEW i \in 2 .. Len(s) PROVE \E j \in 1 .. Len(n) : n[j] = s[i]
    <2>1. k + i - 1 \in 1 .. Len(n)
      BY <1>2, <1>3
    <2>2. QED
      BY <1>3, <2>1
  <1>9. ASSUME NEW i \in 1 .. k PROVE \E j \in 1 .. Len(n) : n[j] = steps[i]
    <2>1. i \in 1 .. Len(n)
      BY <1>2, <1>3
    <2>2. QED
      BY <1>3, <2>1
  <1>10. todo'[t] = n
    BY <1>5
  <1>11. QED
    BY <1>2, <1>3, <1>5, <1>6, <1>7, <1>8, <1>9, <1>10 DEF s, k

\* The step is over and asks for nothing.
LEMMA ThenNone ==
  ASSUME PlantTypes, ListsOK, NEW t \in Threads, todo[t] # <<>>, Then(t, <<>>)
  PROVE  /\ \A u \in Threads : u # t => todo'[u] = todo[u]
         /\ todo'[t] \in Seq(Steps)
         /\ todo'[t] # <<>> => /\ Head(todo'[t]) = todo'[t][1] /\ todo'[t][1] = todo[t][2]
                               /\ Len(todo[t]) >= 2 /\ todo'[t][1].op \notin Immediate
         /\ \A i \in 2 .. Len(todo[t]) : \E j \in 1 .. Len(todo'[t]) : todo'[t][j] = todo[t][i]
  <1>1. <<>> \in Seq(Steps)
    BY FollowsNone
  <1>2. todo'[t] \in Seq(Steps)
    BY <1>1, ThenIs
  <1>3. todo'[t] # <<>> => Head(todo'[t]) = todo'[t][1]
    BY <1>2, ListParts
  <1>4. QED
    BY <1>1, <1>2, <1>3, ThenIs

\* The step asks for another one.
LEMMA ThenOne ==
  ASSUME PlantTypes, ListsOK, NEW t \in Threads, todo[t] # <<>>, NEW x \in Steps, Then(t, <<x>>)
  PROVE  /\ \A u \in Threads : u # t => todo'[u] = todo[u]
         /\ todo'[t] \in Seq(Steps) /\ todo'[t] # <<>>
         /\ Len(todo'[t]) \in Nat /\ Len(todo'[t]) >= 1
         /\ Head(todo'[t]) = x /\ todo'[t][1] = x
         /\ \A i \in 2 .. Len(todo[t]) : \E j \in 1 .. Len(todo'[t]) : todo'[t][j] = todo[t][i]
  <1>1. <<x>> \in Seq(Steps) /\ <<x>> # <<>> /\ <<x>>[1] = x
    OBVIOUS
  <1>2. todo'[t] \in Seq(Steps) /\ todo'[t] # <<>> /\ todo'[t][1] = x
    BY <1>1, ThenIs
  <1>3. Head(todo'[t]) = todo'[t][1] /\ Len(todo'[t]) \in Nat /\ Len(todo'[t]) >= 1
    BY <1>2, ListParts
  <1>4. QED
    BY <1>1, <1>2, <1>3, ThenIs

\* A thread takes up a call.
LEMMA CallsIs ==
  ASSUME PlantTypes, NEW t \in Threads, NEW steps \in Seq(Steps), Calls(t, steps), Call(t, steps)
  PROVE  /\ todo[t] = <<>> /\ todo'[t] = steps
         /\ \A u \in Threads : u # t => todo'[u] = todo[u]
         /\ steps # <<>> => Head(steps) = steps[1] /\ steps[1].op \notin Immediate
         /\ todo' \in [Threads -> Seq(Steps)]
         /\ UNCHANGED <<machine, plant, presenter, alarms, lost>>
  <1>1. Len(steps) \in Nat /\ (steps # <<>> => Len(steps) >= 1 /\ Head(steps) = steps[1])
    BY ListParts
  <1>2. todo \in [Threads -> Seq(Steps)] /\ todo' = [todo EXCEPT ![t] = steps] /\ todo[t] = <<>>
    BY DEF PlantTypes, Calls
  <1>3. steps # <<>> => steps[1].op \notin Immediate
    BY <1>1 DEF Call
  <1>4. QED
    BY <1>1, <1>2, <1>3 DEF Calls

LEMMA CallKeepsLists ==
  ASSUME PlantTypes, ListsOK, NEW t \in Threads, NEW steps \in Seq(Steps),
         Calls(t, steps), Call(t, steps)
  PROVE  ListsOK'
  <1>1. \A u \in Threads : ListOK(u, todo'[u])
    BY CallsIs DEF ListsOK, Call
  <1>2. QED
    BY <1>1 DEF ListsOK, ListOK

-----------------------------------------------------------------------------
(* Types.                                                                  *)

LEMMA KeysIn == SystemError \in Keys /\ ToSet(Lines) \subseteq Keys /\ ToSet(Checkpoints) \subseteq Keys
  BY DEF Keys

LEMMA RunTyped ==
  ASSUME PlantTypes, ListsOK, WiringOK, NEW t \in Threads, Runs(t)
  PROVE  PlantTypes'
  <1> DEFINE x == Now(t)
  <1>0. todo' \in [Threads -> Seq(Steps)]
    BY RunKeepsLists
  <1>h. ASSUME NEW name, At(t, name) PROVE x \in Steps /\ x.op = name
    BY <1>h, AtIs
  <1>1. CASE ProcessEvent(t)
    BY <1>0, <1>1 DEF ProcessEvent, PlantTypes, machine, plant, presenter, alarms, lost
  <1>2. CASE EnterState(t)
    <2>1. x.of \in States
      BY <1>2, <1>h, StepIs DEF EnterState
    <2>2. QED
      BY <1>0, <1>2, <2>1 DEF EnterState, PlantTypes, plant, presenter, alarms, lost
  <1>3. CASE AfterDispatch(t)
    BY <1>0, <1>3 DEF AfterDispatch, PlantTypes, machine, plant, presenter, alarms, lost
  <1>4. CASE CompareNotified(t)
    <2>1. x.of \in States
      BY <1>4, <1>h, StepIs DEF CompareNotified
    <2>2. QED
      BY <1>0, <1>4, <2>1 DEF CompareNotified, PlantTypes, plant, presenter, alarms, lost
  <1>5. CASE ProductionCycle(t)
    BY <1>0, <1>5, ProductionConstants DEF ProductionCycle, PlantTypes, machine, presenter, alarms, lost
  <1>6. CASE ZeroWorkUnit(t)
    BY <1>0, <1>6, ProductionConstants DEF ZeroWorkUnit, PlantTypes, machine, presenter, alarms, lost
  <1>7. CASE StoreStatus(t)
    <2>1. x.of \in ToSet(Lines) /\ x.value \in Statuses
      BY <1>7, <1>h, StepIs DEF StoreStatus
    <2>2. QED
      BY <1>0, <1>7, <2>1 DEF StoreStatus, PlantTypes, machine, presenter, alarms
  <1>8. CASE StoreRate(t)
    <2>1. x.of \in ToSet(Checkpoints) /\ x.value \in Rates
      BY <1>8, <1>h, StepIs DEF StoreRate
    <2>2. QED
      BY <1>0, <1>8, <2>1 DEF StoreRate, PlantTypes, machine, presenter, alarms, lost
  <1>9. CASE SimulationStep(t)
    <2>1. rate' \in [ToSet(Checkpoints) -> Rates] /\ completed' \in 0 .. Operations
      BY <1>9, ProductionConstants DEF SimulationStep, PlantTypes
    <2>2. QED
      BY <1>0, <1>9, <2>1 DEF SimulationStep, PlantTypes, machine, presenter, alarms, lost
  <1>10. CASE DemoData(t)
    BY <1>0, <1>10, ProductionConstants DEF DemoData, PlantTypes, machine, presenter, alarms
  <1>11. CASE NotifyLineStep(t)
    BY <1>0, <1>11 DEF NotifyLineStep, PlantTypes, machine, plant, presenter, alarms
  <1>12. CASE NotifyRateStep(t) \/ NotifyStateStep(t) \/ HandleQualityCheckpoint(t)
    BY <1>0, <1>12 DEF NotifyRateStep, NotifyStateStep, HandleQualityCheckpoint, PlantTypes,
       machine, plant, presenter, alarms, lost
  <1>13. CASE HandleEquipmentStatus(t)
    <2>1. x.of \in Keys
      BY <1>13, <1>h, StepIs, KeysIn DEF HandleEquipmentStatus
    <2>2. QED
      BY <1>0, <1>13, <2>1 DEF HandleEquipmentStatus, Raise, Clear, Returned, PlantTypes,
         machine, plant, presenter
  <1>14. CASE JudgeQuality(t)
    <2>1. x.of \in Keys
      BY <1>14, <1>h, StepIs, KeysIn DEF JudgeQuality
    <2>2. QED
      BY <1>0, <1>14, <2>1 DEF JudgeQuality, Raise, Clear, Returned, PlantTypes,
         machine, plant, presenter
  <1>15. CASE HandleSystemState(t)
    BY <1>0, <1>15, KeysIn DEF HandleSystemState, Raise, Clear, PlantTypes,
       machine, plant, presenter, alarms
  <1>16. CASE RememberState(t)
    <2>1. x.of \in States
      BY <1>16, <1>h, StepIs DEF RememberState
    <2>2. QED
      BY <1>0, <1>16, <2>1 DEF RememberState, PlantTypes, machine, plant, alarms, lost
  <1>17. CASE ShowControlPanel(t)
    <2>1. x.of \in States
      BY <1>17, <1>h, StepIs DEF ShowControlPanel
    <2>2. QED
      BY <1>0, <1>17, <2>1 DEF ShowControlPanel, Returned, PlantTypes, machine, plant, alarms
  <1>18. CASE ClearCallbacks(t)
    BY <1>0, <1>18 DEF ClearCallbacks, PlantTypes, machine, plant, alarms, lost
  <1>19. CASE Initialize(t)
    BY <1>0, <1>19 DEF Initialize, PlantTypes, States, machine, plant, alarms
  <1>20. CASE OrphanDoesNothing(t)
    BY <1>0, <1>20 DEF OrphanDoesNothing, Returned, PlantTypes, machine, plant, presenter, alarms
  <1>21. QED
    BY <1>1, <1>2, <1>3, <1>4, <1>5, <1>6, <1>7, <1>8, <1>9, <1>10, <1>11, <1>12, <1>13, <1>14,
       <1>15, <1>16, <1>17, <1>18, <1>19, <1>20 DEF Runs

LEMMA CallTyped ==
  ASSUME PlantTypes, NEW t \in Threads, NEW steps \in Seq(Steps), Calls(t, steps), Call(t, steps)
  PROVE  PlantTypes'
  BY CallsIs DEF PlantTypes, machine, plant, presenter, alarms, lost

LEMMA ClearAllTyped ==
  ASSUME PlantTypes, ClearAll
  PROVE  PlantTypes'
  BY DEF PlantTypes, ClearAll, machine, plant, presenter, lost

-----------------------------------------------------------------------------
(* Who listens.                                                            *)

LEMMA RunWiring ==
  ASSUME PlantTypes, ListsOK, WiringOK, NEW t \in Threads, Runs(t)
  PROVE  WiringOK'
  <1> DEFINE x == Now(t)
  <1>0. PICK steps \in Seq(Steps) : Then(t, steps) /\ todo[t] # <<>> /\ Follows(t, steps)
    BY RunFollows
  <1>1. /\ \A u \in Threads : u # t => todo'[u] = todo[u]
        /\ todo[t] \in Seq(Steps) /\ x = todo[t][1] /\ Gui \in Threads
    BY <1>0, ThenIs, ListParts, ProductionConstants DEF Now, PlantTypes
  \* t is not in a callback of a presenter that is gone, and is not about to
  \* subscribe a new one.
  <1>2. ASSUME NEW name, At(t, name), name \notin {"line", "quality", "judge", "initialize"},
               wired' = wired, orphaned' \subseteq orphaned
        PROVE  WiringOK'
    <2>1. t \notin orphaned /\ x.op # "initialize"
      BY <1>1, <1>2, AtIs DEF WiringOK
    <2>2. wired' = TRUE \/ At(Gui, "initialize")'
      BY <1>1, <1>2, <2>1 DEF WiringOK, At, Now
    <2>3. QED
      BY <1>1, <1>2, <2>1, <2>2 DEF WiringOK, PlantTypes
  \* t was in a callback and returns.
  <1>3. ASSUME t # Gui \/ x.op # "initialize", orphaned' = orphaned \ {t}, wired' = wired
        PROVE  WiringOK'
    <2>1. wired' = TRUE \/ At(Gui, "initialize")'
      BY <1>1, <1>3 DEF WiringOK, At, Now
    <2>2. QED
      BY <1>1, <1>3, <2>1 DEF WiringOK, PlantTypes
  <1>4. CASE HandleQualityCheckpoint(t)
    <2>1. x \in Steps /\ x.op = "quality" /\ Then(t, <<Step("judge", x.of, rate[x.of])>>)
      BY <1>4, AtIs DEF HandleQualityCheckpoint
    <2>2. x.of \in ToSet(Checkpoints) /\ rate[x.of] \in Rates
      BY <2>1, StepIs DEF PlantTypes
    <2>3. todo'[t] # <<>> /\ todo'[t][1].op = "judge"
      BY <1>0, <2>1, <2>2, StepMade, StepRead, ThenOne
    <2>4. wired' = wired /\ orphaned' = orphaned
      BY <1>4 DEF HandleQualityCheckpoint, presenter, lost
    <2>5. wired' = TRUE \/ At(Gui, "initialize")'
      BY <1>1, <2>1, <2>4 DEF WiringOK, At, Now
    <2>6. QED
      BY <1>1, <2>3, <2>4, <2>5 DEF WiringOK, PlantTypes
  <1>5. CASE HandleEquipmentStatus(t)
    BY <1>3, <1>5, AtIs DEF HandleEquipmentStatus, Returned, presenter
  <1>6. CASE JudgeQuality(t)
    BY <1>3, <1>6, AtIs DEF JudgeQuality, Returned, presenter
  <1>7. CASE OrphanDoesNothing(t)
    BY <1>3, <1>7 DEF OrphanDoesNothing, Returned, presenter, WiringOK
  <1>8. CASE ShowControlPanel(t)
    BY <1>3, <1>8, AtIs DEF ShowControlPanel, Returned
  <1>9. CASE ClearCallbacks(t)
    <2>1. t = Gui /\ x.op = "clearCallbacks" /\ Then(t, <<>>) /\ orphaned' = orphaned
      BY <1>9, AtIs DEF ClearCallbacks, GuiOnly, lost
    <2>2. 1 \in 1 .. Len(todo[t])
      BY <1>0, <1>1, ListParts
    <2>3. 1 < Len(todo[t]) /\ todo[t][2].op = "initialize"
      BY <1>1, <2>1, <2>2 DEF ListsOK, ListOK
    <2>4. \E j \in 1 .. Len(todo'[t]) : todo'[t][j] = todo[t][2]
      BY <1>0, <1>1, <2>1, <2>3, ThenNone, ListParts
    <2>5. todo'[t] \in Seq(Steps)
      BY <1>0, <2>1, ThenNone
    <2>6. todo'[t] # <<>>
      BY <2>4, <2>5, ListParts
    <2>7. At(Gui, "initialize")'
      BY <1>0, <2>1, <2>3, <2>6, ThenNone DEF At
    <2>8. Gui \notin orphaned
      BY DEF WiringOK
    <2>9. QED
      BY <1>1, <2>1, <2>7, <2>8 DEF WiringOK, PlantTypes
  <1>10. CASE Initialize(t)
    <2>1. t = Gui /\ x.op = "initialize" /\ wired' = TRUE
      BY <1>10, AtIs DEF Initialize, GuiOnly
    <2>2. orphaned' = {u \in Threads : \E name \in Callback : At(u, name)}
      BY <1>10 DEF Initialize
    <2>3. ASSUME NEW u \in orphaned'
          PROVE  u # Gui /\ todo'[u] # <<>> /\ todo'[u][1].op \in {"line", "quality", "judge"}
      <3>1. PICK name \in Callback : At(u, name) /\ u \in Threads
        BY <2>2, <2>3
      <3>2. todo[u] # <<>> /\ todo[u][1].op = name /\ (name \in GuiOnly => u = Gui)
        BY <3>1, AtIs
      <3>3. u # Gui
        BY <1>1, <2>1, <3>1, <3>2 DEF Callback
      <3>4. QED
        BY <1>1, <2>1, <3>1, <3>2, <3>3 DEF Callback, GuiOnly
    <2>4. QED
      BY <2>1, <2>3 DEF WiringOK
  <1>11. QED
    <2>1. CASE \/ ProcessEvent(t) \/ EnterState(t) \/ AfterDispatch(t) \/ CompareNotified(t)
      BY <1>2, <2>1 DEF ProcessEvent, EnterState, AfterDispatch, CompareNotified, presenter, lost
    <2>2. CASE \/ ProductionCycle(t) \/ ZeroWorkUnit(t) \/ StoreStatus(t) \/ StoreRate(t)
               \/ SimulationStep(t) \/ DemoData(t)
      BY <1>2, <2>2 DEF ProductionCycle, ZeroWorkUnit, StoreStatus, StoreRate, SimulationStep,
         DemoData, presenter, lost
    <2>3. CASE \/ NotifyLineStep(t) \/ NotifyRateStep(t) \/ NotifyStateStep(t)
      BY <1>2, <2>3 DEF NotifyLineStep, NotifyRateStep, NotifyStateStep, presenter, lost
    <2>4. CASE HandleSystemState(t) \/ RememberState(t)
      BY <1>2, <2>4 DEF HandleSystemState, RememberState, presenter, lost
    <2>5. QED
      BY <1>4, <1>5, <1>6, <1>7, <1>8, <1>9, <1>10, <2>1, <2>2, <2>3, <2>4 DEF Runs

LEMMA CallWiring ==
  ASSUME PlantTypes, WiringOK, NEW t \in Threads, NEW steps \in Seq(Steps),
         Calls(t, steps), Call(t, steps)
  PROVE  WiringOK'
  <1>1. /\ todo[t] = <<>> /\ (\A u \in Threads : u # t => todo'[u] = todo[u])
        /\ wired' = wired /\ orphaned' = orphaned
    BY CallsIs DEF presenter, lost
  <1>2. QED
    BY <1>1, ProductionConstants DEF WiringOK, At, PlantTypes

-----------------------------------------------------------------------------
(* What the presenter and the panel have heard of the state.               *)

\* Another thread moves none of it.
LEMMA OthersLeaveState ==
  ASSUME PlantTypes, ListsOK, WiringOK, NEW t \in Threads, Runs(t), t # Gui
  PROVE  /\ UNCHANGED <<sm, lastNotified, prev, panel, abandoned>> /\ todo'[Gui] = todo[Gui]
         /\ SystemError \in reported' <=> SystemError \in reported
         /\ SystemError \in dismissed' <=> SystemError \in dismissed
  <1> DEFINE x == Now(t)
             Kept == /\ UNCHANGED <<sm, lastNotified, prev, panel, abandoned>>
                     /\ SystemError \in reported' <=> SystemError \in reported
                     /\ SystemError \in dismissed' <=> SystemError \in dismissed
  <1>0. PICK steps \in Seq(Steps) : Then(t, steps) /\ todo[t] # <<>> /\ Follows(t, steps)
    BY RunFollows
  <1>1. todo'[Gui] = todo[Gui]
    BY <1>0, ThenIs, ProductionConstants
  <1> SUFFICES Kept
    BY <1>1
  <1>h. ASSUME NEW name, At(t, name) PROVE x \in Steps /\ x.op = name /\ name \notin GuiOnly
    BY <1>h, AtIs
  <1>k. SystemError \notin ToSet(Lines) /\ SystemError \notin ToSet(Checkpoints)
    BY ProductionConstants
  <1>2. CASE \/ ProcessEvent(t) \/ EnterState(t) \/ AfterDispatch(t) \/ CompareNotified(t)
             \/ NotifyStateStep(t) \/ HandleSystemState(t) \/ RememberState(t)
             \/ ShowControlPanel(t) \/ ClearCallbacks(t) \/ Initialize(t) \/ DemoData(t)
    BY <1>h, <1>2 DEF ProcessEvent, EnterState, AfterDispatch, CompareNotified, NotifyStateStep,
       HandleSystemState, RememberState, ShowControlPanel, ClearCallbacks, Initialize, DemoData,
       GuiOnly
  <1>3. CASE \/ ProductionCycle(t) \/ ZeroWorkUnit(t) \/ StoreStatus(t) \/ StoreRate(t)
             \/ SimulationStep(t) \/ NotifyLineStep(t) \/ NotifyRateStep(t)
             \/ HandleQualityCheckpoint(t) \/ OrphanDoesNothing(t)
    BY <1>3 DEF ProductionCycle, ZeroWorkUnit, StoreStatus, StoreRate, SimulationStep,
       NotifyLineStep, NotifyRateStep, HandleQualityCheckpoint, OrphanDoesNothing,
       machine, presenter, alarms, lost
  <1>4. CASE HandleEquipmentStatus(t)
    <2>1. x.of # SystemError
      BY <1>h, <1>k, <1>4, StepIs DEF HandleEquipmentStatus
    <2>2. QED
      BY <1>4, <2>1 DEF HandleEquipmentStatus, Raise, Clear, machine, presenter
  <1>5. CASE JudgeQuality(t)
    <2>1. x.of # SystemError
      BY <1>h, <1>k, <1>5, StepIs DEF JudgeQuality
    <2>2. QED
      BY <1>5, <2>1 DEF JudgeQuality, Raise, Clear, machine, presenter
  <1>6. QED
    BY <1>2, <1>3, <1>4, <1>5 DEF Runs

\* The GUI thread takes a step that is not about the state.
LEMMA StateUntouched ==
  ASSUME PlantTypes, ListsOK, StateHeard, Gui \in Threads, todo[Gui] # <<>>,
         UNCHANGED <<sm, lastNotified, prev, panel>>,
         todo[Gui][1].op \notin {"after", "compare", "notifyState", "state", "seen", "show"},
         todo'[Gui] # <<>> => todo'[Gui][1].op \notin {"compare", "state", "seen", "show"},
         \A i \in 2 .. Len(todo[Gui]) : \E j \in 1 .. Len(todo'[Gui]) : todo'[Gui][j] = todo[Gui][i]
  PROVE  StateHeard'
  <1> DEFINE s == todo[Gui]
             n == todo'[Gui]
  <1>1. Len(s) \in Nat /\ \A i \in 1 .. Len(s) : i = 1 \/ i \in 2 .. Len(s)
    BY ListParts DEF PlantTypes
  <1>2. lastNotified = sm
    BY DEF StateHeard
  <1>3. ASSUME prev' # lastNotified' \/ panel' # lastNotified'
        PROVE  \E j \in 1 .. Len(n) : n[j].op \in {"notifyState", "state", "seen", "show"}
    <2>1. PICK i \in 1 .. Len(s) : s[i].op \in {"notifyState", "state", "seen", "show"}
      BY <1>3 DEF StateHeard
    <2>2. i \in 2 .. Len(s)
      BY <1>1, <2>1
    <2>3. QED
      BY <2>1, <2>2
  <1>4. QED
    BY <1>2, <1>3 DEF StateHeard

LEMMA RunState ==
  ASSUME PlantTypes, ListsOK, WiringOK, StateHeard, NEW t \in Threads, Runs(t)
  PROVE  StateHeard'
  <1> DEFINE x == Now(t)
             s == todo[Gui]
             n == todo'[Gui]
  <1>0. CASE t # Gui
    BY <1>0, OthersLeaveState DEF StateHeard
  <1> SUFFICES ASSUME t = Gui PROVE StateHeard'
    BY <1>0
  <1>1. PICK steps \in Seq(Steps) : Then(t, steps) /\ todo[t] # <<>> /\ Follows(t, steps)
    BY RunFollows
  <1>2. s \in Seq(Steps) /\ s # <<>> /\ x = s[1] /\ Len(s) \in Nat /\ Len(s) >= 1
    BY <1>1, ListParts DEF Now, PlantTypes
  <1>3. n \in Seq(Steps) /\ \A i \in 2 .. Len(s) : \E j \in 1 .. Len(n) : n[j] = s[i]
    BY <1>1, ThenIs
  <1>h. ASSUME NEW name, At(t, name) PROVE x \in Steps /\ x.op = name
    BY <1>h, AtIs
  <1>n. ASSUME Then(t, <<>>), n # <<>> PROVE n[1].op \notin Immediate
    BY <1>1, <1>n, ThenNone
  <1>o. ASSUME NEW y \in Steps, Then(t, <<y>>)
        PROVE  n # <<>> /\ n[1] = y /\ 1 \in 1 .. Len(n)
    BY <1>1, <1>o, ThenOne
  \* The copies the thread may have are those of the model's state.
  <1>f. x.op \in {"compare", "state", "seen", "show"} => x.of = sm
    BY <1>2 DEF StateHeard
  <1>l. x.op \notin {"after", "compare"} => lastNotified = sm
    BY <1>2 DEF StateHeard
  <1>w. ASSUME prev # lastNotified \/ panel # lastNotified,
               x.op \notin {"notifyState", "state", "seen", "show"}
        PROVE  \E j \in 1 .. Len(n) : n[j].op \in {"notifyState", "state", "seen", "show"}
    <2>1. PICK i \in 1 .. Len(s) : s[i].op \in {"notifyState", "state", "seen", "show"}
      BY <1>w DEF StateHeard
    <2>2. i \in 2 .. Len(s)
      BY <1>2, <1>w, <2>1
    <2>3. QED
      BY <1>3, <2>1, <2>2
  <1> HIDE DEF x, s, n
  <1>4. CASE ProcessEvent(t)
    <2>1. x.op = "process" /\ UNCHANGED <<sm, lastNotified, prev, panel>>
      BY <1>4, <1>h DEF ProcessEvent, machine, presenter
    <2>2. n # <<>> /\ n[1].op \in {"enter", "after"}
      <3>1. CASE \E row \in Table :
                   Then(t, <<Step("enter", row[3], Nothing), Step("after", Nothing, Nothing)>>)
        <4>1. PICK row \in Table :
                Then(t, <<Step("enter", row[3], Nothing), Step("after", Nothing, Nothing)>>)
          BY <3>1
        <4> DEFINE two == <<Step("enter", row[3], Nothing), Step("after", Nothing, Nothing)>>
        <4>2. row[3] \in States
          BY DEF Table, States
        <4>3. Step("enter", row[3], Nothing) \in Steps /\ Step("after", Nothing, Nothing) \in Steps
          BY <4>2, StepMade
        <4>4. two \in Seq(Steps) /\ two # <<>> /\ two[1] = Step("enter", row[3], Nothing)
          BY <4>3
        <4> HIDE DEF two
        <4>5. Then(t, two)
          BY <4>1 DEF two
        <4>6. n # <<>> /\ n[1] = two[1]
          BY <1>1, <4>4, <4>5, ThenIs DEF n
        <4>7. QED
          BY <4>4, <4>6, StepRead
      <3>2. CASE Then(t, <<Step("after", Nothing, Nothing)>>)
        BY <1>o, <3>2, StepMade, StepRead
      <3>3. QED
        BY <1>4, <3>1, <3>2 DEF ProcessEvent
    <2>3. QED
      BY <1>1, <1>2, <1>3, <2>1, <2>2, StateUntouched DEF s, n
  <1>5. CASE EnterState(t)
    <2>1. x.op = "enter" /\ Then(t, <<>>) /\ UNCHANGED <<lastNotified, prev, panel>>
      BY <1>5, <1>h DEF EnterState, presenter
    <2>2. Len(s) >= 2 /\ s[2].op = "after"
      BY <1>2, <2>1 DEF ListsOK, ListOK, s
    <2>3. \E j \in 1 .. Len(n) : n[j] = s[2]
      BY <1>2, <1>3, <2>2
    <2>4. n # <<>>
      BY <1>3, <2>3, ListParts
    <2>5. n[1] = s[2]
      BY <1>1, <2>1, <2>4, ThenNone DEF n, s
    <2>6. QED
      BY <1>w, <2>1, <2>2, <2>4, <2>5 DEF StateHeard, n
  <1>6. CASE AfterDispatch(t)
    <2>1. /\ x.op = "after" /\ Then(t, <<Step("compare", sm, Nothing)>>)
          /\ UNCHANGED <<sm, lastNotified, prev, panel>>
      BY <1>6, <1>h DEF AfterDispatch, machine, presenter
    <2>2. n # <<>> /\ n[1].op = "compare" /\ n[1].of = sm
      BY <1>o, <2>1, StepMade, StepRead DEF PlantTypes
    <2>3. QED
      BY <1>w, <2>1, <2>2 DEF StateHeard, n
  <1>7. CASE CompareNotified(t)
    <2>1. x.op = "compare" /\ x.of = sm /\ lastNotified' = sm /\ UNCHANGED <<sm, prev, panel>>
      BY <1>7, <1>h, <1>f DEF CompareNotified, presenter, x
    <2>2. CASE lastNotified = sm
      <3>1. Then(t, <<>>)
        BY <1>7, <2>1, <2>2 DEF CompareNotified, x
      <3>2. QED
        BY <1>n, <1>w, <2>1, <2>2, <3>1 DEF StateHeard, n, Immediate
    <2>3. CASE lastNotified # sm
      <3>1. Then(t, <<NotifyState>>)
        BY <1>7, <2>1, <2>3 DEF CompareNotified, x
      <3>2. n # <<>> /\ n[1].op = "notifyState" /\ 1 \in 1 .. Len(n)
        BY <1>o, <3>1, StepMade, StepRead DEF NotifyState
      <3>3. QED
        BY <2>1, <3>2 DEF StateHeard, n
    <2>4. QED
      BY <2>2, <2>3
  <1>8. CASE NotifyStateStep(t)
    <2>1. x.op = "notifyState" /\ UNCHANGED <<sm, lastNotified, prev, panel>>
      BY <1>8, <1>h DEF NotifyStateStep, machine, presenter
    <2>2. wired = TRUE
      BY <2>1 DEF WiringOK, At, x, Now
    <2>3. Then(t, <<Step("state", sm, Nothing)>>)
      BY <1>8, <2>2 DEF NotifyStateStep
    <2>4. n # <<>> /\ n[1].op = "state" /\ n[1].of = sm /\ 1 \in 1 .. Len(n)
      BY <1>o, <2>3, StepMade, StepRead DEF PlantTypes
    <2>5. QED
      BY <1>l, <2>1, <2>4 DEF StateHeard, n
  <1>9. CASE HandleSystemState(t)
    <2>1. /\ x \in Steps /\ x.op = "state" /\ Then(t, <<Step("seen", x.of, Nothing)>>)
          /\ UNCHANGED <<sm, lastNotified, prev, panel>>
      BY <1>9, <1>h DEF HandleSystemState, machine, presenter, x
    <2>2. n # <<>> /\ n[1].op = "seen" /\ n[1].of = sm /\ 1 \in 1 .. Len(n)
      BY <1>f, <1>o, <2>1, StepMade, StepRead DEF PlantTypes
    <2>3. QED
      BY <1>l, <2>1, <2>2 DEF StateHeard, n
  <1>10. CASE RememberState(t)
    <2>1. /\ x.op = "seen" /\ prev' = x.of /\ Then(t, <<Step("show", sm, Nothing)>>)
          /\ UNCHANGED <<sm, lastNotified, panel>>
      BY <1>10, <1>h DEF RememberState, machine, x
    <2>2. n # <<>> /\ n[1].op = "show" /\ n[1].of = sm /\ 1 \in 1 .. Len(n)
      BY <1>o, <2>1, StepMade, StepRead DEF PlantTypes
    <2>3. QED
      BY <1>f, <1>l, <2>1, <2>2 DEF StateHeard, n
  <1>11. CASE ShowControlPanel(t)
    <2>1. /\ x.op = "show" /\ panel' = x.of /\ Then(t, <<>>)
          /\ UNCHANGED <<sm, lastNotified, prev>>
      BY <1>11, <1>h DEF ShowControlPanel, machine, x
    <2>2. x.of = sm /\ prev = sm /\ lastNotified = sm
      BY <1>2, <1>f, <1>l, <2>1 DEF StateHeard, s
    <2>3. n # <<>> => n[1].op \notin Immediate
      BY <1>n, <2>1
    <2>4. QED
      BY <2>1, <2>2, <2>3 DEF StateHeard, Immediate, n
  <1>12. CASE Initialize(t)
    <2>1. /\ x.op = "initialize" /\ Then(t, <<>>) /\ UNCHANGED <<sm, lastNotified>>
      BY <1>12, <1>h DEF Initialize, machine
    <2>2. PICK i \in 1 + 1 .. Len(s) : s[i].op = "notifyState"
      BY <1>2, <2>1 DEF ListsOK, ListOK, s
    <2>3. \E j \in 1 .. Len(n) : n[j].op = "notifyState"
      BY <1>3, <2>2
    <2>4. n # <<>> => n[1].op \notin Immediate
      BY <1>n, <2>1
    <2>5. QED
      BY <1>l, <2>1, <2>3, <2>4 DEF StateHeard, Immediate, n
  <1>13. CASE OrphanDoesNothing(t)
    BY <1>13 DEF OrphanDoesNothing, WiringOK
  <1>q. ASSUME UNCHANGED <<sm, lastNotified, prev, panel>>,
               x.op \notin {"after", "compare", "notifyState", "state", "seen", "show"},
               n # <<>> => n[1].op \notin {"compare", "state", "seen", "show"}
        PROVE  StateHeard'
    BY <1>2, <1>3, <1>q, StateUntouched DEF s, n
  <1>14. CASE \/ ZeroWorkUnit(t) \/ SimulationStep(t) \/ DemoData(t) \/ ClearCallbacks(t)
              \/ HandleEquipmentStatus(t) \/ JudgeQuality(t)
    <2>1. /\ Then(t, <<>>) /\ UNCHANGED <<sm, lastNotified, prev, panel>>
          /\ x.op \notin {"after", "compare", "notifyState", "state", "seen", "show"}
      BY <1>14, <1>h DEF ZeroWorkUnit, SimulationStep, DemoData, ClearCallbacks,
         HandleEquipmentStatus, JudgeQuality, machine, presenter
    <2>2. QED
      BY <1>n, <1>q, <2>1 DEF Immediate
  <1>15. ASSUME NEW y \in Steps, Then(t, <<>>) \/ Then(t, <<y>>),
                y.op \notin {"compare", "state", "seen", "show"}
         PROVE  n # <<>> => n[1].op \notin {"compare", "state", "seen", "show"}
    BY <1>n, <1>o, <1>15 DEF Immediate
  <1>16. CASE ProductionCycle(t)
    <2>1. /\ Then(t, <<>>) \/ Then(t, <<SetStatus(BLine, "Processing")>>)
          /\ UNCHANGED <<sm, lastNotified, prev, panel>> /\ x.op = "cycle"
      BY <1>16, <1>h DEF ProductionCycle, machine, presenter
    <2>2. SetStatus(BLine, "Processing") \in Steps /\ SetStatus(BLine, "Processing").op = "setStatus"
      BY ProductionConstants, StepMade, StepRead DEF SetStatus, Statuses
    <2>3. QED
      BY <1>15, <1>q, <2>1, <2>2
  <1>17. CASE StoreStatus(t)
    <2>1. /\ Then(t, <<NotifyLine(x.of)>>) /\ UNCHANGED <<sm, lastNotified, prev, panel>>
          /\ x \in Steps /\ x.op = "setStatus"
      BY <1>17, <1>h DEF StoreStatus, machine, presenter, x
    <2>2. NotifyLine(x.of) \in Steps /\ NotifyLine(x.of).op = "notifyLine"
      BY <2>1, StepIs, StepMade, StepRead DEF NotifyLine
    <2>3. QED
      BY <1>15, <1>q, <2>1, <2>2
  <1>18. CASE StoreRate(t)
    <2>1. /\ Then(t, <<NotifyRate(x.of)>>) /\ UNCHANGED <<sm, lastNotified, prev, panel>>
          /\ x \in Steps /\ x.op = "setRate"
      BY <1>18, <1>h DEF StoreRate, machine, presenter, x
    <2>2. NotifyRate(x.of) \in Steps /\ NotifyRate(x.of).op = "notifyRate"
      BY <2>1, StepIs, StepMade, StepRead DEF NotifyRate
    <2>3. QED
      BY <1>15, <1>q, <2>1, <2>2
  <1>19. CASE NotifyLineStep(t)
    <2>1. /\ Then(t, <<>>) \/ Then(t, <<Step("line", x.of, status[x.of])>>)
          /\ UNCHANGED <<sm, lastNotified, prev, panel>> /\ x \in Steps /\ x.op = "notifyLine"
      BY <1>19, <1>h DEF NotifyLineStep, machine, presenter, x
    <2>2. x.of \in ToSet(Lines) /\ status[x.of] \in Statuses
      BY <2>1, StepIs DEF PlantTypes
    <2>3. QED
      BY <1>15, <1>q, <2>1, <2>2, StepMade, StepRead
  <1>20. CASE NotifyRateStep(t)
    <2>1. /\ Then(t, <<>>) \/ Then(t, <<Step("quality", x.of, Nothing)>>)
          /\ UNCHANGED <<sm, lastNotified, prev, panel>> /\ x \in Steps /\ x.op = "notifyRate"
      BY <1>20, <1>h DEF NotifyRateStep, machine, presenter, x
    <2>2. x.of \in ToSet(Checkpoints)
      BY <2>1, StepIs
    <2>3. QED
      BY <1>15, <1>q, <2>1, <2>2, StepMade, StepRead
  <1>21. CASE HandleQualityCheckpoint(t)
    <2>1. /\ Then(t, <<Step("judge", x.of, rate[x.of])>>)
          /\ UNCHANGED <<sm, lastNotified, prev, panel>> /\ x \in Steps /\ x.op = "quality"
      BY <1>21, <1>h DEF HandleQualityCheckpoint, machine, presenter, x
    <2>2. x.of \in ToSet(Checkpoints) /\ rate[x.of] \in Rates
      BY <2>1, StepIs DEF PlantTypes
    <2>3. QED
      BY <1>15, <1>q, <2>1, <2>2, StepMade, StepRead
  <1>22. QED
    BY <1>4, <1>5, <1>6, <1>7, <1>8, <1>9, <1>10, <1>11, <1>12, <1>13, <1>14, <1>16, <1>17, <1>18,
       <1>19, <1>20, <1>21 DEF Runs

LEMMA CallState ==
  ASSUME PlantTypes, StateHeard, NEW t \in Threads, NEW steps \in Seq(Steps),
         Calls(t, steps), Call(t, steps)
  PROVE  StateHeard'
  <1>1. UNCHANGED <<sm, lastNotified, prev, panel>>
    BY CallsIs DEF machine, presenter
  <1>2. CASE t # Gui
    BY <1>1, <1>2, CallsIs, ProductionConstants DEF StateHeard
  <1>3. CASE t = Gui
    <2>1. todo[Gui] = <<>> /\ Len(<<>>) = 0
      BY <1>3, CallsIs
    <2>2. prev = lastNotified /\ panel = lastNotified /\ lastNotified = sm
      BY <2>1 DEF StateHeard
    <2>3. todo'[Gui] # <<>> => todo'[Gui][1].op \notin Immediate
      BY <1>3, CallsIs
    <2>4. QED
      BY <1>1, <2>2, <2>3 DEF StateHeard, Immediate
  <1>4. QED
    BY <1>2, <1>3

-----------------------------------------------------------------------------
(* The fault alarm.                                                        *)

LEMMA RunFault ==
  ASSUME PlantTypes, ListsOK, WiringOK, FaultAlarmOK, NEW t \in Threads, Runs(t)
  PROVE  FaultAlarmOK'
  <1> DEFINE x == Now(t)
  <1>0. CASE t # Gui
    BY <1>0, OthersLeaveState DEF FaultAlarmOK, Judged, At, Now
  <1> SUFFICES ASSUME t = Gui PROVE FaultAlarmOK'
    BY <1>0
  <1>1. PICK steps \in Seq(Steps) : Then(t, steps) /\ todo[t] # <<>> /\ Follows(t, steps)
    BY RunFollows
  <1>h. ASSUME NEW name, At(t, name) PROVE x \in Steps /\ x.op = name
    BY <1>h, AtIs
  <1>2. todo'[t] \in Seq(Steps)
    BY <1>1, ThenIs
  \* A step that is not about the alarm.
  <1>q. ASSUME prev' = prev, abandoned' = abandoned, x.op \notin {"state", "seen"},
               SystemError \in reported' <=> SystemError \in reported,
               SystemError \in dismissed' <=> SystemError \in dismissed
        PROVE  FaultAlarmOK'
    <2>1. ~At(Gui, "seen")'
      <3>1. SUFFICES ASSUME todo'[t] # <<>>, Head(todo'[t]).op = "seen" PROVE FALSE
        BY DEF At
      <3>2. todo'[t][1].op = "seen"
        BY <1>2, <3>1, ListParts
      <3>3. steps # <<>> /\ steps[1].op = "seen"
        BY <1>1, <3>1, <3>2, ThenIs DEF Immediate
      <3>4. At(t, "state")
        BY <1>1, <3>3 DEF Follows
      <3>5. QED
        BY <1>q, <1>h, <3>4
    <2>2. Judged = prev
      BY <1>q DEF Judged, At, Now
    <2>3. Judged' = prev'
      BY <2>1 DEF Judged
    <2>4. QED
      BY <1>q, <2>2, <2>3 DEF FaultAlarmOK
  <1>3. CASE HandleSystemState(t)
    <2>1. x \in Steps /\ x.op = "state" /\ Then(t, <<Step("seen", x.of, Nothing)>>)
      BY <1>3, <1>h DEF HandleSystemState
    <2>2. x.of \in States
      BY <2>1, StepIs
    <2>3. todo'[t] # <<>> /\ Head(todo'[t]).op = "seen" /\ Head(todo'[t]).of = x.of
      BY <1>1, <2>1, <2>2, StepMade, StepRead, ThenOne
    <2>4. Judged = prev /\ Judged' = x.of
      BY <2>1, <2>3 DEF Judged, At, Now
    <2>5. CASE x.of = "ERROR" /\ prev # "ERROR"
      <3>1. Raise(SystemError)
        BY <1>3, <2>5 DEF HandleSystemState
      <3>2. QED
        BY <2>4, <2>5, <3>1 DEF FaultAlarmOK, Raise
    <2>6. CASE x.of # "ERROR" /\ prev = "ERROR"
      <3>1. Clear(SystemError)
        BY <1>3, <2>6 DEF HandleSystemState
      <3>2. QED
        BY <2>4, <2>6, <3>1 DEF FaultAlarmOK, Clear
    <2>7. CASE x.of = "ERROR" <=> prev = "ERROR"
      <3>1. UNCHANGED alarms
        BY <1>3, <2>7 DEF HandleSystemState
      <3>2. abandoned = TRUE => abandoned' = TRUE
        BY <1>3, <3>1 DEF HandleSystemState
      <3>3. QED
        BY <2>4, <2>7, <3>1, <3>2 DEF FaultAlarmOK, alarms
    <2>8. QED
      BY <2>5, <2>6, <2>7
  <1>4. CASE RememberState(t)
    <2>1. x.op = "seen" /\ prev' = x.of /\ Then(t, <<Step("show", sm, Nothing)>>)
      BY <1>4, <1>h DEF RememberState
    <2>2. todo'[t] # <<>> /\ Head(todo'[t]).op = "show"
      BY <1>1, <2>1, StepMade, StepRead, ThenOne DEF PlantTypes
    <2>3. Judged = x.of /\ Judged' = prev'
      BY <1>1, <2>1, <2>2 DEF Judged, At, Now
    <2>4. UNCHANGED <<reported, dismissed, abandoned>>
      BY <1>4 DEF RememberState, alarms, lost
    <2>5. QED
      BY <2>1, <2>3, <2>4 DEF FaultAlarmOK
  <1>5. CASE Initialize(t)
    <2>1. prev' = "IDLE" /\ Then(t, <<>>) /\ UNCHANGED <<reported, dismissed>>
      BY <1>5 DEF Initialize, alarms
    <2>2. ~At(Gui, "seen")'
      BY <1>1, <2>1, ThenNone DEF At, Immediate
    <2>3. SystemError \in reported => abandoned' = TRUE
      BY <1>5 DEF Initialize
    <2>4. QED
      BY <2>1, <2>2, <2>3 DEF FaultAlarmOK, Judged
  <1>6. CASE OrphanDoesNothing(t)
    BY <1>6 DEF OrphanDoesNothing, WiringOK
  <1>k. SystemError \notin ToSet(Lines) /\ SystemError \notin ToSet(Checkpoints)
    BY ProductionConstants
  <1>7. CASE HandleEquipmentStatus(t)
    <2>1. x.of # SystemError /\ x.op = "line"
      BY <1>h, <1>k, <1>7, StepIs DEF HandleEquipmentStatus
    <2>2. QED
      BY <1>7, <1>q, <2>1 DEF HandleEquipmentStatus, Raise, Clear, presenter
  <1>8. CASE JudgeQuality(t)
    <2>1. x.of # SystemError /\ x.op = "judge"
      BY <1>h, <1>k, <1>8, StepIs DEF JudgeQuality
    <2>2. QED
      BY <1>8, <1>q, <2>1 DEF JudgeQuality, Raise, Clear, presenter
  <1>9. CASE \/ ProcessEvent(t) \/ EnterState(t) \/ AfterDispatch(t) \/ CompareNotified(t)
             \/ ShowControlPanel(t) \/ ClearCallbacks(t) \/ DemoData(t)
    BY <1>9, <1>h, <1>q DEF ProcessEvent, EnterState, AfterDispatch, CompareNotified,
       ShowControlPanel, ClearCallbacks, DemoData, presenter, alarms, lost
  <1>10. CASE \/ ProductionCycle(t) \/ ZeroWorkUnit(t) \/ StoreStatus(t) \/ StoreRate(t)
              \/ SimulationStep(t) \/ NotifyLineStep(t) \/ NotifyRateStep(t) \/ NotifyStateStep(t)
              \/ HandleQualityCheckpoint(t)
    BY <1>10, <1>h, <1>q DEF ProductionCycle, ZeroWorkUnit, StoreStatus, StoreRate,
       SimulationStep, NotifyLineStep, NotifyRateStep, NotifyStateStep, HandleQualityCheckpoint,
       presenter, alarms, lost
  <1>11. QED
    BY <1>3, <1>4, <1>5, <1>6, <1>7, <1>8, <1>9, <1>10 DEF Runs

LEMMA CallFault ==
  ASSUME PlantTypes, FaultAlarmOK, NEW t \in Threads, NEW steps \in Seq(Steps),
         Calls(t, steps), Call(t, steps)
  PROVE  FaultAlarmOK'
  <1>1. UNCHANGED <<prev, reported, dismissed, abandoned>>
    BY CallsIs DEF presenter, alarms, lost
  <1>2. CASE t # Gui
    BY <1>1, <1>2, CallsIs, ProductionConstants DEF FaultAlarmOK, Judged, At, Now
  <1>3. CASE t = Gui
    <2>1. ~At(Gui, "seen") /\ ~At(Gui, "seen")'
      BY <1>3, CallsIs DEF At, Immediate
    <2>2. QED
      BY <1>1, <2>1 DEF FaultAlarmOK, Judged
  <1>4. QED
    BY <1>2, <1>3

-----------------------------------------------------------------------------
(* The alarms of the lines.                                                *)

LEMMA RunCopies ==
  ASSUME PlantTypes, ListsOK, WiringOK, CopiesFresh, NEW t \in Threads, Runs(t)
  PROVE  CopiesFresh'
  <1> DEFINE x == Now(t)
  <1>1. PICK steps \in Seq(Steps) : Then(t, steps) /\ todo[t] # <<>> /\ Follows(t, steps)
    BY RunFollows
  <1>2. todo'[t] \in Seq(Steps) /\ \A u \in Threads : u # t => todo'[u] = todo[u]
    BY <1>1, ThenIs
  <1>h. ASSUME NEW name, At(t, name) PROVE x \in Steps /\ x.op = name
    BY <1>h, AtIs
  \* Only the announcement of a line makes a copy.
  <1>3. ASSUME At(t, "line")' PROVE At(t, "notifyLine")
    <2>1. todo'[t] # <<>> /\ todo'[t][1].op = "line"
      BY <1>2, <1>3, ListParts DEF At
    <2>2. steps # <<>> /\ steps[1].op = "line"
      BY <1>1, <2>1, ThenIs DEF Immediate
    <2>3. QED
      BY <1>1, <2>2 DEF Follows
  <1>q. ASSUME ~At(t, "notifyLine"), status' = status, crossed' = crossed PROVE CopiesFresh'
    <2>1. ASSUME NEW u \in Threads, At(u, "line")'
          PROVE  At(u, "line") /\ Now(u)' = Now(u)
      <3>1. u # t
        BY <1>3, <1>q, <2>1
      <3>2. QED
        BY <1>2, <2>1, <3>1 DEF At, Now
    <2>2. QED
      BY <1>q, <2>1 DEF CopiesFresh
  <1>s. ASSUME ~At(t, "notifyLine"), NEW L \in SUBSET ToSet(Lines),
               \A l \in ToSet(Lines) \ L : status'[l] = status[l],
               crossed' = crossed \cup {l \in L : Held(l)}
        PROVE  CopiesFresh'
    <2>1. ASSUME NEW l \in ToSet(Lines) \ crossed', NEW u \in Threads,
                 At(u, "line")', Now(u)'.of = l
          PROVE  Now(u)'.value = status'[l]
      <3>1. u # t
        BY <1>3, <1>s, <2>1
      <3>2. At(u, "line") /\ Now(u)' = Now(u)
        BY <1>2, <2>1, <3>1 DEF At, Now
      <3>3. Held(l)
        BY <2>1, <3>2 DEF Held
      <3>4. l \notin L /\ l \notin crossed
        BY <1>s, <2>1, <3>3
      <3>5. QED
        BY <1>s, <2>1, <3>2, <3>4 DEF CopiesFresh
    <2>2. QED
      BY <2>1 DEF CopiesFresh
  <1>4. CASE StoreStatus(t)
    <2>1. /\ x \in Steps /\ x.op = "setStatus" /\ ~At(t, "notifyLine")
          /\ status' = [status EXCEPT ![x.of] = x.value]
          /\ crossed' = crossed \cup {l \in {x.of} : Held(l)}
      BY <1>4, <1>h DEF StoreStatus
    <2>2. {x.of} \in SUBSET ToSet(Lines)
      BY <2>1, StepIs
    <2>3. \A l \in ToSet(Lines) \ {x.of} : status'[l] = status[l]
      BY <2>1 DEF PlantTypes
    <2>4. QED
      BY <1>s, <2>1, <2>2, <2>3
  <1>5. CASE DemoData(t)
    <2>1. ~At(t, "notifyLine") /\ crossed' = crossed \cup {l \in ToSet(Lines) : Held(l)}
      BY <1>5, <1>h DEF DemoData
    <2>2. QED
      BY <1>s, <2>1
  <1>6. CASE NotifyLineStep(t)
    <2>1. /\ x \in Steps /\ x.op = "notifyLine" /\ status' = status
          /\ Then(t, IF wired THEN <<Step("line", x.of, status[x.of])>> ELSE <<>>)
          /\ crossed' = crossed \ {l \in {x.of} : wired /\ ~Held(l)}
      BY <1>6, <1>h DEF NotifyLineStep, plant
    <2>2. x.of \in ToSet(Lines) /\ status[x.of] \in Statuses
      BY <2>1, StepIs DEF PlantTypes
    <2>3. ASSUME NEW l \in ToSet(Lines) \ crossed', NEW u \in Threads,
                 At(u, "line")', Now(u)'.of = l
          PROVE  Now(u)'.value = status[l]
      <3>1. CASE u # t
        <4>1. At(u, "line") /\ Now(u)' = Now(u)
          BY <1>2, <2>3, <3>1 DEF At, Now
        <4>2. Held(l)
          BY <2>3, <4>1 DEF Held
        <4>3. l \notin crossed
          BY <2>1, <2>3, <4>2
        <4>4. QED
          BY <2>3, <4>1, <4>3 DEF CopiesFresh
      <3>2. CASE u = t
        <4>1. wired
          <5>1. SUFFICES ASSUME ~wired PROVE FALSE
            OBVIOUS
          <5>2. Then(t, <<>>)
            BY <2>1, <5>1
          <5>3. QED
            BY <1>1, <2>3, <3>2, <5>2, ThenNone DEF At, Immediate
        <4>2. Then(t, <<Step("line", x.of, status[x.of])>>)
          BY <2>1, <4>1
        <4>3. Now(u)' = Step("line", x.of, status[x.of])
          BY <1>1, <2>2, <3>2, <4>2, StepMade, ThenOne DEF Now
        <4>4. QED
          BY <2>3, <4>3, StepRead
      <3>3. QED
        BY <3>1, <3>2
    <2>4. QED
      BY <2>1, <2>3 DEF CopiesFresh
  <1>7. CASE \/ ProcessEvent(t) \/ EnterState(t) \/ AfterDispatch(t) \/ CompareNotified(t)
             \/ HandleSystemState(t) \/ RememberState(t) \/ ShowControlPanel(t)
             \/ ClearCallbacks(t) \/ Initialize(t) \/ NotifyStateStep(t)
    BY <1>7, <1>h, <1>q DEF ProcessEvent, EnterState, AfterDispatch, CompareNotified,
       HandleSystemState, RememberState, ShowControlPanel, ClearCallbacks, Initialize,
       NotifyStateStep, plant, lost
  <1>8. CASE \/ ProductionCycle(t) \/ ZeroWorkUnit(t) \/ StoreRate(t) \/ SimulationStep(t)
             \/ NotifyRateStep(t) \/ HandleQualityCheckpoint(t) \/ HandleEquipmentStatus(t)
             \/ JudgeQuality(t)
    BY <1>8, <1>h, <1>q DEF ProductionCycle, ZeroWorkUnit, StoreRate, SimulationStep,
       NotifyRateStep, HandleQualityCheckpoint, HandleEquipmentStatus, JudgeQuality, plant, lost
  <1>9. CASE OrphanDoesNothing(t)
    <2>1. ~At(t, "notifyLine")
      BY <1>9, <1>h DEF OrphanDoesNothing, WiringOK, At, Now, PlantTypes
    <2>2. QED
      BY <1>9, <1>q, <2>1 DEF OrphanDoesNothing, plant
  <1>10. QED
    BY <1>4, <1>5, <1>6, <1>7, <1>8, <1>9 DEF Runs

LEMMA CallCopies ==
  ASSUME PlantTypes, CopiesFresh, NEW t \in Threads, NEW steps \in Seq(Steps),
         Calls(t, steps), Call(t, steps)
  PROVE  CopiesFresh'
  <1>1. status' = status /\ crossed' = crossed
    BY CallsIs DEF plant, lost
  <1>2. ASSUME NEW u \in Threads, At(u, "line")'
        PROVE  At(u, "line") /\ Now(u)' = Now(u)
    <2>1. u # t
      BY <1>2, CallsIs DEF At, Immediate
    <2>2. QED
      BY <1>2, <2>1, CallsIs DEF At, Now
  <1>3. QED
    BY <1>1, <1>2 DEF CopiesFresh

\* A step about something else leaves a line as it is.
LEMMA LineUntouched ==
  ASSUME PlantTypes, ListsOK, WrongIsAnnounced, NEW t \in Threads, todo[t] # <<>>,
         NEW steps \in Seq(Steps), Then(t, steps),
         NEW l \in ToSet(Lines) \ crossed, status'[l] = status[l],
         l \in reported' <=> l \in reported, l \in dismissed' <=> l \in dismissed,
         orphaned' \subseteq orphaned,
         Now(t).op \in {"setStatus", "notifyLine"} => Now(t).of # l,
         Now(t).op = "line" => Now(t).of # l \/ t \in orphaned
  PROVE  LineAlarmOK(l)' \/ \E u \in Threads : Announces(u, l)'
  <1>1. CASE LineAlarmOK(l)
    BY <1>1 DEF LineAlarmOK
  <1>2. CASE ~LineAlarmOK(l)
    <2>1. PICK u \in Threads : Announces(u, l)
      BY <1>2 DEF WrongIsAnnounced
    <2>2. CASE u # t
      <3>1. todo'[u] = todo[u]
        BY <2>2, ThenIs
      <3>2. Announces(u, l)'
        BY <2>1, <3>1 DEF Announces, At, Now
      <3>3. QED
        BY <3>2
    <2>3. CASE u = t
      <3>1. todo[t] \in Seq(Steps) /\ Now(t) = todo[t][1] /\ Len(todo[t]) \in Nat
        BY ListParts DEF Now, PlantTypes
      <3>2. PICK i \in 1 .. Len(todo[t]) :
              todo[t][i].op \in {"setStatus", "notifyLine"} /\ todo[t][i].of = l
        BY <2>1, <2>3 DEF Announces, At, Now
      <3>3. i # 1
        BY <3>1, <3>2
      <3>4. i \in 2 .. Len(todo[t])
        BY <3>1, <3>3
      <3>5. PICK j \in 1 .. Len(todo'[t]) : todo'[t][j] = todo[t][i]
        BY <3>4, ThenIs
      <3>6. Announces(t, l)'
        BY <3>2, <3>5 DEF Announces
      <3>7. QED
        BY <3>6
    <2>4. QED
      BY <2>2, <2>3
  <1>3. QED
    BY <1>1, <1>2

LEMMA RunAnnounced ==
  ASSUME PlantTypes, ListsOK, WiringOK, CopiesFresh, WrongIsAnnounced,
         NEW t \in Threads, Runs(t)
  PROVE  WrongIsAnnounced'
  <1> DEFINE x == Now(t)
  <1>1. PICK steps \in Seq(Steps) : Then(t, steps) /\ todo[t] # <<>> /\ Follows(t, steps)
    BY RunFollows
  <1>2. /\ todo[t] \in Seq(Steps) /\ x = todo[t][1] /\ Gui \in Threads
        /\ \A u \in Threads : u # t => todo'[u] = todo[u]
    BY <1>1, ListParts, ThenIs, ProductionConstants DEF Now, PlantTypes
  <1>h. ASSUME NEW name, At(t, name) PROVE x \in Steps /\ x.op = name
    BY <1>h, AtIs
  <1> SUFFICES ASSUME NEW l \in ToSet(Lines), l \notin crossed'
               PROVE  LineAlarmOK(l)' \/ \E u \in Threads : Announces(u, l)'
    BY DEF WrongIsAnnounced
  <1>q. ASSUME l \notin crossed, status'[l] = status[l],
               l \in reported' <=> l \in reported, l \in dismissed' <=> l \in dismissed,
               orphaned' \subseteq orphaned,
               x.op \in {"setStatus", "notifyLine"} => x.of # l,
               x.op = "line" => x.of # l \/ t \in orphaned
        PROVE  LineAlarmOK(l)' \/ \E u \in Threads : Announces(u, l)'
    <2>1. l \in ToSet(Lines) \ crossed
      BY <1>q
    <2>2. QED
      BY <1>1, <1>q, <2>1, LineUntouched
  <1>k. l # SystemError /\ l \notin ToSet(Checkpoints)
    BY ProductionConstants
  \* What starts the model over announces every line later.
  <1>s. ASSUME t = Gui, x.op \in StartsOver PROVE \E u \in Threads : Announces(u, l)'
    <2>1. 1 \in 1 .. Len(todo[t])
      BY <1>1, <1>2, ListParts
    <2>2. PICK i \in 1 + 1 .. Len(todo[t]) : todo[t][i] = NotifyLine(l)
      BY <1>2, <1>s, <2>1 DEF ListsOK, ListOK
    <2>3. PICK j \in 1 .. Len(todo'[t]) : todo'[t][j] = NotifyLine(l)
      BY <1>1, <2>2, ThenIs
    <2>4. Announces(t, l)'
      BY <2>3, StepRead DEF Announces, NotifyLine
    <2>5. QED
      BY <2>4
  <1>3. CASE StoreStatus(t)
    <2>1. /\ x \in Steps /\ x.op = "setStatus" /\ Then(t, <<NotifyLine(x.of)>>)
          /\ status' = [status EXCEPT ![x.of] = x.value] /\ crossed \subseteq crossed'
          /\ UNCHANGED <<reported, dismissed, orphaned>>
      BY <1>3, <1>h DEF StoreStatus, alarms
    <2>2. CASE x.of = l
      <3>1. NotifyLine(l) \in Steps /\ NotifyLine(l).op = "notifyLine" /\ NotifyLine(l).of = l
        BY StepMade, StepRead DEF NotifyLine
      <3>2. todo'[t][1] = NotifyLine(l) /\ 1 \in 1 .. Len(todo'[t])
        BY <1>1, <2>1, <2>2, <3>1, ThenOne
      <3>3. Announces(t, l)'
        BY <3>1, <3>2 DEF Announces
      <3>4. QED
        BY <3>3
    <2>3. CASE x.of # l
      <3>1. status'[l] = status[l]
        BY <2>1, <2>3 DEF PlantTypes
      <3>2. QED
        BY <1>q, <2>1, <2>3, <3>1
    <2>4. QED
      BY <2>2, <2>3
  <1>4. CASE NotifyLineStep(t)
    <2>1. /\ x \in Steps /\ x.op = "notifyLine"
          /\ Then(t, IF wired THEN <<Step("line", x.of, status[x.of])>> ELSE <<>>)
          /\ crossed' = crossed \ {k \in {x.of} : wired /\ ~Held(k)}
          /\ UNCHANGED <<status, reported, dismissed, orphaned>>
      BY <1>4, <1>h DEF NotifyLineStep, plant, alarms
    <2>2. CASE x.of = l /\ wired = TRUE
      <3>1. Then(t, <<Step("line", l, status[l])>>)
        BY <2>1, <2>2
      <3>2. Step("line", l, status[l]) \in Steps
        BY StepMade DEF PlantTypes
      <3>3. todo'[t] # <<>> /\ Head(todo'[t]) = Step("line", l, status[l])
        BY <1>1, <3>1, <3>2, ThenOne
      <3>4. t \notin orphaned'
        BY <1>2, <2>1 DEF WiringOK
      <3>5. Announces(t, l)'
        BY <3>3, <3>4, StepRead DEF Announces, At, Now
      <3>6. QED
        BY <3>5
    <2>3. CASE wired # TRUE
      <3>1. At(Gui, "initialize")
        BY <2>3 DEF WiringOK
      <3>2. todo[Gui] \in Seq(Steps) /\ todo[Gui] # <<>> /\ todo[Gui][1].op = "initialize"
        BY <1>2, <3>1, AtIs
      <3>3. Gui # t
        BY <1>2, <2>1, <3>2
      <3>4. 1 \in 1 .. Len(todo[Gui])
        BY <3>2, ListParts
      <3>5. PICK i \in 1 + 1 .. Len(todo[Gui]) : todo[Gui][i] = NotifyLine(l)
        BY <1>2, <3>2, <3>4 DEF ListsOK, ListOK, StartsOver
      <3>6. i \in 1 .. Len(todo[Gui])
        BY <3>2, <3>5, ListParts
      <3>7. Announces(Gui, l)'
        BY <1>2, <3>3, <3>5, <3>6, StepRead DEF Announces, NotifyLine
      <3>8. QED
        BY <1>2, <3>7
    <2>4. CASE x.of # l
      BY <1>q, <2>1, <2>4
    <2>5. QED
      BY <2>2, <2>3, <2>4
  <1>5. CASE HandleEquipmentStatus(t)
    <2>1. /\ At(t, "line") /\ x \in Steps /\ x.op = "line" /\ crossed' = crossed /\ status' = status
          /\ orphaned' \subseteq orphaned
          /\ IF x.value = "Offline" THEN Raise(x.of) ELSE Clear(x.of)
      BY <1>5, <1>h DEF HandleEquipmentStatus, Returned, plant
    <2>2. CASE x.of = l
      <3>1. x.value = status[l]
        BY <2>1, <2>2 DEF CopiesFresh
      <3>2. LineAlarmOK(l)'
        BY <2>1, <2>2, <3>1 DEF LineAlarmOK, Raise, Clear
      <3>3. QED
        BY <3>2
    <2>3. CASE x.of # l
      BY <1>q, <2>1, <2>3 DEF Raise, Clear
    <2>4. QED
      BY <2>2, <2>3
  <1>6. CASE JudgeQuality(t)
    <2>1. /\ x \in Steps /\ x.op = "judge" /\ crossed' = crossed /\ status' = status
          /\ orphaned' \subseteq orphaned /\ (Raise(x.of) \/ Clear(x.of))
      BY <1>6, <1>h DEF JudgeQuality, Returned, plant
    <2>2. x.of # l
      BY <1>k, <2>1, StepIs
    <2>3. QED
      BY <1>q, <2>1, <2>2 DEF Raise, Clear
  <1>7. CASE HandleSystemState(t)
    <2>1. /\ x.op = "state" /\ UNCHANGED <<status, crossed, orphaned>>
          /\ Raise(SystemError) \/ Clear(SystemError) \/ UNCHANGED alarms
      BY <1>7, <1>h DEF HandleSystemState, plant
    <2>2. QED
      BY <1>k, <1>q, <2>1 DEF Raise, Clear, alarms
  <1>8. CASE Initialize(t) \/ DemoData(t)
    <2>1. t = Gui /\ x.op \in StartsOver
      BY <1>8, <1>h, AtIs DEF Initialize, DemoData, GuiOnly, StartsOver
    <2>2. QED
      BY <1>s, <2>1
  <1>9. CASE OrphanDoesNothing(t)
    <2>1. /\ t \in orphaned /\ x.op \in {"line", "quality", "judge"}
          /\ UNCHANGED <<status, crossed, reported, dismissed>> /\ orphaned' \subseteq orphaned
      BY <1>2, <1>9 DEF OrphanDoesNothing, Returned, WiringOK, plant, alarms
    <2>2. QED
      BY <1>q, <2>1
  <1>10. CASE \/ ProcessEvent(t) \/ EnterState(t) \/ AfterDispatch(t) \/ CompareNotified(t)
              \/ RememberState(t) \/ ShowControlPanel(t) \/ ClearCallbacks(t)
    <2>1. /\ x.op \notin {"setStatus", "notifyLine", "line"} /\ orphaned' \subseteq orphaned
          /\ UNCHANGED <<status, crossed, reported, dismissed>>
      BY <1>10, <1>h DEF ProcessEvent, EnterState, AfterDispatch, CompareNotified, RememberState,
         ShowControlPanel, ClearCallbacks, Returned, plant, alarms, lost
    <2>2. QED
      BY <1>q, <2>1
  <1>11. CASE \/ ProductionCycle(t) \/ ZeroWorkUnit(t) \/ StoreRate(t) \/ SimulationStep(t)
              \/ NotifyRateStep(t) \/ NotifyStateStep(t) \/ HandleQualityCheckpoint(t)
    <2>1. /\ x.op \notin {"setStatus", "notifyLine", "line"}
          /\ UNCHANGED <<status, crossed, orphaned, reported, dismissed>>
      BY <1>11, <1>h DEF ProductionCycle, ZeroWorkUnit, StoreRate, SimulationStep, NotifyRateStep,
         NotifyStateStep, HandleQualityCheckpoint, plant, alarms, lost
    <2>2. QED
      BY <1>q, <2>1
  <1>12. QED
    BY <1>3, <1>4, <1>5, <1>6, <1>7, <1>8, <1>9, <1>10, <1>11 DEF Runs

LEMMA CallAnnounced ==
  ASSUME PlantTypes, WrongIsAnnounced, NEW t \in Threads, NEW steps \in Seq(Steps),
         Calls(t, steps), Call(t, steps)
  PROVE  WrongIsAnnounced'
  <1>1. UNCHANGED <<status, crossed, orphaned, reported, dismissed>>
    BY CallsIs DEF plant, alarms, lost
  <1>2. \A l \in ToSet(Lines) : LineAlarmOK(l) => LineAlarmOK(l)'
    BY <1>1 DEF LineAlarmOK
  <1>3. ASSUME NEW l \in ToSet(Lines), NEW u \in Threads, Announces(u, l) PROVE Announces(u, l)'
    <2>1. u # t
      BY <1>3, CallsIs DEF Announces, At
    <2>2. todo'[u] = todo[u]
      BY <2>1, CallsIs
    <2>3. QED
      BY <1>1, <1>3, <2>2 DEF Announces, At, Now
  <1>4. QED
    BY <1>1, <1>2, <1>3 DEF WrongIsAnnounced

-----------------------------------------------------------------------------
(* Clearing the alarms, and the whole.                                     *)

LEMMA ClearAllKeeps ==
  ASSUME PlantInv, ClearAll
  PROVE  PlantInv'
  <1>1. /\ reported' = {} /\ dismissed' = dismissed \cup (reported \ ToSet(Checkpoints))
        /\ UNCHANGED <<sm, lastNotified, status, wired, prev, panel, todo, crossed, orphaned, abandoned>>
    BY DEF ClearAll, machine, plant, presenter, lost
  <1>2. SystemError \notin ToSet(Checkpoints) /\ \A l \in ToSet(Lines) : l \notin ToSet(Checkpoints)
    BY ProductionConstants
  <1>3. ListsOK' /\ WiringOK' /\ StateHeard' /\ CopiesFresh'
    BY <1>1 DEF PlantInv, ListsOK, ListOK, WiringOK, StateHeard, CopiesFresh, At, Now
  <1>4. FaultAlarmOK'
    BY <1>1, <1>2 DEF PlantInv, FaultAlarmOK, Judged, At, Now
  <1>5. \A l \in ToSet(Lines) : LineAlarmOK(l) => LineAlarmOK(l)'
    BY <1>1, <1>2 DEF LineAlarmOK
  <1>6. \A l \in ToSet(Lines), u \in Threads : Announces(u, l) => Announces(u, l)'
    BY <1>1 DEF Announces, At, Now
  <1>7. WrongIsAnnounced'
    BY <1>1, <1>5, <1>6 DEF PlantInv, WrongIsAnnounced
  <1>8. QED
    BY <1>3, <1>4, <1>7 DEF PlantInv

LEMMA PlantStarts ==
  ASSUME ProductionInit
  PROVE  PlantTypes /\ PlantFlags /\ PlantInv
  <1>1. /\ todo = [t \in Threads |-> <<>>] /\ <<>> \in Seq(Steps)
        /\ \A t \in Threads : todo[t] = <<>>
    BY FollowsNone DEF ProductionInit
  <1>2. PlantTypes
    BY <1>1, ProductionConstants DEF ProductionInit, PlantTypes, States, Abnormal
  <1>3. PlantFlags
    BY DEF ProductionInit, PlantFlags
  <1>4. ListsOK
    BY <1>1 DEF ListsOK, ListOK
  <1>5. Gui \in Threads
    BY ProductionConstants
  <1>6. WiringOK /\ StateHeard /\ CopiesFresh
    BY <1>1, <1>5 DEF ProductionInit, WiringOK, StateHeard, CopiesFresh, At
  <1>7. SystemError \notin reported
    BY ProductionConstants DEF ProductionInit, Abnormal
  <1>8. FaultAlarmOK
    BY <1>1, <1>5, <1>7 DEF ProductionInit, FaultAlarmOK, Judged, At
  <1>9. ASSUME NEW l \in ToSet(Lines) PROVE LineAlarmOK(l)
    <2>1. l \in Keys /\ l # SystemError /\ l \notin ToSet(Checkpoints)
      BY ProductionConstants, KeysIn
    <2>2. QED
      BY <2>1 DEF ProductionInit, LineAlarmOK, Abnormal
  <1>10. QED
    BY <1>2, <1>3, <1>4, <1>6, <1>8, <1>9 DEF PlantInv, WrongIsAnnounced

LEMMA PlantKeepsFlags ==
  ASSUME PlantFlags, [ProductionNext]_productionVars
  PROVE  PlantFlags'
  <1>1. CASE UNCHANGED productionVars
    BY <1>1 DEF PlantFlags, productionVars, presenter, lost
  <1>2. CASE GuiCall
    BY <1>2 DEF GuiCall, Drive, Enable, LoadProduct, TriggerFault, TickSimulation, RepublishAll,
       Rebuild, ClearAll, StartProduction, StopProduction, ResetSystem, StartCalibration,
       SetEquipmentEnabled, Calls, PlantFlags, presenter, lost
  <1>3. ASSUME NEW t \in Threads \ {Gui}, RemoteCall(t) PROVE PlantFlags'
    <2>1. \/ Drive(t) \/ Enable(t)
          \/ \E l \in ToSet(Lines) : SetEquipmentSupplyLevel(t, l)
          \/ \E c \in ToSet(Checkpoints), r \in Rates : SetQualityPassRate(t, c, r)
      BY <1>3, ProductionConstants DEF RemoteCall
    <2>2. QED
      BY <2>1 DEF Drive, Enable, StartProduction, StopProduction, ResetSystem, StartCalibration,
         SetEquipmentEnabled, SetEquipmentSupplyLevel, SetQualityPassRate, Calls, PlantFlags,
         presenter, lost
  <1>4. ASSUME NEW t \in Threads, Runs(t) PROVE PlantFlags'
    <2>1. CASE \/ ProcessEvent(t) \/ EnterState(t) \/ AfterDispatch(t) \/ CompareNotified(t)
               \/ ProductionCycle(t) \/ ZeroWorkUnit(t) \/ StoreStatus(t) \/ StoreRate(t)
               \/ SimulationStep(t) \/ DemoData(t)
      BY <2>1 DEF ProcessEvent, EnterState, AfterDispatch, CompareNotified, ProductionCycle,
         ZeroWorkUnit, StoreStatus, StoreRate, SimulationStep, DemoData, PlantFlags, presenter, lost
    <2>2. CASE \/ NotifyLineStep(t) \/ NotifyRateStep(t) \/ NotifyStateStep(t)
               \/ HandleEquipmentStatus(t) \/ HandleQualityCheckpoint(t) \/ JudgeQuality(t)
               \/ RememberState(t) \/ ShowControlPanel(t) \/ OrphanDoesNothing(t)
      BY <2>2 DEF NotifyLineStep, NotifyRateStep, NotifyStateStep, HandleEquipmentStatus,
         HandleQualityCheckpoint, JudgeQuality, RememberState, ShowControlPanel, OrphanDoesNothing,
         PlantFlags, presenter, lost
    <2>3. CASE ClearCallbacks(t) \/ Initialize(t)
      BY <2>3 DEF ClearCallbacks, Initialize, PlantFlags, lost
    <2>4. CASE HandleSystemState(t)
      BY <2>4 DEF HandleSystemState, PlantFlags, presenter
    <2>5. QED
      BY <1>4, <2>1, <2>2, <2>3, <2>4 DEF Runs
  <1>5. QED
    BY <1>1, <1>2, <1>3, <1>4 DEF ProductionNext

LEMMA PlantKept ==
  ASSUME "state" \notin Remote, PlantTypes, PlantInv, [ProductionNext]_productionVars
  PROVE  PlantTypes' /\ PlantInv'
  <1>1. CASE UNCHANGED productionVars
    <2>1. UNCHANGED <<sm, lastNotified, completed, status, rate, external, wired, prev, panel,
                      reported, dismissed, todo, crossed, orphaned, abandoned>>
      BY <1>1 DEF productionVars, machine, plant, presenter, alarms, lost
    <2>2. PlantTypes'
      BY <2>1 DEF PlantTypes
    <2>3. ListsOK' /\ WiringOK' /\ StateHeard' /\ CopiesFresh' /\ FaultAlarmOK'
      BY <2>1 DEF PlantInv, ListsOK, ListOK, WiringOK, StateHeard, CopiesFresh, FaultAlarmOK,
         Judged, At, Now
    <2>4. WrongIsAnnounced'
      BY <2>1 DEF PlantInv, WrongIsAnnounced, LineAlarmOK, Announces, At, Now
    <2>5. QED
      BY <2>2, <2>3, <2>4 DEF PlantInv
  <1>2. CASE ClearAll
    BY <1>2, ClearAllKeeps, ClearAllTyped
  <1>3. ASSUME NEW t \in Threads, NEW steps \in Seq(Steps), Calls(t, steps), Call(t, steps)
        PROVE  PlantTypes' /\ PlantInv'
    BY <1>3, CallTyped, CallKeepsLists, CallWiring, CallState, CallFault, CallCopies, CallAnnounced
       DEF PlantInv
  <1>4. ASSUME NEW t \in Threads, Runs(t)
        PROVE  PlantTypes' /\ PlantInv'
    BY <1>4, RunTyped, RunKeepsLists, RunWiring, RunState, RunFault, RunCopies, RunAnnounced
       DEF PlantInv
  <1>5. QED
    BY <1>1, <1>2, <1>3, <1>4, CallIs DEF ProductionNext

LEMMA PlantImplies ==
  ASSUME PlantTypes, PlantFlags, PlantInv
  PROVE  ProductionTypeOK /\ AlarmsTellTheTruth
  <1>1. ProductionTypeOK
    BY DEF PlantTypes, PlantFlags, ProductionTypeOK
  <1>2. ASSUME todo[Gui] = <<>>
        PROVE  /\ panel = sm /\ lastNotified = sm /\ prev = sm
               /\ sm = "ERROR" => SystemError \in reported \cup dismissed
               /\ SystemError \in reported => sm = "ERROR" \/ abandoned
    <2>1. lastNotified = sm /\ prev = lastNotified /\ panel = lastNotified
      BY <1>2 DEF PlantInv, StateHeard
    <2>2. Judged = prev
      BY <1>2 DEF Judged, At
    <2>3. QED
      BY <2>1, <2>2 DEF PlantInv, FaultAlarmOK
  <1>3. ASSUME Quiet, NEW l \in ToSet(Lines) \ crossed
        PROVE  LineAlarmOK(l)
    <2>1. \A t \in Threads : ~Announces(t, l)
      BY <1>3 DEF Quiet, Announces, At
    <2>2. QED
      BY <2>1 DEF PlantInv, WrongIsAnnounced
  <1>4. QED
    BY <1>1, <1>2, <1>3 DEF AlarmsTellTheTruth, LineAlarmOK

\* SimulatedModel, SystemStateMachine and DashboardPresenter: whatever the
\* ingest bridges, TCP and OPC-UA do to lines and rates, as long as only the
\* GUI thread drives the state machine the types hold: every step of every
\* call is about a line, a checkpoint or a state there is.
THEOREM PlantTyped ==
  ASSUME "state" \notin Remote
  PROVE  ProductionSpec => []ProductionTypeOK
  <1>1. ProductionInit => PlantTypes /\ PlantFlags /\ PlantInv
    BY PlantStarts
  <1>2. PlantTypes /\ PlantFlags /\ PlantInv /\ [ProductionNext]_productionVars
          => (PlantTypes /\ PlantFlags /\ PlantInv)'
    BY PlantKept, PlantKeepsFlags
  <1>3. PlantTypes /\ PlantFlags /\ PlantInv => ProductionTypeOK
    BY PlantImplies
  <1>4. QED
    BY <1>1, <1>2, <1>3, PTL DEF ProductionSpec

\* DashboardPresenter: under the same hypothesis, whenever the GUI thread is
\* in no call the fault alarm and the control panel are those of the model's
\* state, and when no thread is in a call so are the alarms of the lines that
\* were not crossed.
THEOREM PlantAlarmsTrue ==
  ASSUME "state" \notin Remote
  PROVE  ProductionSpec => []AlarmsTellTheTruth
  <1>1. ProductionInit => PlantTypes /\ PlantFlags /\ PlantInv
    BY PlantStarts
  <1>2. PlantTypes /\ PlantFlags /\ PlantInv /\ [ProductionNext]_productionVars
          => (PlantTypes /\ PlantFlags /\ PlantInv)'
    BY PlantKept, PlantKeepsFlags
  <1>3. PlantTypes /\ PlantFlags /\ PlantInv => AlarmsTellTheTruth
    BY PlantImplies
  <1>4. QED
    BY <1>1, <1>2, <1>3, PTL DEF ProductionSpec
=============================================================================
