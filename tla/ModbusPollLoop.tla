--------------------------- MODULE ModbusPollLoop ---------------------------
(***************************************************************************)
(* The Modbus ingest path (src/integration/modbus): ModbusPollLoop's poll  *)
(* thread walks the register map and pushes what it read into a queue, its *)
(* drain thread pops the samples and hands them to ModbusIngestBridge,     *)
(* which passes on to the production model what differs from the value it  *)
(* passed on last.  A controller starts and stops the two threads.         *)
(*                                                                         *)
(* The queue is the one BoundedFifo specifies, which SpscQueue implements. *)
(* A condition-variable wait is split into the evaluation of its predicate *)
(* and the wait itself, because the poll thread notifies without the       *)
(* mutex and its notification may fall between the two.                    *)
(*                                                                         *)
(* Values are scaled ones.  Of the model only what a register feeds is     *)
(* kept: the pass rate of a checkpoint or the status of an equipment line. *)
(* Others write these fields too: the operator, the network commands, the  *)
(* MQTT and OPC UA ingest bridges and the simulation.                      *)
(***************************************************************************)
EXTENDS Naturals, Sequences

CONSTANTS RegisterMap,    \* the registers in the order they are polled
          RateRegisters,  \* those that feed a pass rate; the others an equipment line
          Values,         \* what a register may hold
          Demo,           \* what initializeDemoData() stores
          QueueDepth,     \* what the queue can hold
          None

Registers == {RegisterMap[i] : i \in DOMAIN RegisterMap}

Samples == [register : Registers, value : Values]

ASSUME ModbusConstants ==
  /\ RegisterMap \in Seq(Registers)
  /\ RateRegisters \subseteq Registers
  /\ Demo \in Values /\ None \notin Values /\ None \notin Samples
  /\ QueueDepth \in Nat \ {0}

VARIABLES
  device,                 \* what the slaves' registers hold
  poll, at, pollStop,     \* the poll thread, the entry it is at, its stop token
  queue,
  drain, hand, drainStop, \* the drain thread, the sample it popped, its stop token
  lastPushed,             \* per register: the newest value pushed
  cached,                 \* the bridge's per-register cache
  shown,                  \* the model's field
  owned,                  \* externalPassRateOverrides_
  ready,                  \* the model has its checkpoints
  held,                   \* registers whose field the bridge was the last to write
  ctl                     \* the controller

producer == <<poll, at, pollStop, lastPushed>>
consumer == <<drain, hand, drainStop>>
domain == <<cached, shown, owned, ready, held>>
vars == <<device, producer, queue, consumer, domain, ctl>>

Fifo == INSTANCE BoundedFifo WITH
          Items <- Samples, Depth <- QueueDepth, NoItem <- None, q <- queue, out <- hand

Init ==
  /\ device \in [Registers -> Values]
  /\ poll = "none" /\ at = 0 /\ pollStop = FALSE
  /\ queue = <<>>
  /\ drain = "none" /\ hand = None /\ drainStop = FALSE
  /\ lastPushed = [r \in Registers |-> None]
  /\ cached = [r \in Registers |-> None]
  /\ shown = [r \in Registers |-> Demo]
  /\ owned = {}
  /\ ready = FALSE /\ held = {}
  /\ ctl = "stopped"

-----------------------------------------------------------------------------
(* The bridge and the model *)

\* The model's setters.  A pass rate for a checkpoint the model has not got
\* yet is dropped; one that is stored is marked as externally driven, whoever
\* stores it.
Store(r, value, holds) ==
  IF r \in RateRegisters /\ ~ready THEN UNCHANGED <<shown, owned, held>>
  ELSE /\ shown' = [shown EXCEPT ![r] = value]
       /\ held' = holds
       /\ owned' = owned \cup ({r} \cap RateRegisters)

\* onRegisterChanged(): a value equal to the cached one goes no further.
OnRegisterChanged(sample) ==
  /\ cached' = [cached EXCEPT ![sample.register] = sample.value]
  /\ IF cached[sample.register] = sample.value THEN UNCHANGED <<shown, owned, held>>
     ELSE Store(sample.register, sample.value, held \cup {sample.register})
  /\ UNCHANGED ready

-----------------------------------------------------------------------------
(* The poll thread: run() and pollOnce() *)

Entry == RegisterMap[at]
Reading == poll = "walk" /\ at <= Len(RegisterMap)

ReadFails ==
  /\ Reading
  /\ at' = at + 1
  /\ UNCHANGED <<device, poll, pollStop, lastPushed, queue, consumer, domain, ctl>>

\* The sample is pushed, or dropped when the queue is full.
ReadSucceeds ==
  /\ Reading
  /\ at' = at + 1
  /\ LET sample == [register |-> Entry, value |-> device[Entry]] IN
     \/ /\ Fifo!Push(sample)
        /\ lastPushed' = [lastPushed EXCEPT ![Entry] = device[Entry]]
     \/ /\ Len(queue) >= QueueDepth
        /\ UNCHANGED <<queue, lastPushed, hand>>
  /\ UNCHANGED <<device, poll, pollStop, drain, drainStop, domain, ctl>>

\* The end of a walk: notify_one() on drainCv_ reaches the drain thread only
\* when it is waiting.  run() then looks at its stop token.
PollNotify ==
  /\ poll = "walk" /\ at > Len(RegisterMap)
  /\ drain' = IF drain = "wait" THEN "check" ELSE drain
  /\ poll' = IF pollStop THEN "exited" ELSE "top"
  /\ UNCHANGED <<device, at, pollStop, lastPushed, queue, hand, drainStop, domain, ctl>>

\* The top of run()'s loop: the thread starts, its interval is over, or stop was
\* requested during it.
PollWake ==
  /\ poll = "top"
  /\ poll' = IF pollStop THEN "exited" ELSE "walk"
  /\ at' = 1
  /\ UNCHANGED <<device, pollStop, lastPushed, queue, consumer, domain, ctl>>

PollThread == ReadFails \/ ReadSucceeds \/ PollNotify \/ PollWake

-----------------------------------------------------------------------------
(* The drain thread: drainRun() and drainOnce() *)

DrainLoop ==
  /\ drain = "top"
  /\ drain' = IF drainStop THEN "exited" ELSE "pop"
  /\ UNCHANGED <<device, producer, queue, hand, drainStop, domain, ctl>>

DrainPop ==
  /\ drain = "pop" /\ hand = None
  /\ Fifo!Pop
  /\ UNCHANGED <<device, producer, drain, drainStop, domain, ctl>>

DrainDispatch ==
  /\ drain = "pop" /\ hand # None
  /\ OnRegisterChanged(hand)
  /\ hand' = None
  /\ UNCHANGED <<device, producer, queue, drain, drainStop, ctl>>

\* pop() found nothing: the loop ends or goes to wait.
DrainEmpty ==
  /\ drain = "pop" /\ hand = None
  /\ queue = <<>>
  /\ drain' = IF drainStop THEN "exited" ELSE "check"
  /\ UNCHANGED <<device, producer, queue, hand, drainStop, domain, ctl>>

\* The predicate of wait_for().
DrainCheck ==
  /\ drain = "check"
  /\ drain' = IF drainStop \/ queue # <<>> THEN "top" ELSE "wait"
  /\ UNCHANGED <<device, producer, queue, hand, drainStop, domain, ctl>>

\* kDrainWakeInterval is over.
DrainTimeout ==
  /\ drain = "wait"
  /\ drain' = "top"
  /\ UNCHANGED <<device, producer, queue, hand, drainStop, domain, ctl>>

DrainThread ==
  DrainLoop \/ DrainPop \/ DrainDispatch \/ DrainEmpty \/ DrainCheck \/ DrainTimeout

-----------------------------------------------------------------------------
(* The controller: start() and stop() *)

Start ==
  /\ ctl = "stopped"
  /\ drain' = "top" /\ drainStop' = FALSE
  /\ ctl' = "spawning"
  /\ UNCHANGED <<device, producer, queue, hand, domain>>

SpawnPoll ==
  /\ ctl = "spawning"
  /\ poll' = "top" /\ at' = 1 /\ pollStop' = FALSE
  /\ ctl' = "running"
  /\ UNCHANGED <<device, lastPushed, queue, consumer, domain>>

Stop ==
  /\ ctl = "running"
  /\ pollStop' = TRUE
  /\ ctl' = "joinPoll"
  /\ UNCHANGED <<device, poll, at, lastPushed, queue, consumer, domain>>

\* Defect: the consumer is notified but not asked to stop.
JoinPollNoRequest ==
  /\ ctl = "joinPoll"
  /\ poll = "exited"
  /\ poll' = "none"
  /\ drain' = IF drain = "wait" THEN "check" ELSE drain
  /\ ctl' = "joinDrain"
  /\ UNCHANGED <<device, at, pollStop, lastPushed, queue, hand, drainStop, domain>>

\* The producer is joined, then the consumer is asked to stop.  A stop token
\* wakes the wait whatever the moment.
JoinPoll ==
  /\ ctl = "joinPoll"
  /\ poll = "exited"
  /\ poll' = "none"
  /\ drainStop' = TRUE
  /\ drain' = IF drain = "wait" THEN "check" ELSE drain
  /\ ctl' = "joinDrain"
  /\ UNCHANGED <<device, at, pollStop, lastPushed, queue, hand, domain>>

JoinDrain ==
  /\ ctl = "joinDrain"
  /\ drain = "exited"
  /\ drain' = "none"
  /\ ctl' = "flush"
  /\ UNCHANGED <<device, producer, queue, hand, drainStop, domain>>

\* The final drainOnce(), one sample at a time.
Flush ==
  /\ ctl = "flush"
  /\ queue # <<>>
  /\ OnRegisterChanged(Head(queue))
  /\ queue' = Tail(queue)
  /\ UNCHANGED <<device, producer, consumer, ctl>>

\* Defect: what the consumer left behind is left there.
StopReturnsUnflushed ==
  /\ ctl = "flush"
  /\ ctl' = "stopped"
  /\ UNCHANGED <<device, producer, queue, consumer, domain>>

StopReturns ==
  /\ ctl = "flush"
  /\ queue = <<>>
  /\ ctl' = "stopped"
  /\ UNCHANGED <<device, producer, queue, consumer, domain>>

Stopping == SpawnPoll \/ JoinPoll \/ JoinDrain \/ Flush \/ StopReturns

-----------------------------------------------------------------------------
(* The model's own steps, and the plant *)

\* initializeDemoData(): when the window is built, by when main() has started
\* the back ends, and again whenever it is rebuilt in another language.
InitializeDemoData ==
  /\ ready' = TRUE
  /\ held' = {}
  /\ shown' = [r \in Registers |-> Demo]
  /\ UNCHANGED <<device, producer, queue, consumer, cached, owned, ctl>>

\* Defect: the walk does not spare the checkpoints the bridge feeds.
SimulationTickEverywhere ==
  /\ ready
  /\ \E r \in RateRegisters, v \in Values : shown' = [shown EXCEPT ![r] = v]
  /\ UNCHANGED <<device, producer, queue, consumer, cached, owned, ready, held, ctl>>

\* tickSimulation(): the random walk of the pass rates nobody feeds.
SimulationTick ==
  /\ ready
  /\ \E r \in RateRegisters \ owned, v \in Values : shown' = [shown EXCEPT ![r] = v]
  /\ UNCHANGED <<device, producer, queue, consumer, cached, owned, ready, held, ctl>>

\* Another source of the same field: onEquipmentToggled(), the `eq' command, an
\* MQTT topic or an OPC UA node.  The bridge's cache does not learn of it.
OtherWriter ==
  /\ \E r \in Registers, v \in Values : Store(r, v, held \ {r})
  /\ UNCHANGED <<device, producer, queue, consumer, cached, ready, ctl>>

RegisterChanges ==
  /\ \E r \in Registers, v \in Values : device' = [device EXCEPT ![r] = v]
  /\ UNCHANGED <<producer, queue, consumer, domain, ctl>>

-----------------------------------------------------------------------------
Next ==
  \/ PollThread \/ DrainThread
  \/ Start \/ Stop \/ Stopping
  \/ InitializeDemoData \/ SimulationTick \/ OtherWriter \/ RegisterChanges

\* The threads are scheduled, and a call of start() or stop() that was begun
\* goes on.
Fairness == WF_vars(PollThread) /\ WF_vars(DrainThread) /\ WF_vars(Stopping)

Spec == Init /\ [][Next]_vars /\ Fairness

-----------------------------------------------------------------------------
\* Types; the queue never holds more than it has slots.
TypeOK ==
  /\ device \in [Registers -> Values]
  /\ poll \in {"none", "top", "walk", "exited"} /\ at \in 0 .. Len(RegisterMap) + 1
  /\ pollStop \in BOOLEAN
  /\ queue \in Seq(Samples) /\ Len(queue) <= QueueDepth
  /\ drain \in {"none", "top", "pop", "check", "wait", "exited"}
  /\ hand \in Samples \cup {None} /\ drainStop \in BOOLEAN
  /\ lastPushed \in [Registers -> Values \cup {None}]
  /\ cached \in [Registers -> Values \cup {None}]
  /\ shown \in [Registers -> Values]
  /\ owned \subseteq RateRegisters /\ ready \in BOOLEAN /\ held \subseteq Registers
  /\ ctl \in {"stopped", "spawning", "running", "joinPoll", "joinDrain", "flush"}

\* SpscQueue and the bridge's cache are written for one consumer: the flush of
\* stop() never runs beside the drain thread, and what a thread popped is
\* dispatched before anybody else consumes.  No sample is pushed by then.
OneConsumer ==
  ctl \in {"flush", "stopped"} => drain = "none" /\ hand = None /\ poll = "none"

\* A clean stop loses nothing: when stop() has returned, the bridge has seen
\* the newest sample of every register that the queue accepted.
CleanStopLosesNothing ==
  ctl = "stopped" => queue = <<>> /\ cached = lastPushed

\* stop() returns, whatever the two threads are doing or waiting for.
StopEnds == ctl = "joinPoll" ~> ctl = "stopped"

\* The line is up: samples of r are read and accepted again and again.
GetsThrough(r) == []<><<ReadSucceeds /\ Entry = r /\ Len(queue) < QueueDepth>>_vars

\* The ingest path follows the plant: while the loop runs and a register keeps
\* a value, the bridge ends up with that value, though samples are lost and
\* dropped, and the model shows it wherever the bridge was the last to write,
\* though equal samples are suppressed and the simulation walks over the same
\* fields.  What another source or a rebuilt window wrote last stays: the
\* suppression of equal samples keeps the bridge from correcting it.
FollowsDevice ==
  \A r \in Registers, v \in Values :
    <>[](ctl = "running" /\ device[r] = v) /\ GetsThrough(r)
      => <>[](cached[r] = v /\ (r \in held => shown[r] = v))
=============================================================================
