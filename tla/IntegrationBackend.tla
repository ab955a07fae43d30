------------------------- MODULE IntegrationBackend -------------------------
(***************************************************************************)
(* What every channel to the outside has in common: the order in which the *)
(* composition root builds the back ends, and IntegrationManager, which    *)
(* starts them one after the other and stops them one after the other, on  *)
(* the main thread.  What a back end does in start() and stop(), and what  *)
(* its own thread does, is in the modules that extend this one.            *)
(***************************************************************************)
EXTENDS Naturals, Sequences, FiniteSets

CONSTANT Deployments   \* the sets of back ends a configuration may switch on

\* buildIntegrationServices() looks at the switches in this order.
kOrder == <<"tcp", "http", "serial", "mqtt", "opcua", "opcuaclient", "modbus", "station">>
Kinds  == {kOrder[i] : i \in DOMAIN kOrder}

\* Built from certificate files, which are read and checked on construction.
Secured == {"http", "opcua", "opcuaclient"}

ASSUME DeploymentsAssumption == Deployments \subseteq (SUBSET Kinds) \ {{}}

VARIABLES
    configured,  \* the switches of the network section
    list,        \* IntegrationManager::backends_
    mgr,         \* the main thread: [op, at, step]
    running,     \* the back ends whose running_ flag is set
    thread,      \* per back end: "none", "live", "ended" (returned, not joined)
    io,          \* per back end, its socket, port or server: "none", "open", "broken"
    errors       \* lastStartErrors_

life == <<configured, list, mgr, running, thread, io, errors>>

LifeInit ==
    /\ configured \in Deployments
    /\ list = <<>> /\ mgr = [op |-> "build", at |-> 1, step |-> "call"]
    /\ running = {} /\ errors = {}
    /\ thread = [b \in Kinds |-> "none"] /\ io = [b \in Kinds |-> "none"]

LifeTypeOK ==
    /\ configured \in Deployments /\ list \in Seq(Kinds)
    /\ mgr.op \in {"build", "fatal", "start", "up", "stop", "done", "gone"}
    /\ mgr.at \in 1..Len(kOrder)
    /\ running \subseteq Kinds /\ errors \subseteq Kinds
    /\ thread \in [Kinds -> {"none", "live", "ended"}]
    /\ io \in [Kinds -> {"none", "open", "broken"}]

At(op, b, step) ==
    /\ mgr.op = op /\ mgr.step = step
    /\ IF op = "build" THEN kOrder[mgr.at] = b ELSE list[mgr.at] = b

Step(step) == mgr' = [mgr EXCEPT !.step = step]

-----------------------------------------------------------------------------
(* Building the bundle.                                                    *)

Built == mgr' = IF mgr.at < Len(kOrder) THEN [mgr EXCEPT !.at = @ + 1]
                ELSE [op |-> "start", at |-> 1, step |-> "call"]

\* registerBackend(): the manager adopts a back end and does not start it.
registerBackend(b) ==
    /\ At("build", b, "call") /\ b \in configured
    /\ list' = Append(list, b) /\ Built
    /\ UNCHANGED <<configured, running, thread, io, errors>>

SwitchedOff ==
    /\ mgr.op = "build" /\ kOrder[mgr.at] \notin configured /\ Built
    /\ UNCHANGED <<configured, list, running, thread, io, errors>>

\* A certificate, key or trust list that cannot be used: the constructor
\* throws TlsMaterialError out of the composition root and main() reports a
\* fatal startup error, so no back end starts in the clear by accident.
MaterialRefused ==
    /\ mgr.op = "build" /\ kOrder[mgr.at] \in Secured \cap configured
    /\ mgr' = [mgr EXCEPT !.op = "fatal"]
    /\ UNCHANGED <<configured, list, running, thread, io, errors>>

-----------------------------------------------------------------------------
(* startAll() and stopAll().                                               *)

NextInList ==
    mgr' = IF mgr.at < Len(list) THEN [mgr EXCEPT !.at = @ + 1, !.step = "call"]
           ELSE [op |-> IF mgr.op = "start" THEN "up" ELSE "done", at |-> 1, step |-> "call"]

\* start() returned.
Started(b) ==
    /\ running' = running \cup {b} /\ thread' = [thread EXCEPT ![b] = "live"]
    /\ io' = [io EXCEPT ![b] = "open"] /\ NextInList
    /\ UNCHANGED <<configured, list, errors>>

\* start() threw: it has taken back its flag, the error is recorded and the
\* next back end gets its chance.
StartThrew(b) ==
    /\ running' = running \ {b} /\ errors' = errors \cup {b}
    /\ io' = [io EXCEPT ![b] = "none"] /\ NextInList
    /\ UNCHANGED <<configured, list, thread>>

\* The operator closes the program.
stopAll ==
    /\ mgr.op = "up" /\ mgr' = [op |-> "stop", at |-> 1, step |-> "call"]
    /\ UNCHANGED <<configured, list, running, thread, io, errors>>

\* The flag is left up until the worker has been joined.
StopLatchFlagKept(b) ==
    /\ At("stop", b, "call")
    /\ IF b \in running THEN Step("join") ELSE NextInList
    /\ UNCHANGED <<configured, list, running, thread, io, errors>>

\* The latch at the head of stop(): a flag that is down already means there is
\* nothing to do; otherwise the back end is told to stop and is joined.
StopLatch(b) ==
    /\ At("stop", b, "call")
    /\ IF b \in running THEN running' = running \ {b} /\ Step("join")
       ELSE NextInList /\ UNCHANGED running
    /\ UNCHANGED <<configured, list, thread, io, errors>>

Stopping(b) == At("stop", b, "join")

\* The worker's loop returns.
LoopReturns(b) ==
    /\ thread[b] = "live" /\ thread' = [thread EXCEPT ![b] = "ended"]
    /\ UNCHANGED <<configured, list, mgr, running, io, errors>>

\* The worker is detached.
JoinedDetached(b) ==
    /\ Stopping(b) /\ io' = [io EXCEPT ![b] = "none"] /\ NextInList
    /\ UNCHANGED <<configured, list, running, thread, errors>>

\* join() returned and what the worker used is released.
Joined(b) ==
    /\ Stopping(b) /\ thread[b] # "live"
    /\ thread' = [thread EXCEPT ![b] = "none"] /\ io' = [io EXCEPT ![b] = "none"]
    /\ NextInList
    /\ UNCHANGED <<configured, list, running, errors>>

\* A worker that met an error lowers the flag itself.
WorkerGivesUp(b) ==
    /\ running' = running \ {b} /\ io' = [io EXCEPT ![b] = "broken"]
    /\ UNCHANGED <<configured, list, mgr, thread, errors>>

\* The manager dies with its back ends.  A destructor runs stop(), whose latch
\* is down by now; what still holds a loop is a member and goes with it, and
\* the jthread member joins.
Destroyed ==
    /\ mgr.op = "done" /\ mgr' = [mgr EXCEPT !.op = "gone"]
    /\ thread' = [b \in Kinds |-> "none"] /\ io' = [b \in Kinds |-> "none"]
    /\ UNCHANGED <<configured, list, running, errors>>
=============================================================================
