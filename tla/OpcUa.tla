------------------------------- MODULE OpcUa --------------------------------
(***************************************************************************)
(* The OPC-UA pair.  OpcUaBackend runs an Open62541Server with its iterate *)
(* thread and keeps its address space up to date through FactoryNodeMap,   *)
(* whose callbacks run on whatever thread changed the production model.    *)
(* Open62541Client watches another server from its own thread and feeds    *)
(* the model through OpcUaIngestBridge, so its thread is one of those.     *)
(***************************************************************************)
EXTENDS IntegrationBackend

CONSTANTS
    Paths,       \* the node paths the ingest bridge watches
    MaxEvents    \* bound: notifications, commands and writes

VARIABLES
    address,     \* the address space: "none", "started" (empty), "ready"
    wired,       \* FactoryNodeMap::wired_
    subscribed,  \* the node map's callbacks are registered with the model
    emitter,     \* a model event in the node map: "idle", "checked", "loaded"
    emitterOn,   \* the back end whose thread it runs on
    deadWrite,   \* a write went through a server that was already deleted
    lostWrite,   \* a write found the server up and its node missing
    sessions,    \* clients of this server
    wanted,      \* subscriptions_ of the client
    armed,       \* the ones the remote server watches
    monitored,   \* monitoredItemCount_
    lastEnabled, \* OpcUaIngestBridge's cache: {} or {the last value}
    enabled,     \* the model's equipment line
    events

opcua == <<address, wired, subscribed, emitter, emitterOn, deadWrite, lostWrite, sessions,
           wanted, armed, monitored, lastEnabled, enabled, events>>

OpcUaInit ==
    /\ address = "none" /\ wired = FALSE /\ subscribed = FALSE /\ emitter = "idle" /\ emitterOn = "opcua"
    /\ deadWrite = FALSE /\ lostWrite = FALSE /\ sessions = 0
    /\ wanted = {} /\ armed = {} /\ monitored = 0 /\ lastEnabled = {}
    /\ enabled = TRUE /\ events = 0

OpcUaTypeOK ==
    /\ address \in {"none", "started", "ready"} /\ wired \in BOOLEAN
    /\ emitter \in {"idle", "checked", "loaded"} /\ sessions \in 0..1
    /\ wanted \subseteq Paths /\ armed \subseteq Paths /\ monitored \in Nat

serverVars == <<address, wired, subscribed, sessions>>
clientVars == <<wanted, armed, monitored, lastEnabled>>
KeepServer == UNCHANGED serverVars
KeepClient == UNCHANGED clientVars
KeepEvents == UNCHANGED <<emitter, emitterOn, deadWrite, lostWrite, enabled, events>>

-----------------------------------------------------------------------------
(* The server.                                                             *)

registerOpcUaBackend == registerBackend("opcua") /\ UNCHANGED opcua

\* The callbacks are registered as soon as the server runs.
serverStartWired ==
    /\ At("start", "opcua", "call")
    /\ running' = running \cup {"opcua"} /\ address' = "started"
    /\ thread' = [thread EXCEPT !["opcua"] = "live"]
    /\ io' = [io EXCEPT !["opcua"] = "open"] /\ Step("nodes")
    /\ wired' = TRUE /\ subscribed' = TRUE
    /\ UNCHANGED <<configured, list, errors, sessions>> /\ KeepClient /\ KeepEvents

\* The certificate, the port or the stack is refused.
stackRefused == StartThrew("opcua") /\ UNCHANGED address

\* Open62541Server::start(): a stack that cannot be configured or started is
\* deleted and start() throws.  The flag goes up after that, and the iterate
\* thread serves clients before there is a node.
serverStart ==
    /\ At("start", "opcua", "call")
    /\ \/ /\ running' = running \cup {"opcua"} /\ address' = "started"
          /\ thread' = [thread EXCEPT !["opcua"] = "live"]
          /\ io' = [io EXCEPT !["opcua"] = "open"] /\ Step("nodes")
          /\ UNCHANGED <<configured, list, errors>>
       \/ stackRefused
    /\ UNCHANGED <<wired, subscribed, sessions>> /\ KeepClient /\ KeepEvents

\* addObject(), addInt32(), addMethod() and the others, folders first.
addNodes == address' = "ready"

\* registerNodes(): the folders, the variables and, with a sink, the commands.
registerNodes ==
    /\ At("start", "opcua", "nodes") /\ Step("wire") /\ addNodes
    /\ UNCHANGED <<configured, list, running, thread, io, errors, wired, subscribed, sessions>>
    /\ KeepClient /\ KeepEvents

\* wire(): the flag first, then the callbacks.
wire ==
    /\ At("start", "opcua", "wire") /\ NextInList
    /\ wired' = TRUE /\ subscribed' = TRUE
    /\ UNCHANGED <<configured, list, running, thread, io, errors, address, sessions>>
    /\ KeepClient /\ KeepEvents

ServerUp == io["opcua"] = "open"

SessionOpens ==
    /\ ServerUp /\ thread["opcua"] = "live" /\ sessions' = 1 - sessions
    /\ UNCHANGED <<life, address, wired, subscribed>> /\ KeepClient /\ KeepEvents

-----------------------------------------------------------------------------
(* A model event in the node map.  It runs on the thread that changed the  *)
(* model; unwire() and the deletion of the server run on the main thread.  *)

\* The model changed: its callbacks begin, and the node map's returns at once
\* unless the flag is up.  Of events that overlap, one is followed.
Emit(value, b) ==
    /\ emitter = "idle" /\ enabled' = value /\ emitterOn' = b
    /\ emitter' = IF subscribed /\ wired THEN "checked" ELSE "idle"

\* A thread is back in its loop only when its event is through.
Free(b) == emitter = "idle" \/ emitterOn # b

\* A command of another back end reaches the model on that one's thread.
remoteCommand(value, b) ==
    /\ events < MaxEvents /\ Emit(value, b) /\ events' = events + 1
    /\ UNCHANGED <<deadWrite, lostWrite>> /\ KeepServer /\ KeepClient

\* writeInt32() and the others take the server pointer; null means too late.
LoadServer ==
    /\ emitter = "checked"
    /\ emitter' = IF ServerUp THEN "loaded" ELSE "idle"
    /\ UNCHANGED <<life, emitterOn, deadWrite, lostWrite, enabled, events>> /\ KeepServer /\ KeepClient

\* The subtree is made if need be and the value is written through the pointer
\* taken before: the node is found only below the folders of registerNodes().
writeScalar ==
    /\ emitter = "loaded" /\ emitter' = "idle"
    /\ deadWrite' = (deadWrite \/ ~ServerUp)
    /\ lostWrite' = (lostWrite \/ (ServerUp /\ address # "ready"))
    /\ UNCHANGED <<life, emitterOn, enabled, events>> /\ KeepServer /\ KeepClient

\* The flag only; the callbacks stay registered.
unwire == wired' = FALSE

\* OpcUaBackend::stop(): silence the callbacks, then stop the server.
serverStop ==
    /\ StopLatch("opcua")
    /\ IF "opcua" \in running THEN unwire ELSE UNCHANGED wired
    /\ UNCHANGED <<address, subscribed, sessions>> /\ KeepClient /\ KeepEvents

\* The iterate loop tests the flag between two passes.
runIterateLoop ==
    /\ "opcua" \notin running /\ Free("opcua") /\ LoopReturns("opcua") /\ UNCHANGED opcua

\* Joined, shut down, deleted.
serverJoin ==
    /\ Joined("opcua") /\ address' = "none" /\ sessions' = 0
    /\ UNCHANGED <<wired, subscribed>> /\ KeepClient /\ KeepEvents

\* A method call or a write of an Enabled node by a client of the server, on
\* the iterate thread: the command sink passes it to the model.
onCommand(value) ==
    /\ thread["opcua"] = "live" /\ sessions = 1 /\ address = "ready"
    /\ remoteCommand(value, "opcua") /\ UNCHANGED life

-----------------------------------------------------------------------------
(* The client.                                                             *)

\* registerSubscription(): before start() a subscription is only remembered.
registerSubscription(ps) == wanted' = wanted \cup ps

\* OpcUaIngestBridge::wire(): every node of the equipment it is configured for.
wireIngest == \E ps \in {{}, Paths} : registerSubscription(ps)

\* The ingest bridge subscribes before the client is handed over.
registerOpcUaClient ==
    /\ registerBackend("opcuaclient") /\ wireIngest
    /\ UNCHANGED <<armed, monitored, lastEnabled>> /\ KeepServer /\ KeepEvents

\* connectSync() and createSubscription(): a session with one subscription,
\* or the client is deleted again and start() throws.
connectSync ==
    \/ /\ running' = running \cup {"opcuaclient"} /\ Step("replay")
       /\ io' = [io EXCEPT !["opcuaclient"] = "open"]
       /\ UNCHANGED <<configured, list, thread, errors>>
    \/ StartThrew("opcuaclient")

clientStart ==
    /\ At("start", "opcuaclient", "call") /\ "opcuaclient" \notin running
    /\ connectSync
    /\ UNCHANGED opcua

\* armMonitoredItem(): a path the remote server does not know is skipped.
armMonitoredItem(ps) == armed' = ps /\ monitored' = monitored + Cardinality(ps)

clientReplay ==
    /\ At("start", "opcuaclient", "replay") /\ NextInList
    /\ \E ps \in SUBSET wanted : armMonitoredItem(ps)
    /\ thread' = [thread EXCEPT !["opcuaclient"] = "live"]
    /\ UNCHANGED <<configured, list, running, io, errors, wanted, lastEnabled>>
    /\ KeepServer /\ KeepEvents

ClientFree == thread["opcuaclient"] = "live" /\ Free("opcuaclient")

\* A value that repeats the cached one goes no further.
onStatusNotification(value) ==
    IF lastEnabled = {value} THEN UNCHANGED <<lastEnabled, enabled, emitter, emitterOn>>
    ELSE lastEnabled' = {value} /\ Emit(value, "opcuaclient")

\* The remote server reports a watched node, on the client's thread.
onDataChange(value) ==
    /\ ClientFree /\ "opcuaclient" \in running /\ armed # {} /\ events < MaxEvents
    /\ events' = events + 1
    /\ onStatusNotification(value)
    /\ UNCHANGED <<life, deadWrite, lostWrite, wanted, armed, monitored>> /\ KeepServer

\* run_iterate fails: the loop lowers the flag and returns.
clientLoopFails ==
    /\ ClientFree /\ "opcuaclient" \in running
    /\ running' = running \ {"opcuaclient"}
    /\ thread' = [thread EXCEPT !["opcuaclient"] = "ended"]
    /\ io' = [io EXCEPT !["opcuaclient"] = "broken"]
    /\ UNCHANGED <<configured, list, mgr, errors>> /\ UNCHANGED opcua

clientRunIoLoop ==
    /\ Stopping("opcuaclient") /\ ClientFree /\ LoopReturns("opcuaclient")
    /\ UNCHANGED opcua

\* A flag the loop lowered makes stop() a no-op: the client stays allocated
\* and its items stay counted.
clientStop == StopLatch("opcuaclient") /\ UNCHANGED opcua
clientJoin ==
    /\ Joined("opcuaclient") /\ armed' = {} /\ monitored' = 0
    /\ UNCHANGED <<wanted, lastEnabled>> /\ KeepServer /\ KeepEvents

OpcUaNext ==
    \/ registerOpcUaBackend \/ serverStart \/ registerNodes \/ wire \/ SessionOpens
    \/ LoadServer \/ writeScalar \/ serverStop \/ runIterateLoop \/ serverJoin
    \/ registerOpcUaClient \/ clientStart \/ clientReplay
    \/ clientLoopFails \/ clientRunIoLoop \/ clientStop \/ clientJoin
    \/ \E v \in BOOLEAN : onCommand(v) \/ onDataChange(v)

OpcUaFairness ==
    /\ WF_<<life, opcua>>(registerOpcUaBackend \/ serverStart \/ registerNodes \/ wire
                           \/ serverStop \/ serverJoin)
    /\ WF_<<life, opcua>>(registerOpcUaClient \/ clientStart \/ clientReplay
                           \/ clientStop \/ clientJoin)
    /\ WF_<<life, opcua>>(LoadServer) /\ WF_<<life, opcua>>(writeScalar)
    /\ WF_<<life, opcua>>(runIterateLoop) /\ WF_<<life, opcua>>(clientRunIoLoop)

-----------------------------------------------------------------------------
\* No write of a model event is lost for want of its node while the server
\* serves: the callbacks are registered only after registerNodes() has made
\* the folders, whatever thread the event comes from.
NoWriteLost == ~lostWrite

\* "silence callbacks BEFORE shutting down the I/O thread, otherwise an
\* in-flight model event could try to write through a half-destroyed server"
\* (OpcUaBackend.cpp:57): no write goes through a deleted server.
NoWriteToDeletedServer == ~deadWrite
=============================================================================
