--------------------------- MODULE SocketServers ----------------------------
(***************************************************************************)
(* The two servers: TcpBackend (a line protocol on one io_context thread,  *)
(* which serves one connection at a time with blocking reads) and          *)
(* HttpBackend (a listener thread and a pool of request handlers).         *)
(***************************************************************************)
EXTENDS IntegrationBackend

CONSTANTS Clients, NoClient   \* TCP clients; nobody

VARIABLES
    backlog,    \* TCP clients the kernel has connected
    serving,    \* the client handleConnection() reads from, or NoClient
    accepting,  \* an async_accept is armed
    listener,   \* HTTP: "off", "bound", "listening", "closing"
    inflight    \* an HTTP request is being handled

servers == <<backlog, serving, accepting, listener, inflight>>

ServersInit ==
    /\ backlog = {} /\ serving = NoClient /\ accepting = FALSE
    /\ listener = "off" /\ inflight = FALSE

tcpVars  == <<backlog, serving, accepting>>
httpVars == <<listener, inflight>>
KeepHttp == UNCHANGED httpVars
KeepTcp  == UNCHANGED tcpVars

-----------------------------------------------------------------------------
(* TCP.                                                                    *)

\* Bind, arm the first accept and start the thread; a port that is taken
\* throws.
tcpStart ==
    /\ At("start", "tcp", "call") /\ "tcp" \notin running
    /\ \/ Started("tcp") /\ accepting' = TRUE
       \/ StartThrew("tcp") /\ UNCHANGED accepting
    /\ UNCHANGED <<backlog, serving>> /\ KeepHttp

ClientConnects(c) ==
    /\ io["tcp"] = "open" /\ c \notin backlog /\ serving # c
    /\ backlog' = backlog \cup {c}
    /\ UNCHANGED <<life, serving, accepting>> /\ KeepHttp

LoopFree == thread["tcp"] = "live" /\ serving = NoClient /\ "tcp" \in running

\* The accept handler calls handleConnection() before it re-arms the accept:
\* until this client leaves, nobody else is served.
Accept(c) ==
    /\ LoopFree /\ accepting /\ c \in backlog
    /\ serving' = c /\ backlog' = backlog \ {c}
    /\ UNCHANGED <<life, accepting>> /\ KeepHttp

\* An error from accept ends the loop; the flag stays up.
AcceptFails ==
    /\ LoopFree /\ accepting /\ accepting' = FALSE
    /\ UNCHANGED <<life, backlog, serving>> /\ KeepHttp

\* "query" is help, status and products, "bad" every line answered with ERR;
\* what "eq ... on" and "off" change in the model is added in Integration.
Commands == {"quit", "query", "bad", "on", "off"}

\* One line is read, dispatched and answered.  The connection goes on unless
\* the client quit, its answer could not be written or the back end was told
\* to stop meanwhile.
handleConnection(cmd) ==
    /\ thread["tcp"] = "live" /\ serving # NoClient
    /\ \/ serving' = IF cmd = "quit" \/ "tcp" \notin running THEN NoClient ELSE serving
       \/ serving' = NoClient
    /\ UNCHANGED <<life, backlog, accepting>> /\ KeepHttp

ClientLeaves ==
    /\ thread["tcp"] = "live" /\ serving # NoClient /\ serving' = NoClient
    /\ UNCHANGED <<life, backlog, accepting>> /\ KeepHttp

\* A handler throws (a subscriber of the model, an allocation): run() returns with the exception,
\* the accept is not re-armed and runIoLoop() lowers the flag.
tcpLoopThrows ==
    /\ thread["tcp"] = "live" /\ serving # NoClient
    /\ running' = running \ {"tcp"} /\ thread' = [thread EXCEPT !["tcp"] = "ended"]
    /\ serving' = NoClient /\ accepting' = FALSE
    /\ UNCHANGED <<configured, list, mgr, io, errors, backlog>> /\ KeepHttp

\* io_context::stop() does not reach into a handler that is in a read.
tcpRunIoLoop ==
    /\ Stopping("tcp") /\ serving = NoClient /\ LoopReturns("tcp")
    /\ UNCHANGED servers

tcpStop == StopLatch("tcp") /\ UNCHANGED servers
tcpJoin ==
    /\ Joined("tcp") /\ accepting' = FALSE /\ backlog' = {}
    /\ UNCHANGED <<serving>> /\ KeepHttp

-----------------------------------------------------------------------------
(* HTTP.                                                                   *)

\* The flag, the server object, the routes, the port, the thread.
httpStart ==
    /\ At("start", "http", "call") /\ "http" \notin running
    /\ \/ /\ running' = running \cup {"http"} /\ listener' = "bound"
          /\ thread' = [thread EXCEPT !["http"] = "live"]
          /\ io' = [io EXCEPT !["http"] = "open"] /\ Step("ready")
          /\ UNCHANGED <<configured, list, errors>>
       \/ StartThrew("http") /\ UNCHANGED listener
    /\ UNCHANGED inflight /\ KeepTcp

httpListens ==
    /\ thread["http"] = "live" /\ listener = "bound" /\ listener' = "listening"
    /\ UNCHANGED <<life, inflight>> /\ KeepTcp

\* start() polls until the listener runs, or gives up after its attempts.
httpReady ==
    /\ At("start", "http", "ready") /\ NextInList
    /\ UNCHANGED <<configured, list, running, thread, io, errors>> /\ UNCHANGED servers

httpRequest ==
    /\ listener = "listening" /\ ~inflight /\ inflight' = TRUE
    /\ UNCHANGED <<life, listener>> /\ KeepTcp

\* A route answers, or the error or exception handler does.
httpAnswer ==
    /\ inflight /\ inflight' = FALSE /\ UNCHANGED <<life, listener>> /\ KeepTcp

\* Server::stop() closes a listener that runs; one that has not come up yet
\* misses it.
httpStop ==
    /\ StopLatch("http")
    /\ listener' = IF "http" \in running /\ listener = "listening" THEN "closing" ELSE listener
    /\ UNCHANGED inflight /\ KeepTcp

httpListenReturns ==
    /\ listener = "closing" /\ ~inflight /\ LoopReturns("http")
    /\ listener' = "off" /\ UNCHANGED inflight /\ KeepTcp

httpJoin == Joined("http") /\ UNCHANGED servers

-----------------------------------------------------------------------------
registerTcpBackend  == registerBackend("tcp") /\ UNCHANGED servers
registerHttpBackend == registerBackend("http") /\ UNCHANGED servers

TcpMain ==
    \/ registerTcpBackend \/ tcpStart \/ tcpStop \/ tcpJoin
    \/ \E c \in Clients : ClientConnects(c)

\* The io_context thread, but for the lines it handles.
TcpWorker ==
    tcpRunIoLoop \/ tcpLoopThrows \/ AcceptFails \/ ClientLeaves \/ \E c \in Clients : Accept(c)

HttpNext ==
    \/ registerHttpBackend \/ httpStart \/ httpReady \/ httpStop \/ httpJoin
    \/ httpListens \/ httpRequest \/ httpAnswer \/ httpListenReturns

\* The main thread and the workers run when they can.  A client owes nothing.
ServersFairness ==
    /\ WF_<<life, servers>>(registerTcpBackend \/ tcpStart \/ tcpStop \/ tcpJoin)
    /\ WF_<<life, servers>>(tcpRunIoLoop)
    /\ WF_<<life, servers>>(registerHttpBackend \/ httpStart \/ httpReady \/ httpStop \/ httpJoin)
    /\ WF_<<life, servers>>(httpListens) /\ WF_<<life, servers>>(httpAnswer)
    /\ WF_<<life, servers>>(httpListenReturns)

\* stop() of the TCP server waits for a client that says nothing.
TcpClientSilent == Stopping("tcp") /\ serving # NoClient

\* stop() of the HTTP server waits for a listener that came up too late.
HttpStopMissed == Stopping("http") /\ listener \in {"bound", "listening"}
=============================================================================
