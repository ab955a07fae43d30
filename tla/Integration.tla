---------------------------- MODULE Integration -----------------------------
(***************************************************************************)
(* The whole integration layer: the composition root, IntegrationManager   *)
(* and every back end of a deployment, each on its own thread.             *)
(***************************************************************************)
EXTENDS SocketServers, MqttClient, SerialBackend, OpcUa, ModbusClient

all == <<life, servers, mqtt, serial, opcua, modbus>>

\* The bridge between two stations has no thread: start() registers its
\* callbacks once, stop() lowers the flag they look at.
stationStart ==
    /\ At("start", "station", "call") /\ running' = running \cup {"station"} /\ NextInList
    /\ UNCHANGED <<configured, list, thread, io, errors>>
stationStop ==
    /\ At("stop", "station", "call") /\ running' = running \ {"station"} /\ NextInList
    /\ UNCHANGED <<configured, list, thread, io, errors>>

Main == SwitchedOff \/ registerBackend("station") \/ stationStart \/ stationStop

\* dispatchCommand(): switching equipment is an event of the model, with all
\* its subscribers, on the TCP thread; the other commands only read.
dispatchCommand(cmd) ==
    IF cmd \in {"on", "off"} THEN remoteCommand(cmd = "on", "tcp") ELSE UNCHANGED opcua

Init == LifeInit /\ ServersInit /\ MqttInit /\ SerialInit /\ OpcUaInit /\ ModbusInit

Next ==
    \/ /\ Main \/ MaterialRefused \/ stopAll
       /\ UNCHANGED <<servers, mqtt, serial, opcua, modbus>>
    \/ /\ Destroyed /\ ioq' = <<>> /\ session' = "none" /\ brokerSubs' = {}
       /\ UNCHANGED <<heartbeat, reader, lengthBytes, subs, delivered, published, posts, frames>>
       /\ UNCHANGED <<servers, serial, opcua, modbus>>
    \/ /\ TcpMain \/ (TcpWorker /\ Free("tcp")) \/ HttpNext
       /\ UNCHANGED <<mqtt, serial, opcua, modbus>>
    \/ \E cmd \in Commands :
          /\ handleConnection(cmd) /\ Free("tcp") /\ dispatchCommand(cmd)
          /\ UNCHANGED <<mqtt, serial, modbus>>
    \/ MqttNext   /\ UNCHANGED <<servers, serial, opcua, modbus>>
    \/ SerialNext /\ UNCHANGED <<servers, mqtt, opcua, modbus>>
    \/ OpcUaNext  /\ UNCHANGED <<servers, mqtt, serial, modbus>>
    \/ ModbusNext /\ UNCHANGED <<servers, mqtt, serial, opcua>>

Fairness ==
    /\ WF_all(Main /\ UNCHANGED <<servers, mqtt, serial, opcua, modbus>>)
    /\ ServersFairness /\ MqttFairness /\ SerialFairness /\ OpcUaFairness /\ ModbusFairness

Spec == Init /\ [][Next]_all /\ Fairness

IntegrationTypeOK == LifeTypeOK /\ MqttTypeOK /\ OpcUaTypeOK

\* stopAll() leaves no worker behind: once it has returned, the only thread
\* that can still run is that of an MQTT client whose connection was lost
\* before (its stop() returns at the latch), and it goes with the manager.
StopLeavesNoWorker ==
    mgr.op = "done" => \A b \in Kinds :
        thread[b] = "live" => b = "mqtt" /\ io[b] = "broken"

\* startAll() and stopAll() come to an end in every deployment, whatever
\* fails, unless the main thread sits in one of three waits the code does not
\* bound: for a CONNACK that never comes, for a TCP client that neither
\* speaks nor leaves, or for an HTTP listener that came up only after stop()
\* had looked for it.
MainThreadAdvances ==
    /\ (mgr.op = "start") ~> (mgr.op = "up" \/ AwaitsConnAck)
    /\ (mgr.op = "stop") ~> (mgr.op = "done" \/ TcpClientSilent \/ HttpStopMissed)
=============================================================================
