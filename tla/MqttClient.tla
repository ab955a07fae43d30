---------------------------- MODULE MqttClient ------------------------------
(***************************************************************************)
(* MqttClient: start() dials the broker and reads its CONNACK on the main  *)
(* thread; from then on one io_context thread writes what other threads    *)
(* posted, sends heartbeats and runs the read chain.  Any thread may       *)
(* publish or subscribe at any time.  The broker may refuse, fall silent,  *)
(* send anything or drop the connection.                                   *)
(***************************************************************************)
EXTENDS IntegrationBackend

CONSTANTS
    IngestTopics,  \* what SensorIngestBridge subscribes to before the start
    LateTopics,    \* what may be subscribed to at any other time
    MaxPosts,      \* bound: publications and late subscriptions
    MaxFrames      \* bound: frames the broker sends

Topics == IngestTopics \cup LateTopics

VARIABLES
    session,    \* session_: "none", "up", "closing" (guard released)
    ioq,        \* handlers posted to the io_context
    heartbeat,  \* the heartbeat timer is armed
    reader,     \* the step of the read chain that is armed
    lengthBytes,\* bytes of the remaining-length field read so far
    subs,       \* subscriptions_
    brokerSubs, \* the topics the broker has a SUBSCRIBE for, this session
    delivered,  \* per topic: PUBLISH frames handed to its callback
    published,  \* publishedCount_
    posts, frames

mqtt == <<session, ioq, heartbeat, reader, lengthBytes, subs, brokerSubs, delivered,
          published, posts, frames>>

MqttInit ==
    /\ session = "none" /\ ioq = <<>> /\ heartbeat = FALSE /\ reader = "off"
    /\ lengthBytes = 0 /\ subs = {} /\ brokerSubs = {}
    /\ delivered = [t \in Topics |-> 0] /\ published = 0 /\ posts = 0 /\ frames = 0

MqttTypeOK ==
    /\ session \in {"none", "up", "closing"} /\ heartbeat \in BOOLEAN
    /\ reader \in {"off", "header", "length", "body"} /\ lengthBytes \in 0..4
    /\ subs \subseteq Topics /\ brokerSubs \subseteq Topics

up == "mqtt" \in running

\* connectionState() for the health bar: a dead connection that once carried
\* something is "Degraded", also after an orderly stop.
connectionState ==
    IF up THEN "Connected" ELSE IF published > 0 THEN "Degraded" ELSE "Disconnected"

-----------------------------------------------------------------------------
(* Composition and start().                                                *)

\* The bridges are wired before the client is handed over, so the ingest
\* topics wait in the table.
wireIngestTopics == subs' \in {{}, IngestTopics}

registerMqttBackend ==
    /\ registerBackend("mqtt") /\ wireIngestTopics
    /\ UNCHANGED <<session, ioq, heartbeat, reader, lengthBytes, brokerSubs, delivered,
                   published, posts, frames>>

\* The flag goes up and the session exists before the broker has answered.
mqttStart ==
    /\ At("start", "mqtt", "call") /\ ~up
    /\ running' = running \cup {"mqtt"} /\ session' = "up" /\ Step("dial")
    /\ UNCHANGED <<configured, list, thread, io, errors, ioq, heartbeat, reader, lengthBytes,
                   subs, brokerSubs, delivered, published, posts, frames>>

\* The session goes and start() throws.
ConnectFails(step) ==
    /\ At("start", "mqtt", step) /\ StartThrew("mqtt") /\ session' = "none"
    /\ UNCHANGED <<ioq, heartbeat, reader, lengthBytes, subs, brokerSubs, delivered,
                   published, posts, frames>>

\* No such host, or refused; rejected or cut off.
DialFails    == ConnectFails("dial")
ConnAckFails == ConnectFails("connack")

\* CONNECT is written; the deadline is a timer of an io_context nobody runs.
Dialled ==
    /\ At("start", "mqtt", "dial") /\ Step("connack")
    /\ io' = [io EXCEPT !["mqtt"] = "open"]
    /\ UNCHANGED <<configured, list, running, thread, errors>> /\ UNCHANGED mqtt

\* What one posted handler does; a failed write lowers the flag.
PublishHandler ==
    \/ published' = published + 1 /\ UNCHANGED <<life, brokerSubs>>
    \/ WorkerGivesUp("mqtt") /\ UNCHANGED <<published, brokerSubs>>

sendSubscribeFrame(t) ==
    /\ UNCHANGED published
    /\ IF up THEN \/ brokerSubs' = brokerSubs \cup {t} /\ UNCHANGED life
                  \/ WorkerGivesUp("mqtt") /\ UNCHANGED brokerSubs
       ELSE UNCHANGED <<life, brokerSubs>>

Handle(post) == IF post[1] = "publish" THEN PublishHandler ELSE sendSubscribeFrame(post[2])

\* The CONNACK says yes.  The run_one() after the cancelled deadline takes
\* whatever handler is first.
ConnAck ==
    /\ At("start", "mqtt", "connack") /\ Step("arm")
    /\ UNCHANGED <<configured, list, thread, errors>>
    /\ \/ /\ ioq = <<>> /\ UNCHANGED <<running, io, ioq, published, brokerSubs>>
       \/ /\ ioq # <<>> /\ ioq' = Tail(ioq)
          /\ \/ /\ Head(ioq)[1] = "publish" /\ published' = published + 1
                /\ UNCHANGED <<running, io, brokerSubs>>
             \/ /\ Head(ioq)[1] = "subscribe" /\ brokerSubs' = brokerSubs \cup {Head(ioq)[2]}
                /\ UNCHANGED <<running, io, published>>
             \/ /\ running' = running \ {"mqtt"} /\ io' = [io EXCEPT !["mqtt"] = "broken"]
                /\ UNCHANGED <<published, brokerSubs>>
    /\ UNCHANGED <<session, heartbeat, reader, lengthBytes, subs, delivered, posts, frames>>

\* A replay that forgets what was registered before the start.
replayNothing == UNCHANGED <<running, io, brokerSubs>>

\* Every registered topic is sent again, until a write fails.
replaySubscriptions ==
    \/ /\ up /\ brokerSubs' = brokerSubs \cup subs /\ UNCHANGED <<running, io>>
    \/ /\ up /\ subs # {}
       /\ \E sent \in SUBSET subs : sent # subs /\ brokerSubs' = brokerSubs \cup sent
       /\ running' = running \ {"mqtt"} /\ io' = [io EXCEPT !["mqtt"] = "broken"]
    \/ ~up /\ UNCHANGED <<running, io, brokerSubs>>

\* scheduleHeartbeat(), startReadLoop(), the replay and the thread.
mqttArm ==
    /\ At("start", "mqtt", "arm") /\ NextInList
    /\ heartbeat' = up /\ reader' = "header"
    /\ replaySubscriptions
    /\ thread' = [thread EXCEPT !["mqtt"] = "live"]
    /\ UNCHANGED <<configured, list, errors, session, ioq, lengthBytes, subs, delivered,
                   published, posts, frames>>

-----------------------------------------------------------------------------
(* Other threads.                                                          *)

publish ==
    /\ up /\ session # "none" /\ posts < MaxPosts
    /\ ioq' = Append(ioq, <<"publish">>) /\ posts' = posts + 1
    /\ UNCHANGED <<life, session, heartbeat, reader, lengthBytes, subs, brokerSubs, delivered,
                   published, frames>>

\* The table always; the wire only when there is a connection.
subscribe(t) ==
    /\ posts < MaxPosts /\ mgr.op \in {"start", "up"} /\ "mqtt" \in configured
    /\ subs' = subs \cup {t} /\ posts' = posts + 1
    /\ ioq' = IF up /\ session # "none" THEN Append(ioq, <<"subscribe", t>>) ELSE ioq
    /\ UNCHANGED <<life, session, heartbeat, reader, lengthBytes, brokerSubs, delivered,
                   published, frames>>

-----------------------------------------------------------------------------
(* The io_context thread.                                                  *)

Worker == thread["mqtt"] = "live" /\ session # "none"

RunPosted ==
    /\ Worker /\ ioq # <<>> /\ ioq' = Tail(ioq)
    /\ IF Head(ioq)[1] = "teardown"
       THEN session' = "closing" /\ heartbeat' = FALSE /\ UNCHANGED <<life, published, brokerSubs>>
       ELSE Handle(Head(ioq)) /\ UNCHANGED <<session, heartbeat>>
    /\ UNCHANGED <<reader, lengthBytes, subs, delivered, posts, frames>>

\* PINGREQ; the timer is armed again only while the flag is up.
scheduleHeartbeat ==
    /\ Worker /\ heartbeat
    /\ \/ heartbeat' = up /\ UNCHANGED life
       \/ heartbeat' = FALSE /\ WorkerGivesUp("mqtt")
    /\ UNCHANGED <<session, ioq, reader, lengthBytes, subs, brokerSubs, delivered, published,
                   posts, frames>>

KeepReader == UNCHANGED <<session, ioq, heartbeat, subs, brokerSubs, published, posts>>

\* The broker's next frame begins.
startReadLoop ==
    /\ Worker /\ reader = "header" /\ frames < MaxFrames /\ frames' = frames + 1
    /\ reader' = "length" /\ lengthBytes' = 0
    /\ UNCHANGED <<life, delivered>> /\ KeepReader

\* One length byte at a time; a fourth one that asks for a fifth ends the
\* chain.
readRemainingLengthByte ==
    /\ Worker /\ reader = "length" /\ lengthBytes' = lengthBytes + 1
    /\ \/ reader' = "body" /\ UNCHANGED life
       \/ lengthBytes < 3 /\ reader' = "length" /\ UNCHANGED life
       \/ lengthBytes = 3 /\ reader' = "off" /\ WorkerGivesUp("mqtt")
    /\ UNCHANGED <<delivered, frames>> /\ KeepReader

\* deliverInboundPublish(): an exact match of a registered topic, or nothing.
deliverInboundPublish(t) ==
    delivered' = IF t \in subs THEN [delivered EXCEPT ![t] = @ + 1] ELSE delivered

\* A PUBLISH is delivered; an acknowledgement, a frame of another kind and a
\* PUBLISH that does not parse (QoS, truncated) are dropped.  Then the chain
\* starts over.
readFrameBody ==
    /\ Worker /\ reader = "body" /\ reader' = "header"
    /\ \/ \E t \in brokerSubs : deliverInboundPublish(t)
       \/ UNCHANGED delivered
    /\ UNCHANGED <<life, lengthBytes, frames>> /\ KeepReader

\* The connection is gone: whichever step is armed sees the error.
ReadFails ==
    /\ Worker /\ reader # "off" /\ reader' = "off"
    /\ WorkerGivesUp("mqtt")
    /\ UNCHANGED <<lengthBytes, delivered, frames>> /\ KeepReader

\* The loop runs as long as the session's guard holds it or it is stopped.
mqttRunIoLoop ==
    /\ Stopping("mqtt") \/ session = "closing"
    /\ LoopReturns("mqtt") /\ UNCHANGED mqtt

-----------------------------------------------------------------------------
(* stop().                                                                 *)

\* DISCONNECT, the teardown posted, the loop told to stop.
mqttStop ==
    /\ StopLatch("mqtt")
    /\ ioq' = IF up /\ session # "none" THEN Append(ioq, <<"teardown">>) ELSE ioq
    /\ UNCHANGED <<session, heartbeat, reader, lengthBytes, subs, brokerSubs, delivered,
                   published, posts, frames>>

mqttJoin ==
    /\ Joined("mqtt") /\ session' = "none" /\ ioq' = <<>> /\ heartbeat' = FALSE
    /\ reader' = "off" /\ brokerSubs' = {}
    /\ UNCHANGED <<lengthBytes, subs, delivered, published, posts, frames>>

MqttNext ==
    \/ registerMqttBackend \/ mqttStart \/ DialFails \/ Dialled \/ ConnAck \/ ConnAckFails
    \/ mqttArm \/ publish \/ \E t \in LateTopics : subscribe(t)
    \/ RunPosted \/ scheduleHeartbeat \/ startReadLoop \/ readRemainingLengthByte
    \/ readFrameBody \/ ReadFails \/ mqttRunIoLoop \/ mqttStop \/ mqttJoin

\* Not the CONNACK: the broker may never send one.
MqttFairness ==
    /\ WF_<<life, mqtt>>(registerMqttBackend \/ mqttStart \/ DialFails \/ Dialled \/ mqttArm
                          \/ mqttStop \/ mqttJoin)
    /\ WF_<<life, mqtt>>(RunPosted) /\ WF_<<life, mqtt>>(mqttRunIoLoop)

AwaitsConnAck == At("start", "mqtt", "connack")

\* Once the client is started and its handlers have run, the broker has a
\* SUBSCRIBE for every topic in the table, in whichever order subscribe(),
\* the replay and the CONNACK came: a topic is either replayed or posted, and
\* a write that failed takes the flag down.
SubscriptionsReachBroker ==
    (up /\ thread["mqtt"] = "live" /\ \A i \in DOMAIN ioq : ioq[i][1] # "subscribe")
        => subs \subseteq brokerSubs
=============================================================================
