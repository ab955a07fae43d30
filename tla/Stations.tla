------------------------------ MODULE Stations ------------------------------
(***************************************************************************)
(* Who listens to the primary station: the outbound telemetry bridge and   *)
(* the in-process bridge that drives the secondary station's MirrorModel.  *)
(*                                                                         *)
(* A setter of the model stores the value under the mutex, unlocks, takes  *)
(* a second lock to copy the value and the callback list, unlocks, and     *)
(* calls the callbacks on its own thread.  The mirror does the same on its *)
(* side.  Each of these is a step; threads interleave between them.  The   *)
(* two signals that are forwarded, supply level and pass rate, run through *)
(* the same code twice and share nothing.                                  *)
(***************************************************************************)
EXTENDS Integers, Sequences

CONSTANTS
    Writers,       \* threads that set values of the primary model
    Signals,       \* supply level, pass rate
    MaxWrites      \* bound: values set on the primary

ASSUME StationsAssumption == MaxWrites \in Nat /\ "none" \notin Signals

LevelMin == 0
LevelMax == 2
Offered  == (LevelMin - 1)..(LevelMax + 1)     \* what an ingest bridge may hand over
Clamp(v) == IF v < LevelMin THEN LevelMin ELSE IF v > LevelMax THEN LevelMax ELSE v
States   == {"idle", "running", "calibration"}
Idle     == [at |-> "idle", signal |-> "none", value |-> 0, list |-> {}]

VARIABLES
    primary,       \* SimulatedModel: the value of each signal
    mirror,        \* MirrorModel: the value of each signal
    mirrorState,   \* MirrorModel::state_
    shown,         \* what the secondary dashboard's observers got last
    shownState,
    published,     \* what telemetry published last
    callbacks,     \* the primary's callback lists: "telemetry", "bridge"
    bridgeSubscribed, bridgeRunning,
    writer,        \* per thread: how far its set-and-notify call is
    undisturbed,   \* signals notified alone, with no write across, stop or rebuild since
    writes

mirrorVars  == <<mirror, mirrorState, shown, shownState>>
bridgeVars  == <<bridgeSubscribed, bridgeRunning>>
stationVars == <<primary, mirrorVars, published, callbacks, bridgeVars, writer, undisturbed, writes>>

StationsInit ==
    /\ primary = [s \in Signals |-> LevelMax] /\ mirror = primary /\ shown = primary
    /\ published = primary
    /\ mirrorState = "idle" /\ shownState = "idle"
    /\ callbacks = {"telemetry"}                 \* wire() at start-up
    /\ bridgeSubscribed = FALSE /\ bridgeRunning = FALSE
    /\ writer = [t \in Writers |-> Idle]
    /\ undisturbed = {} /\ writes = 0

At(t, step) == writer[t].at = step
Goto(t, step) == writer' = [writer EXCEPT ![t].at = step]
Finished(t)   == writer' = [writer EXCEPT ![t] = Idle]

-----------------------------------------------------------------------------
(* The primary model.                                                      *)

Begins(t, s) == writer' = [writer EXCEPT ![t] = [Idle EXCEPT !.at = "notify", !.signal = s]]
Alone(s)    == /\ bridgeRunning /\ callbacks = {"telemetry", "bridge"}
               /\ \A u \in Writers : writer[u].signal # s

\* setEquipmentSupplyLevel(), setQualityPassRate(), the drift of a tick: clamp
\* and store.
SetPrimary(t, s, v) ==
    /\ At(t, "idle") /\ writes < MaxWrites /\ writes' = writes + 1
    /\ primary' = [primary EXCEPT ![s] = Clamp(v)] /\ Begins(t, s)
    /\ undisturbed' = IF Alone(s) THEN undisturbed \cup {s} ELSE undisturbed \ {s}
    /\ UNCHANGED <<mirror, mirrorState, shown, shownState, published, callbacks,
                   bridgeSubscribed, bridgeRunning>>

\* A notification without a write of the signal: a change of the equipment's
\* status, a loaded recipe, a tick that left the rate alone, republishAll(), a
\* start of production.
NotifyAgain(t, s) ==
    /\ At(t, "idle") /\ Begins(t, s)
    /\ undisturbed' = IF Alone(s) THEN undisturbed \cup {s} ELSE undisturbed
    /\ UNCHANGED <<primary, mirror, mirrorState, shown, shownState, published, callbacks,
                   bridgeSubscribed, bridgeRunning, writes>>

\* notifyEquipmentChange(), notifyQualityChange(): copy value and callbacks.
Notify(t) ==
    /\ At(t, "notify")
    /\ writer' = [writer EXCEPT ![t].at = "telemetry", ![t].list = callbacks,
                                ![t].value = primary[writer[t].signal]]
    /\ UNCHANGED <<primary, mirror, mirrorState, shown, shownState, published, callbacks,
                   bridgeSubscribed, bridgeRunning, undisturbed, writes>>

\* The telemetry callback: every formatter publishes the value.
publishEquipment(t) ==
    /\ At(t, "telemetry") /\ Goto(t, "bridge")
    /\ published' = IF "telemetry" \in writer[t].list
                    THEN [published EXCEPT ![writer[t].signal] = writer[t].value] ELSE published
    /\ UNCHANGED <<primary, mirror, mirrorState, shown, shownState, callbacks,
                   bridgeSubscribed, bridgeRunning, undisturbed, writes>>

\* onMasterEquipmentEvent(), onMasterQualityEvent(): look at running_.
onMasterEvent(t) ==
    /\ At(t, "bridge")
    /\ IF "bridge" \in writer[t].list /\ bridgeRunning THEN Goto(t, "mirror") ELSE Finished(t)
    /\ UNCHANGED <<primary, mirror, mirrorState, shown, shownState, published, callbacks,
                   bridgeSubscribed, bridgeRunning, undisturbed, writes>>

\* clearCallbacks(): a rebuild of the window drops every callback.
dropCallbacks ==
    /\ callbacks # {} /\ callbacks' = {} /\ undisturbed' = {}
    /\ UNCHANGED <<primary, mirror, mirrorState, shown, shownState, published,
                   bridgeSubscribed, bridgeRunning, writer, writes>>

-----------------------------------------------------------------------------
(* The bridge and the mirror.                                              *)

\* start(): subscribe once, ever.
bridgeStart ==
    /\ ~bridgeRunning /\ bridgeRunning' = TRUE
    /\ bridgeSubscribed' = TRUE
    /\ callbacks' = IF bridgeSubscribed THEN callbacks ELSE callbacks \cup {"bridge"}
    /\ UNCHANGED <<primary, mirror, mirrorState, shown, shownState, published, writer,
                   undisturbed, writes>>

\* stop(): lower the flag; a callback past its check goes on.
bridgeStop ==
    /\ bridgeRunning /\ bridgeRunning' = FALSE /\ undisturbed' = {}
    /\ UNCHANGED <<primary, mirror, mirrorState, shown, shownState, published, callbacks,
                   bridgeSubscribed, writer, writes>>

\* The observers told before the value is stored.
MirrorSetterStale(t) ==
    LET s == writer[t].signal
    IN  /\ mirror' = [mirror EXCEPT ![s] = Clamp(writer[t].value)]
        /\ writer' = [writer EXCEPT ![t].at = "observe", ![t].value = mirror[s]]

\* MirrorModel's setter, first lock: clamp, store, take the snapshot.
MirrorSetter(t) ==
    LET s == writer[t].signal
    IN  /\ mirror' = [mirror EXCEPT ![s] = Clamp(writer[t].value)]
        /\ writer' = [writer EXCEPT ![t].at = "observe", ![t].value = mirror'[s]]

ForwardToMirror(t) ==
    /\ At(t, "mirror") /\ MirrorSetter(t)
    /\ UNCHANGED <<primary, mirrorState, shown, shownState, published, callbacks,
                   bridgeSubscribed, bridgeRunning, undisturbed, writes>>

\* updateEquipmentSnapshotLocked(): the observers get the snapshot.
MirrorObservers(t) ==
    /\ At(t, "observe") /\ Finished(t)
    /\ shown' = [shown EXCEPT ![writer[t].signal] = writer[t].value]
    /\ UNCHANGED <<primary, mirror, mirrorState, shownState, published, callbacks,
                   bridgeSubscribed, bridgeRunning, undisturbed, writes>>

\* A command of the secondary dashboard: the mirror only moves its own state.
publishSystemStateChange(s) ==
    /\ mirrorState # s /\ mirrorState' = s /\ shownState' = s
    /\ UNCHANGED <<primary, mirror, shown, published, callbacks, bridgeSubscribed,
                   bridgeRunning, writer, undisturbed, writes>>

StationsNext ==
    \/ \E t \in Writers :
        \/ \E s \in Signals, v \in Offered : SetPrimary(t, s, v)
        \/ \E s \in Signals : NotifyAgain(t, s)
        \/ Notify(t) \/ publishEquipment(t) \/ onMasterEvent(t)
        \/ ForwardToMirror(t) \/ MirrorObservers(t)
    \/ dropCallbacks \/ bridgeStart \/ bridgeStop
    \/ \E s \in States : publishSystemStateChange(s)

-----------------------------------------------------------------------------
(* Properties.                                                             *)

\* A snapshot is copied, forwarded and stored without a lock around it all, so
\* two calls for a signal that overlap may leave the mirror with the older value.
\* The next call for it that starts alone heals that, whether it writes or only
\* notifies again; and notifications that overlap it do no harm, however late
\* they deliver their copy.  From such a call on, until a write overlaps another
\* call, the bridge is stopped or the window is rebuilt, the broker, the secondary
\* model and the secondary dashboard have the primary's value whenever no call for
\* the signal is under way.  SimulatedModel::notifyEquipmentChange,
\* PrimaryToSecondaryBridge::onMasterEquipmentEvent, MirrorModel's setters.
StationsAgreeWhenQuiet ==
    \A s \in undisturbed :
        (\A t \in Writers : writer[t].signal # s) =>
            mirror[s] = primary[s] /\ shown[s] = primary[s] /\ published[s] = primary[s]

\* stop() is documented to keep an in-flight callback from touching the
\* secondary: a bridge that is not running has no call on its way there.
StoppedBridgeIsMuted == bridgeRunning \/ \A t \in Writers : ~At(t, "mirror")
=============================================================================
