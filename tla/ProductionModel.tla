-------------------------- MODULE ProductionModel --------------------------
(***************************************************************************)
(* The production model (src/model/SimulatedModel.h), its lifecycle state  *)
(* machine (src/model/SystemStateMachine.cpp) and the dashboard presenter  *)
(* (src/presenter/DashboardPresenter.cpp) that turns the model's callbacks *)
(* into alarms and into the enabled buttons of the control panel.          *)
(*                                                                         *)
(* The operator's clicks, the refresh timer and the rebuild of the window  *)
(* run on the GUI thread; TCP, OPC-UA and the ingest bridges call the same *)
(* model from threads of their own, and every callback runs on the thread  *)
(* that caused it.  A call is a sequence of steps, `todo', cut wherever    *)
(* another thread can come between: between the read and the write of an   *)
(* unlocked field, between a snapshot under mutex_ and the callback it is  *)
(* handed to.                                                              *)
(*                                                                         *)
(* An alarm is here what was last reported of its key (AlertCenter has the *)
(* rest), a pass rate is on one side of the pass threshold or the other.   *)
(* Texts, view models, actuators, OEE and throughput are left out, and so  *)
(* is the notification of a work unit, which alarms nothing.  A recipe has *)
(* always Operations operations.                                           *)
(***************************************************************************)
EXTENDS Naturals, Sequences, SequencesExt

CONSTANTS Threads, Gui,
          Remote,       \* the kinds of calls the other threads make
          Lines,        \* the equipment lines, in the order of their ids
          BLine,        \* the one startProduction() puts to work
          Checkpoints,  \* the quality checkpoints, in the order of their ids
          Operations,   \* operations of a work unit
          DemoStatus, DemoRate, DemoCompleted  \* what initializeDemoData() sets

States == {"IDLE", "RUNNING", "ERROR", "CALIBRATION"}
Statuses == {"Offline", "Online", "Processing"}
Rates == {"passing", "low"}
SystemError == "system-error"
Keys == {SystemError} \cup ToSet(Lines) \cup ToSet(Checkpoints)

ASSUME ProductionConstants ==
  /\ Gui \in Threads /\ Remote \subseteq {"state", "enable", "supply", "rate"}
  /\ Lines \in Seq(ToSet(Lines)) /\ Checkpoints \in Seq(ToSet(Checkpoints))
  /\ BLine \in ToSet(Lines)
  /\ SystemError \notin ToSet(Lines) \cup ToSet(Checkpoints)  \* one key each:
  /\ ToSet(Lines) \cap ToSet(Checkpoints) = {}               \* equipment-N, quality-N
  /\ Operations \in Nat \ {0} /\ DemoCompleted \in 0 .. Operations
  /\ DemoStatus \in [ToSet(Lines) -> Statuses]
  /\ DemoRate \in [ToSet(Checkpoints) -> Rates]

VARIABLES
  sm, lastNotified,  \* the state machine, and the state its observers heard of
  completed,         \* completedOperations of the work unit
  status,            \* of each line
  rate,              \* of each checkpoint
  external,          \* externalPassRateOverrides_
  wired,             \* a presenter is subscribed
  prev,              \* its prevSystemState_
  panel,             \* the state the control panel's buttons were set for
  reported,          \* the keys whose alarm condition was last reported active
  dismissed,         \* but for checkpoints: cleared by the operator since
  todo,              \* per thread: the steps left of the call it is in
  crossed,           \* lines changed while a callback held an older copy
  orphaned,          \* the threads in a callback of a presenter that is gone
  abandoned          \* a presenter was replaced while its fault alarm was up

machine == <<sm, lastNotified>>
plant == <<completed, status, rate, external>>
presenter == <<wired, prev, panel>>
alarms == <<reported, dismissed>>
lost == <<crossed, orphaned, abandoned>>
productionVars == <<machine, plant, presenter, alarms, todo, lost>>

\* The keys whose condition is present.
Abnormal ==
  {k \in Keys : \/ k = SystemError /\ sm = "ERROR"
                \/ k \in ToSet(Lines) /\ status[k] = "Offline"
                \/ k \in ToSet(Checkpoints) /\ rate[k] = "low"}

\* The window is up: the presenter subscribed and was sent the demo data.
ProductionInit ==
  /\ sm = "IDLE" /\ lastNotified = "IDLE"
  /\ completed = DemoCompleted /\ status = DemoStatus /\ rate = DemoRate
  /\ external = {}
  /\ wired = TRUE /\ prev = "IDLE" /\ panel = "IDLE"
  /\ reported = Abnormal /\ dismissed = {}
  /\ todo = [t \in Threads |-> <<>>]
  /\ crossed = {} /\ orphaned = {} /\ abandoned = FALSE

-----------------------------------------------------------------------------
(* Calls and their steps *)

Step(name, of, value) == [op |-> name, of |-> of, value |-> value]
Nothing == "-"

\* The steps inside the presenter.
Callback == {"line", "quality", "judge", "state", "seen", "show"}

Dispatch(event) == Step("process", event, Nothing)
SetStatus(l, s) == Step("setStatus", l, s)
NotifyLine(l) == Step("notifyLine", l, Nothing)
NotifyRate(c) == Step("notifyRate", c, Nothing)
NotifyState == Step("notifyState", Nothing, Nothing)

NotifyLines == [i \in 1 .. Len(Lines) |-> NotifyLine(Lines[i])]
NotifyRates == [i \in 1 .. Len(Checkpoints) |-> NotifyRate(Checkpoints[i])]

Quiet == \A t \in Threads : todo[t] = <<>>

\* The thread is at a step of this name.
At(t, name) == todo[t] # <<>> /\ Head(todo[t]).op = name
Now(t) == Head(todo[t])

\* The step is over; these come before what was left.
Then(t, steps) == todo' = [todo EXCEPT ![t] = steps \o Tail(@)]

\* A thread that is in no call makes one.
Calls(t, steps) ==
  /\ todo[t] = <<>>
  /\ todo' = [todo EXCEPT ![t] = steps]
  /\ UNCHANGED <<machine, plant, presenter, alarms, lost>>

-----------------------------------------------------------------------------
(* The calls *)

StartProduction(t) == Calls(t, <<Dispatch("Start"), Step("cycle", Nothing, Nothing)>>)
StopProduction(t) == Calls(t, <<Dispatch("Stop")>>)
ResetSystem(t) == Calls(t, <<Dispatch("Reset"), Step("zero", Nothing, Nothing)>>)
StartCalibration(t) == Calls(t, <<Dispatch("Calibrate")>>)
TriggerFault(t) == Calls(t, <<Dispatch("Fault")>>)

\* setEquipmentEnabled(); the supply level is not kept, only its notification
SetEquipmentEnabled(t, l, enabled) ==
  Calls(t, <<SetStatus(l, IF enabled THEN "Online" ELSE "Offline")>>)
SetEquipmentSupplyLevel(t, l) == Calls(t, <<NotifyLine(l)>>)
SetQualityPassRate(t, c, r) == Calls(t, <<Step("setRate", c, r)>>)

LoadProduct == Calls(Gui, <<Step("zero", Nothing, Nothing)>> \o NotifyRates)
\* Defect: the tick announces nothing.
TickSimulationQuietly == Calls(Gui, <<Step("tick", Nothing, Nothing)>>)

TickSimulation == Calls(Gui, <<Step("tick", Nothing, Nothing)>> \o NotifyRates)
RepublishAll == Calls(Gui, NotifyLines \o NotifyRates \o <<NotifyState>>)

\* rebuildPages(): the callbacks are cleared, a new presenter is made and
\* subscribed, and initializeDemoData() starts the model over.
Rebuild ==
  Calls(Gui, <<Step("clearCallbacks", Nothing, Nothing), Step("initialize", Nothing, Nothing),
               Step("demo", Nothing, Nothing), Dispatch("Reset")>>
             \o NotifyLines \o NotifyRates \o <<NotifyState>>)

\* clearAll() from the alerts panel
ClearAll ==
  /\ todo[Gui] = <<>>
  /\ reported # {}
  /\ reported' = {}
  /\ dismissed' = dismissed \cup (reported \ ToSet(Checkpoints))
  /\ UNCHANGED <<machine, plant, presenter, todo, lost>>

-----------------------------------------------------------------------------
(* The state machine *)

Table ==
  {<<"IDLE", "Start", "RUNNING">>, <<"IDLE", "Calibrate", "CALIBRATION">>,
   <<"IDLE", "Reset", "IDLE">>,
   <<"RUNNING", "Stop", "IDLE">>, <<"RUNNING", "Reset", "IDLE">>,
   <<"RUNNING", "Start", "RUNNING">>,
   <<"CALIBRATION", "CalibrationDone", "IDLE">>,
   <<"CALIBRATION", "Stop", "IDLE">>, <<"CALIBRATION", "Reset", "IDLE">>,
   <<"IDLE", "Fault", "ERROR">>, <<"RUNNING", "Fault", "ERROR">>,
   <<"CALIBRATION", "Fault", "ERROR">>, <<"ERROR", "Reset", "IDLE">>}

\* process_event() looks the row up; an event without one is dropped.
ProcessEvent(t) ==
  /\ At(t, "process")
  /\ \/ \E row \in Table :
          /\ row[1] = sm /\ row[2] = Now(t).of
          /\ Then(t, <<Step("enter", row[3], Nothing), Step("after", Nothing, Nothing)>>)
     \/ /\ \A row \in Table : <<row[1], row[2]>> # <<sm, Now(t).of>>
        /\ Then(t, <<Step("after", Nothing, Nothing)>>)
  /\ UNCHANGED <<machine, plant, presenter, alarms, lost>>

EnterState(t) ==
  /\ At(t, "enter")
  /\ sm' = Now(t).of
  /\ Then(t, <<>>)
  /\ UNCHANGED <<lastNotified, plant, presenter, alarms, lost>>

\* afterDispatch() reads the state ...
AfterDispatch(t) ==
  /\ At(t, "after")
  /\ Then(t, <<Step("compare", sm, Nothing)>>)
  /\ UNCHANGED <<machine, plant, presenter, alarms, lost>>

\* ... and tells the observers of one they have not heard of.
CompareNotified(t) ==
  /\ At(t, "compare")
  /\ lastNotified' = Now(t).of
  /\ Then(t, IF Now(t).of = lastNotified THEN <<>> ELSE <<NotifyState>>)
  /\ UNCHANGED <<sm, plant, presenter, alarms, lost>>

-----------------------------------------------------------------------------
(* What the calls change in the model *)

\* simulateProductionCycle()
ProductionCycle(t) ==
  /\ At(t, "cycle")
  /\ \/ /\ completed < Operations
        /\ completed' = completed + 1
        /\ Then(t, <<SetStatus(BLine, "Processing")>>)
     \/ /\ completed >= Operations
        /\ Then(t, <<>>)
        /\ UNCHANGED completed
  /\ UNCHANGED <<machine, status, rate, external, presenter, alarms, lost>>

ZeroWorkUnit(t) ==
  /\ At(t, "zero")
  /\ completed' = 0
  /\ Then(t, <<>>)
  /\ UNCHANGED <<machine, status, rate, external, presenter, alarms, lost>>

\* Some thread is handing out a copy of the line's status.
Held(l) == \E u \in Threads : At(u, "line") /\ Now(u).of = l

StoreStatus(t) ==
  /\ At(t, "setStatus")
  /\ status' = [status EXCEPT ![Now(t).of] = Now(t).value]
  /\ crossed' = crossed \cup {l \in {Now(t).of} : Held(l)}
  /\ Then(t, <<NotifyLine(Now(t).of)>>)
  /\ UNCHANGED <<machine, completed, rate, external, presenter, alarms, orphaned, abandoned>>

StoreRate(t) ==
  /\ At(t, "setRate")
  /\ rate' = [rate EXCEPT ![Now(t).of] = Now(t).value]
  /\ external' = external \cup {Now(t).of}
  /\ Then(t, <<NotifyRate(Now(t).of)>>)
  /\ UNCHANGED <<machine, completed, status, presenter, alarms, lost>>

\* tickSimulation() under the lock: the pass rates that no bridge has taken
\* over walk at random, the work unit advances and starts over when done.
SimulationStep(t) ==
  /\ At(t, "tick")
  /\ rate' \in {r \in [ToSet(Checkpoints) -> Rates] : \A c \in external : r[c] = rate[c]}
  /\ completed' = IF completed < Operations THEN completed + 1 ELSE 0
  /\ Then(t, <<>>)
  /\ UNCHANGED <<machine, status, external, presenter, alarms, lost>>

\* initializeDemoData() writes all of it, without the lock, in one step.
DemoData(t) ==
  /\ At(t, "demo")
  /\ completed' = DemoCompleted /\ status' = DemoStatus /\ rate' = DemoRate
  /\ crossed' = crossed \cup {l \in ToSet(Lines) : Held(l)}
  /\ Then(t, <<>>)
  /\ UNCHANGED <<machine, external, presenter, alarms, orphaned, abandoned>>

-----------------------------------------------------------------------------
(* The notifications: the callbacks and the value are copied, then called. *)

NotifyLineStep(t) ==
  /\ At(t, "notifyLine")
  /\ Then(t, IF wired THEN <<Step("line", Now(t).of, status[Now(t).of])>> ELSE <<>>)
  /\ crossed' = crossed \ {l \in {Now(t).of} : wired /\ ~Held(l)}
  /\ UNCHANGED <<machine, plant, presenter, alarms, orphaned, abandoned>>

NotifyRateStep(t) ==
  /\ At(t, "notifyRate")
  /\ Then(t, IF wired THEN <<Step("quality", Now(t).of, Nothing)>> ELSE <<>>)
  /\ UNCHANGED <<machine, plant, presenter, alarms, lost>>

NotifyStateStep(t) ==
  /\ At(t, "notifyState")
  /\ Then(t, IF wired THEN <<Step("state", sm, Nothing)>> ELSE <<>>)
  /\ UNCHANGED <<machine, plant, presenter, alarms, lost>>

-----------------------------------------------------------------------------
(* The presenter's handlers *)

\* The callback is over.
Returned(t) == orphaned' = orphaned \ {t}

Raise(k) == reported' = reported \cup {k} /\ dismissed' = dismissed \ {k}
Clear(k) == reported' = reported \ {k} /\ dismissed' = dismissed \ {k}

HandleEquipmentStatus(t) ==
  /\ At(t, "line")
  /\ IF Now(t).value = "Offline" THEN Raise(Now(t).of) ELSE Clear(Now(t).of)
  /\ Then(t, <<>>)
  /\ UNCHANGED <<machine, plant, presenter, crossed, abandoned>>
  /\ Returned(t)

\* handleQualityCheckpointUpdate() asks the model again instead of using what
\* it was handed.
HandleQualityCheckpoint(t) ==
  /\ At(t, "quality")
  /\ Then(t, <<Step("judge", Now(t).of, rate[Now(t).of])>>)
  /\ UNCHANGED <<machine, plant, presenter, alarms, lost>>

JudgeQuality(t) ==
  /\ At(t, "judge")
  /\ IF Now(t).value = "low" THEN Raise(Now(t).of) ELSE Clear(Now(t).of)
  /\ Then(t, <<>>)
  /\ UNCHANGED <<machine, plant, presenter, crossed, abandoned>>
  /\ Returned(t)

\* handleSystemStateChanged(): the alarm follows the change from the state
\* seen before ...
HandleSystemState(t) ==
  /\ At(t, "state")
  /\ LET now == Now(t).of IN
     /\ IF now = "ERROR" /\ prev # "ERROR" THEN Raise(SystemError)
        ELSE IF now # "ERROR" /\ prev = "ERROR" THEN Clear(SystemError)
        ELSE UNCHANGED alarms
     /\ Then(t, <<Step("seen", now, Nothing)>>)
  /\ abandoned' = (abandoned /\ UNCHANGED alarms)
  /\ UNCHANGED <<machine, plant, presenter, crossed, orphaned>>

\* Defect: the panel is built, the state is not remembered.
RememberStateNever(t) ==
  /\ At(t, "seen")
  /\ Then(t, <<Step("show", sm, Nothing)>>)
  /\ UNCHANGED <<machine, plant, presenter, alarms, lost>>

\* ... which is then the one seen; the panel is built from a fresh read.
RememberState(t) ==
  /\ At(t, "seen")
  /\ prev' = Now(t).of
  /\ Then(t, <<Step("show", sm, Nothing)>>)
  /\ UNCHANGED <<machine, plant, wired, panel, alarms, lost>>

ShowControlPanel(t) ==
  /\ At(t, "show")
  /\ panel' = Now(t).of
  /\ Then(t, <<>>)
  /\ UNCHANGED <<machine, plant, wired, prev, alarms, crossed, abandoned>>
  /\ Returned(t)

ClearCallbacks(t) ==
  /\ At(t, "clearCallbacks")
  /\ wired' = FALSE
  /\ Then(t, <<>>)
  /\ UNCHANGED <<machine, plant, prev, panel, alarms, lost>>

\* The presenter is destroyed and a new one subscribes.  A callback that
\* another thread had copied before still runs, on a presenter that is gone.
Initialize(t) ==
  /\ At(t, "initialize")
  /\ wired' = TRUE
  /\ prev' = "IDLE"
  /\ panel' = "IDLE"
  /\ orphaned' = {u \in Threads : \E name \in Callback : At(u, name)}
  /\ abandoned' = (abandoned \/ SystemError \in reported)
  /\ Then(t, <<>>)
  /\ UNCHANGED <<machine, plant, alarms, crossed>>

\* What such a callback does is undefined: as before, or nothing.
OrphanDoesNothing(t) ==
  /\ t \in orphaned
  /\ Then(t, <<>>)
  /\ Returned(t)
  /\ UNCHANGED <<machine, plant, presenter, alarms, crossed, abandoned>>

-----------------------------------------------------------------------------
Drive(t) ==
  StartProduction(t) \/ StopProduction(t) \/ ResetSystem(t) \/ StartCalibration(t)
Enable(t) ==
  \E l \in ToSet(Lines), enabled \in BOOLEAN : SetEquipmentEnabled(t, l, enabled)

\* TCP, OPC-UA, and the ingest bridges of MQTT, serial, Modbus and OPC-UA.
RemoteCall(t) ==
  \E kind \in Remote :
    CASE kind = "state" -> Drive(t)
      [] kind = "enable" -> Enable(t)
      [] kind = "supply" -> \E l \in ToSet(Lines) : SetEquipmentSupplyLevel(t, l)
      [] kind = "rate" -> \E c \in ToSet(Checkpoints), r \in Rates : SetQualityPassRate(t, c, r)

\* The operator, who holds every role, the refresh timer and the window.
GuiCall ==
  \/ Drive(Gui) \/ Enable(Gui) \/ LoadProduct \/ TriggerFault(Gui)
  \/ TickSimulation \/ RepublishAll \/ Rebuild \/ ClearAll

Runs(t) ==
  \/ ProcessEvent(t) \/ EnterState(t) \/ AfterDispatch(t) \/ CompareNotified(t)
  \/ ProductionCycle(t) \/ ZeroWorkUnit(t) \/ StoreStatus(t) \/ StoreRate(t)
  \/ SimulationStep(t) \/ DemoData(t)
  \/ NotifyLineStep(t) \/ NotifyRateStep(t) \/ NotifyStateStep(t)
  \/ HandleEquipmentStatus(t) \/ HandleQualityCheckpoint(t) \/ JudgeQuality(t)
  \/ HandleSystemState(t) \/ RememberState(t) \/ ShowControlPanel(t)
  \/ ClearCallbacks(t) \/ Initialize(t) \/ OrphanDoesNothing(t)

ProductionNext ==
  \/ GuiCall
  \/ \E t \in Threads \ {Gui} : RemoteCall(t)
  \/ \E t \in Threads : Runs(t)

\* A call that was begun goes on; with auto refresh on and the dashboard in
\* front, the refresh timer gets its turn between the other GUI events.
ProductionFairness ==
  /\ \A t \in Threads : WF_productionVars(Runs(t))
  /\ SF_productionVars(TickSimulation)

ProductionSpec == ProductionInit /\ [][ProductionNext]_productionVars /\ ProductionFairness

-----------------------------------------------------------------------------
\* What the steps of a call are about.
Steps ==
  LET Kind(names, of, value) == [op : names, of : of, value : value]
  IN  UNION {
        Kind({"process"}, {"Start", "Stop", "Reset", "Calibrate", "Fault"}, {Nothing}),
        Kind({"enter", "compare", "state", "seen", "show"}, States, {Nothing}),
        Kind({"setStatus", "line"}, ToSet(Lines), Statuses),
        Kind({"notifyLine"}, ToSet(Lines), {Nothing}),
        Kind({"setRate", "judge"}, ToSet(Checkpoints), Rates),
        Kind({"notifyRate", "quality"}, ToSet(Checkpoints), {Nothing}),
        Kind({"cycle", "zero", "tick", "demo", "after", "notifyState",
              "clearCallbacks", "initialize"}, {Nothing}, {Nothing})}

\* Types; the work unit never counts more operations than it has.
ProductionTypeOK ==
  /\ sm \in States /\ lastNotified \in States
  /\ completed \in 0 .. Operations
  /\ status \in [ToSet(Lines) -> Statuses]
  /\ rate \in [ToSet(Checkpoints) -> Rates]
  /\ external \subseteq ToSet(Checkpoints)
  /\ wired \in BOOLEAN /\ prev \in States /\ panel \in States
  /\ reported \subseteq Keys /\ dismissed \subseteq Keys
  /\ todo \in [Threads -> Seq(Steps)] /\ crossed \subseteq ToSet(Lines)
  /\ orphaned \subseteq Threads /\ abandoned \in BOOLEAN

\* What a reader of the screen may rely on while only the GUI thread commands
\* the model.  Whenever that thread is in no call, the fault alarm is up if and
\* only if the model is in ERROR, and the control panel offers the buttons of
\* the model's state.  When no thread is in a call, so are the alarms of the
\* lines, but for a line whose status changed while a callback held an older
\* copy and that was not announced undisturbed since.  Alarms the operator
\* cleared away may be missing; a fault alarm that survived its presenter is
\* set aside here and is the subject of LeavingErrorClears.
AlarmsTellTheTruth ==
  /\ todo[Gui] = <<>> =>
       /\ panel = sm /\ lastNotified = sm
       /\ sm = "ERROR" => SystemError \in reported \cup dismissed
       /\ SystemError \in reported => sm = "ERROR" \/ abandoned
  /\ Quiet =>
       \A l \in ToSet(Lines) \ crossed :
         IF status[l] = "Offline" THEN l \in reported \cup dismissed
                                  ELSE l \notin reported

\* A quality alarm may be wrong after two threads crossed, but not for good: a
\* rate that stays low is alarmed again and again, one that stays up is not.
QualityAlarmHeals ==
  \A c \in ToSet(Checkpoints) :
    /\ <>[](rate[c] = "low") => []<>(c \in reported)
    /\ <>[](rate[c] = "passing") => <>[](c \notin reported)

\* DashboardPresenter.cpp: "leaving ERROR (via Reset) clears the alarm."
LeavingErrorClears == Quiet /\ sm # "ERROR" => SystemError \notin reported

\* REQ-STATE-003: "The presenter shall raise a Critical ISA-18.2 alarm [...]
\* keyed system-error carrying the fault reason when the" machine enters ERROR.
\* The state machine leaves the locking to its callers, and they do not lock.
FaultIsAlarmed ==
  Quiet /\ sm = "ERROR" => SystemError \in reported \cup dismissed
=============================================================================
