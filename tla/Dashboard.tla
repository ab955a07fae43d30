----------------------------- MODULE Dashboard -----------------------------
(***************************************************************************)
(* The dashboard page: what it shows of the model, and what its widgets    *)
(* send back.  The presenter's callbacks run on whatever thread changed    *)
(* the model; each builds a view model and the page renders it from an     *)
(* idle callback.  Rendering an equipment card calls                       *)
(* Gtk::Switch::set_active(), which emits state-set when the switch        *)
(* changes, and the page's handler of that signal is the one for the       *)
(* operator's own click.                                                   *)
(*                                                                         *)
(* One equipment line stands for the three.  Charts, gauges and headline   *)
(* numbers only show what a view model says and are left out.              *)
(***************************************************************************)
EXTENDS Naturals, Sequences

CONSTANTS
    Backends,      \* threads of protocol backends that command the model
    MaxGestures,   \* bound: clicks of the operator
    MaxRemote      \* bound: commands of the backends

ASSUME DashboardAssumption == {MaxGestures, MaxRemote} \subseteq Nat

Roles     == {"Operator", "Maintenance"}
Guarded   == {"reset", "calibrate", "inject"}
Buttons   == {"start", "stop"} \cup Guarded
NoThread  == [at |-> "idle"]

VARIABLES
    line,         \* status of the equipment line in the model
    machine,      \* SystemState
    role,         \* currentRole_ of the page, role of the session
    switch,       \* enabledSwitch of the card
    lit,          \* the sensitive buttons of the control panel
    question,     \* the confirmation dialog in front, or "none"
    dashIdles,    \* the page's idle callbacks, in order
    backend,      \* per backend thread: where it is in a command
    echoed,       \* rendering issued a command nobody asked for
    gestures, remotes

dashVars == <<line, machine, role, switch, lit, question, dashIdles, backend, echoed, gestures,
              remotes>>

\* buildEquipmentVM(), buildControlPanelVM().
EquipmentVM(status) == [kind |-> "equipment", enabled |-> status \notin {"Offline", "Error"}]
PanelVM(state) ==
    [kind |-> "panel",
     on |-> CASE state = "IDLE"        -> {"start", "reset", "calibrate"}
              [] state = "RUNNING"     -> {"stop"}
              [] state = "ERROR"       -> {"reset"}
              [] state = "CALIBRATION" -> {"stop"}]

\* canCalibrate(), canResetSystem(), canInjectFault(); everybody may start and stop.
Allowed(r) == IF r = "Operator" THEN {"start", "stop"} ELSE Buttons

\* buildUI() and applyRole(): every switch off, the buttons the role may use lit.
NewPageFor(r) == [switch |-> FALSE, lit |-> Allowed(r)]

\* The page has been built and
\* initializeDemoData() has announced its line and the state.
DashboardInit ==
    /\ line \in {"Processing", "Online", "Offline"} /\ machine = "IDLE" /\ role \in Roles
    /\ switch = NewPageFor(role).switch /\ lit = NewPageFor(role).lit /\ question = "none"
    /\ dashIdles = <<EquipmentVM(line), PanelVM(machine)>>
    /\ backend = [b \in Backends |-> NoThread] /\ echoed = FALSE
    /\ gestures = 0 /\ remotes = 0

-----------------------------------------------------------------------------
(* Commands.                                                               *)

\* SystemStateMachine: where a command leads, the same state if it is dropped.
After(state, command) ==
    CASE command = "start"     -> IF state = "IDLE" THEN "RUNNING" ELSE state
      [] command = "stop"      -> IF state \in {"RUNNING", "CALIBRATION"} THEN "IDLE" ELSE state
      [] command = "reset"     -> "IDLE"
      [] command = "calibrate" -> IF state = "IDLE" THEN "CALIBRATION" ELSE state
      [] command = "inject"    -> "ERROR"

\* on*Clicked() of the presenter on the GUI thread: the role decides, and only
\* a transition is announced.  A start, dropped or not, ends with
\* simulateProductionCycle(): the line goes to work if it is the B-LINE and the
\* work unit has operations left.
Command(c) ==
    IF c \in Allowed(role)
    THEN LET told == IF After(machine, c) = machine THEN dashIdles
                     ELSE Append(dashIdles, PanelVM(After(machine, c)))
         IN  /\ machine' = After(machine, c)
             /\ \/ UNCHANGED line /\ dashIdles' = told
                \/ /\ c = "start" /\ line' = "Processing"
                   /\ dashIdles' = Append(told, EquipmentVM("Processing"))
    ELSE UNCHANGED <<line, machine, dashIdles>>

\* Start and Stop act at once, the others ask first.
ClickButton ==
    /\ question = "none" /\ gestures < MaxGestures /\ gestures' = gestures + 1
    /\ \E c \in lit :
          IF c \in Guarded THEN question' = c /\ UNCHANGED <<line, machine, dashIdles>>
          ELSE Command(c) /\ UNCHANGED question
    /\ UNCHANGED <<role, switch, lit, backend, echoed, remotes>>

\* The answer may come when the state is no longer the one of the click.
AnswerQuestion ==
    /\ question # "none" /\ question' = "none"
    /\ \/ Command(question)
       \/ UNCHANGED <<line, machine, dashIdles>>
    /\ UNCHANGED <<role, switch, lit, backend, echoed, gestures, remotes>>

\* onEquipmentToggled(): setEquipmentEnabled() and its notification.
Toggled(enabled, rest) ==
    /\ line' = IF enabled THEN "Online" ELSE "Offline"
    /\ dashIdles' = Append(rest, EquipmentVM(line'))

ClickSwitch ==
    /\ question = "none" /\ gestures < MaxGestures /\ gestures' = gestures + 1
    /\ switch' = ~switch /\ Toggled(~switch, dashIdles)
    /\ UNCHANGED <<machine, role, lit, question, backend, echoed, remotes>>

-----------------------------------------------------------------------------
(* A backend's thread: the write, the copy the callbacks get, the idle;    *)
(* after a start the production cycle, which writes and tells in turn.     *)

Cycle    == [at |-> "cycle"]
To(b, t) == backend' = [backend EXCEPT ![b] = t]

BackendWrites(b) ==
    /\ backend[b] = NoThread /\ remotes < MaxRemote /\ remotes' = remotes + 1
    /\ \/ \E s \in {"Online", "Offline"} :
             line' = s /\ UNCHANGED machine /\ To(b, [at |-> "line"])
       \/ \E c \in {"start", "stop"} :
             /\ machine' = After(machine, c) /\ UNCHANGED line
             /\ \/ machine' # machine /\ To(b, [at |-> "state", after |-> c])
                \/ machine' = machine /\ c = "start" /\ To(b, Cycle)
    /\ UNCHANGED <<role, switch, lit, question, dashIdles, echoed, gestures>>

BackendBuilds(b) ==
    /\ backend[b].at \in {"line", "state"}
    /\ To(b, IF backend[b].at = "line"
             THEN [at |-> "post", vm |-> EquipmentVM(line), next |-> NoThread]
             ELSE [at |-> "post", vm |-> PanelVM(machine),
                   next |-> IF backend[b].after = "start" THEN Cycle ELSE NoThread])
    /\ UNCHANGED <<line, machine, role, switch, lit, question, dashIdles, echoed, gestures, remotes>>

BackendPosts(b) ==
    /\ backend[b].at = "post" /\ dashIdles' = Append(dashIdles, backend[b].vm)
    /\ To(b, backend[b].next)
    /\ UNCHANGED <<line, machine, role, switch, lit, question, echoed, gestures, remotes>>

\* simulateProductionCycle().
BackendCycles(b) ==
    /\ backend[b] = Cycle
    /\ \/ line' = "Processing" /\ To(b, [at |-> "line"])
       \/ UNCHANGED line /\ To(b, NoThread)
    /\ UNCHANGED <<machine, role, switch, lit, question, dashIdles, echoed, gestures, remotes>>

-----------------------------------------------------------------------------
(* Rendering, on the GUI thread.                                           *)

\* set_active() with the handler of state-set blocked.
updateEquipmentCardSilently(vm) ==
    switch' = vm.enabled /\ dashIdles' = Tail(dashIdles) /\ UNCHANGED <<line, echoed>>

\* updateEquipmentCard(): set_active() on a switch that changes calls
\* onEquipmentSwitchToggled().
updateEquipmentCard(vm) ==
    IF vm.enabled = switch
    THEN UNCHANGED <<line, switch, echoed>> /\ dashIdles' = Tail(dashIdles)
    ELSE switch' = vm.enabled /\ echoed' = TRUE /\ Toggled(vm.enabled, Tail(dashIdles))

\* updateControlPanel(): the role masks what the view model enables.
updateControlPanel(vm) == lit' = (vm.on \cup {"inject"}) \cap Allowed(role)

Render ==
    /\ dashIdles # <<>>
    /\ LET vm == Head(dashIdles)
       IN  \/ vm.kind = "equipment" /\ updateEquipmentCard(vm) /\ UNCHANGED lit
           \/ /\ vm.kind = "panel" /\ updateControlPanel(vm) /\ dashIdles' = Tail(dashIdles)
              /\ UNCHANGED <<line, switch, echoed>>
    /\ UNCHANGED <<machine, role, question, backend, gestures, remotes>>

DashboardNext ==
    \/ ClickButton \/ AnswerQuestion \/ ClickSwitch \/ Render
    \/ \E b \in Backends : BackendWrites(b) \/ BackendBuilds(b) \/ BackendPosts(b) \/ BackendCycles(b)

-----------------------------------------------------------------------------
(* Properties.                                                             *)

\* Nothing is left to render and no backend is in the middle of a command.
DashboardQuiet == dashIdles = <<>> /\ \A b \in Backends : backend[b] = NoThread

\* When the page is quiet its switch shows whether the line is on, although
\* view models of two threads may arrive in the wrong order.
\* DashboardPage::updateEquipmentCard, onEquipmentSwitchToggled.
SwitchTellsLine == DashboardQuiet => switch = (line \notin {"Offline", "Error"})

\* No command the role does not allow is on offer or waits for an answer,
\* whatever view models arrive.  DashboardPage::applyRole, updateControlPanel.
RoleHoldsButtons == lit \cup ({question} \cap Buttons) \subseteq Allowed(role)

\* The quiet page tells the truth of the line, and offers a role nothing it may
\* not do.  DashboardPage::updateEquipmentCard, updateControlPanel.
DashboardTellsLine == SwitchTellsLine /\ RoleHoldsButtons

\* A page that only renders and forwards gestures, as src/gtk/view/README.md
\* says: no view model makes it command the model.
ViewIsPassive == ~echoed
=============================================================================
