---------------------------- MODULE AlertCenter ----------------------------
(***************************************************************************)
(* AlertCenter (src/presenter/AlertCenter.h): the alarm store of the HMI.  *)
(* Producers report a condition with raise() and clear(), the operator     *)
(* acknowledges, shelves, unshelves and clears, tick() ends shelving, and  *)
(* panels and network back ends read snapshots.  These calls come from     *)
(* several threads.  Each is one critical section under mutex_ followed,   *)
(* with the mutex released, by the signals a thread still owes (`pending').*)
(* A signal only queues a refresh of the alerts panel                      *)
(* (src/gtk/view/widgets/AlertsPanel.h), which the GUI thread performs     *)
(* later, reading the active and the shelved alarms one after the other.   *)
(*                                                                         *)
(* alarms_ is a vector with at most one alarm per key: here a function of  *)
(* the key, and `order' for the position.  A shelve deadline is the number *)
(* of clock steps left to it.  Texts and timestamps are left out, and so   *)
(* is the audit callback, whose entries the store never reads back.        *)
(***************************************************************************)
EXTENDS Naturals, Sequences

CONSTANTS Keys, Threads,
          Gui,              \* the thread that owns the panel
          Priorities,       \* 1 (Emergency) .. 4 (Low)
          HistoryCapacity,  \* kHistoryCapacity
          MaxShelf          \* bound: the longest shelve duration

ASSUME AlertConstants ==
  /\ Gui \in Threads
  /\ Priorities \subseteq 1 .. 4 /\ Priorities # {}
  /\ HistoryCapacity \in Nat \ {0}
  /\ MaxShelf \in Nat

VARIABLES alarm,    \* what is stored of each key
          order,    \* the keys in alarms_, oldest first
          history,  \* keys of history_, newest first
          pending,  \* signals each thread has yet to emit
          refreshQueued,   \* a refresh waits for the GUI thread to be idle
          showingHistory,  \* the panel's toggle
          rendering,       \* the panel is between its two reads
          ticking,         \* auto-refresh is on and the dashboard tab in front
          stale            \* which of its lists differ from the store

view == <<refreshQueued, showingHistory, rendering, ticking>>
vars == <<alarm, order, history, pending, view, stale>>

Untracked == "Untracked"
Active == {"UnackActive", "AckActive"}
States == Active \cup {"RtnUnack", "Shelved"}
Alarms == [state : States \cup {Untracked}, conditionActive : BOOLEAN,
           left : 0 .. MaxShelf, priority : Priorities \cup {0}]
NoAlarm == [state |-> Untracked, conditionActive |-> FALSE, left |-> 0, priority |-> 0]

Tracked(k) == alarm[k].state # Untracked
Signals == {"alerts", "history"}

\* What a row of the panel tells of each alarm.
Row == [k \in Keys |-> [key |-> k, state |-> alarm[k].state, priority |-> alarm[k].priority]]

\* The elements of a sequence that belong to a set, in their order.
Those(seq, set) == SelectSeq(seq, LAMBDA x : x \in set)

\* One priority's share of snapshot(): shelved alarms are left out, and those
\* that compare equal stay in insertion order.
Band(p) == Those(order, {k \in Keys : alarm[k].state # "Shelved" /\ alarm[k].priority = p})

\* snapshot(): the stable sort by priority.
Snapshot ==
  LET keys == Band(1) \o Band(2) \o Band(3) \o Band(4)
  IN  [i \in 1 .. Len(keys) |-> Row[keys[i]]]

\* shelvedSnapshot(), as the set of what it lists.
ShelvedSnapshot == {k \in Keys : alarm[k].state = "Shelved"}

\* The three lists a panel can show, and what the store has for each.
Lists == {"active", "shelved", "history"}
Content(list) ==
  CASE list = "active" -> Snapshot
    [] list = "shelved" -> ShelvedSnapshot
    [] list = "history" -> history

Init ==
  /\ alarm = [k \in Keys |-> NoAlarm]
  /\ order = <<>>
  /\ history = <<>>
  /\ pending = [t \in Threads |-> {}]
  /\ refreshQueued = FALSE /\ showingHistory = FALSE /\ rendering = FALSE
  /\ ticking \in BOOLEAN
  /\ stale = {}

-----------------------------------------------------------------------------
(* What the mutators share *)

\* A thread makes its next call when it owes nothing and is not rendering.
Free(t) == pending[t] = {} /\ ~(t = Gui /\ rendering)

Owes(t, signals) ==
  /\ pending' = [pending EXCEPT ![t] = signals]
  /\ UNCHANGED view

\* What is left of the ring once the oldest entries fell off.
Capped(ring) ==
  SubSeq(ring, 1, IF Len(ring) < HistoryCapacity THEN Len(ring) ELSE HistoryCapacity)

\* alarms_.erase(), at position i
Erased(i) == [j \in 1 .. Len(order) - 1 |-> IF j < i THEN order[j] ELSE order[j + 1]]

\* The alarm moves from alarms_ to history_: pushHistoryUnlocked(), newest first.
Resolve(k) ==
  /\ alarm' = [alarm EXCEPT ![k] = NoAlarm]
  /\ \E i \in 1 .. Len(order) : order[i] = k /\ order' = Erased(i)
  /\ history' = Capped(<<k>> \o history)

Restate(k, state) ==
  /\ alarm' = [alarm EXCEPT ![k].state = state]
  /\ UNCHANGED <<order, history>>

\* Where a shelved alarm comes back.
Restored(a) ==
  [a EXCEPT !.state = IF a.conditionActive THEN "UnackActive" ELSE "RtnUnack", !.left = 0]

-----------------------------------------------------------------------------
(* The producers' calls *)

\* Defect: a returned alarm whose condition comes back keeps its state.
ReraisedQuietly(a, p) ==
  [a EXCEPT !.priority = p, !.conditionActive = TRUE]

\* raise() on a known key: the state survives, except that a returned alarm
\* alarms again.
Reraised(a, p) ==
  [a EXCEPT !.priority = p,
            !.conditionActive = TRUE,
            !.state = IF a.state = "RtnUnack" THEN "UnackActive" ELSE a.state]

\* Defect: a key that is already there gets a second row.
RaiseAnew(t, k, p) ==
  /\ Free(t)
  /\ alarm' = [alarm EXCEPT ![k] = [state |-> "UnackActive", conditionActive |-> TRUE,
                                     left |-> 0, priority |-> p]]
  /\ order' = Append(order, k)
  /\ UNCHANGED history
  /\ Owes(t, {"alerts"})

Raise(t, k, p) ==
  /\ Free(t)
  /\ IF Tracked(k)
       THEN alarm' = [alarm EXCEPT ![k] = Reraised(alarm[k], p)] /\ UNCHANGED order
       ELSE /\ alarm' = [alarm EXCEPT ![k] = [state |-> "UnackActive", conditionActive |-> TRUE,
                                              left |-> 0, priority |-> p]]
            /\ order' = Append(order, k)
  /\ UNCHANGED history
  /\ Owes(t, {"alerts"})

\* Defect: a condition that returns to normal takes its alarm away.
ClearForgetful(t, k) ==
  /\ Free(t)
  /\ Tracked(k)
  /\ Resolve(k)
  /\ Owes(t, Signals)

\* clear(): the condition returned to normal.  A shelved or returned alarm
\* only has its flag updated, and nothing is signalled.
Clear(t, k) ==
  /\ Free(t)
  /\ Tracked(k)
  /\ CASE alarm[k].state = "AckActive" -> Resolve(k) /\ Owes(t, Signals)
       [] alarm[k].state = "UnackActive" ->
            /\ alarm' = [alarm EXCEPT ![k].conditionActive = FALSE, ![k].state = "RtnUnack"]
            /\ UNCHANGED <<order, history>>
            /\ Owes(t, {"alerts"})
       [] OTHER ->
            /\ alarm' = [alarm EXCEPT ![k].conditionActive = FALSE]
            /\ UNCHANGED <<order, history, pending, view>>

-----------------------------------------------------------------------------
(* The operator's calls *)

Acknowledge(t, k) ==
  /\ Free(t)
  /\ \/ /\ alarm[k].state = "UnackActive"
        /\ Restate(k, "AckActive")
        /\ Owes(t, {"alerts"})
     \/ /\ alarm[k].state = "RtnUnack"
        /\ Resolve(k)
        /\ Owes(t, Signals)

\* Defect: the panel is not told.
ShelveSilently(t, k, duration) ==
  /\ Free(t)
  /\ Tracked(k)
  /\ alarm' = [alarm EXCEPT ![k].state = "Shelved", ![k].left = duration]
  /\ UNCHANGED <<order, history, pending, view>>

\* From any state, shelved alarms included.
Shelve(t, k, duration) ==
  /\ Free(t)
  /\ Tracked(k)
  /\ alarm' = [alarm EXCEPT ![k].state = "Shelved", ![k].left = duration]
  /\ UNCHANGED <<order, history>>
  /\ Owes(t, {"alerts"})

Unshelve(t, k) ==
  /\ Free(t)
  /\ alarm[k].state = "Shelved"
  /\ alarm' = [alarm EXCEPT ![k] = Restored(alarm[k])]
  /\ UNCHANGED <<order, history>>
  /\ Owes(t, {"alerts"})

\* clearAll(): every alarm is pushed to history_, in the order of alarms_.
ClearAll(t) ==
  /\ Free(t)
  /\ order # <<>>
  /\ history' = Capped([i \in 1 .. Len(order) |-> order[Len(order) + 1 - i]] \o history)
  /\ alarm' = [k \in Keys |-> NoAlarm]
  /\ order' = <<>>
  /\ Owes(t, Signals)

ClearHistory(t) ==
  /\ Free(t)
  /\ history # <<>>
  /\ history' = <<>>
  /\ UNCHANGED <<alarm, order>>
  /\ Owes(t, {"history"})

-----------------------------------------------------------------------------
(* Time *)

Expired(k) == alarm[k].state = "Shelved" /\ alarm[k].left = 0

\* Defect: the deadline itself does not count as passed.
TickLate(t) ==
  /\ Free(t)
  /\ \E k \in Keys : Expired(k)
  /\ UNCHANGED <<alarm, order, history, pending, view>>

\* tick(): every shelved alarm past its deadline comes back.  The presenter
\* calls it whenever the model announces a work unit, on the announcing thread.
Tick(t) ==
  /\ Free(t)
  /\ \E k \in Keys : Expired(k)
  /\ alarm' = [k \in Keys |-> IF Expired(k) THEN Restored(alarm[k]) ELSE alarm[k]]
  /\ UNCHANGED <<order, history>>
  /\ Owes(t, {"alerts"})

\* applyAutoRefresh(): the operator switches the simulation's timer on or off,
\* or turns to another tab, where the timer fires and does nothing.
SwitchTimer ==
  /\ Free(Gui)
  /\ ticking' = ~ticking
  /\ UNCHANGED <<alarm, order, history, pending, refreshQueued, showingHistory, rendering, stale>>

\* The wall clock moves on.
ClockStep ==
  /\ \E k \in Keys : alarm[k].left > 0
  /\ alarm' = [k \in Keys |->
                 [alarm[k] EXCEPT !.left = IF @ > 0 THEN @ - 1 ELSE 0]]
  /\ UNCHANGED <<order, history, pending, view, stale>>

-----------------------------------------------------------------------------
(* The signals, emitted with the mutex released: scheduleRefresh()          *)

EmitSignal(t) ==
  /\ pending[t] # {}
  /\ pending' = [pending EXCEPT ![t] = IF "alerts" \in @ THEN @ \ {"alerts"} ELSE {}]
  /\ refreshQueued' = TRUE
  /\ UNCHANGED <<alarm, order, history, showingHistory, rendering, ticking, stale>>

\* retranslate(): the rows whose producer installed a callback are rendered
\* again, and the panel is told of the lists that have such a row.
Retranslate(t) ==
  /\ Free(t)
  /\ \E signals \in (SUBSET Signals) \ {{}} :
       /\ "alerts" \in signals => order # <<>>
       /\ "history" \in signals => history # <<>>
       /\ Owes(t, signals)
  /\ UNCHANGED <<alarm, order, history>>

-----------------------------------------------------------------------------
(* The panel, on the GUI thread *)

\* The list shown first is read.
Read ==
  IF showingHistory' THEN stale' = stale \ {"history"} /\ UNCHANGED rendering
  ELSE stale' = stale \ {"active"} /\ rendering' = TRUE

\* refresh(), from the idle handler: the handler forgets the queued refresh
\* before it reads.
Refresh ==
  /\ refreshQueued /\ Free(Gui)
  /\ refreshQueued' = FALSE
  /\ UNCHANGED showingHistory
  /\ Read
  /\ UNCHANGED <<alarm, order, history, pending, ticking>>

\* renderActiveAndShelved(), the second read
RenderShelved ==
  /\ rendering
  /\ rendering' = FALSE
  /\ stale' = stale \ {"shelved"}
  /\ UNCHANGED <<alarm, order, history, pending, refreshQueued, showingHistory, ticking>>

\* The history toggle refreshes at once.
ToggleHistory ==
  /\ Free(Gui)
  /\ showingHistory' = ~showingHistory
  /\ Read
  /\ UNCHANGED <<alarm, order, history, pending, refreshQueued, ticking>>

Panel == Refresh \/ RenderShelved \/ ToggleHistory

-----------------------------------------------------------------------------
Call(t) ==
  \/ \E k \in Keys : Clear(t, k) \/ Acknowledge(t, k) \/ Unshelve(t, k)
  \/ \E k \in Keys, p \in Priorities : Raise(t, k, p)
  \/ \E k \in Keys, d \in 0 .. MaxShelf : Shelve(t, k, d)
  \/ ClearAll(t) \/ ClearHistory(t) \/ Retranslate(t) \/ Tick(t)

\* What a call changes makes the panel's copy of it stale.
Touches == stale' = stale \cup {list \in Lists : Content(list)' # Content(list)}

Next ==
  \/ \E t \in Threads : Call(t) /\ Touches
  \/ \E t \in Threads : EmitSignal(t)
  \/ Panel
  \/ SwitchTimer
  \/ ClockStep

\* A call that was begun returns and the clock runs.  The one caller of tick()
\* that comes back by itself is the GUI thread's timer, and only while it is
\* ticking; whether anyone else calls, and whether the timer stays on, is free.
Fairness ==
  /\ \A t \in Threads : WF_vars(EmitSignal(t))
  /\ WF_vars(ClockStep) /\ WF_vars(RenderShelved)
  /\ SF_vars(ticking /\ Tick(Gui) /\ Touches)

Spec == Init /\ [][Next]_vars /\ Fairness

-----------------------------------------------------------------------------
\* Types; the history ring never outgrows kHistoryCapacity.
TypeOK ==
  /\ alarm \in [Keys -> Alarms]
  /\ order \in Seq(Keys)
  /\ history \in Seq(Keys) /\ Len(history) <= HistoryCapacity
  /\ pending \in [Threads -> SUBSET Signals]
  /\ refreshQueued \in BOOLEAN /\ showingHistory \in BOOLEAN /\ rendering \in BOOLEAN
  /\ ticking \in BOOLEAN
  /\ stale \subseteq Lists

\* One row per key, however often a condition is reported: the position list
\* names exactly the tracked alarms, each once.
OneRowPerKey ==
  /\ \A k \in Keys : Tracked(k) <=> \E i \in 1 .. Len(order) : order[i] = k
  /\ \A i, j \in 1 .. Len(order) : order[i] = order[j] => i = j

\* The state an alarm shows agrees with the condition last reported for it,
\* also after any sequence of reports it received while shelved.
StateMatchesCondition ==
  \A k \in Keys :
    /\ alarm[k].state \in Active => alarm[k].conditionActive
    /\ alarm[k].state = "RtnUnack" => ~alarm[k].conditionActive

\* Nothing vanishes unseen: an alarm that is not acknowledged leaves the store
\* by the operator's own acknowledge() or clearAll() only.  A condition that
\* returns to normal, a shelf that ends or a new report never takes it away.
NothingVanishesUnseen ==
  [][\A k \in Keys : Tracked(k) /\ ~Tracked(k)' /\ alarm[k].state # "AckActive" =>
       \E t \in Threads : ClearAll(t) \/ Acknowledge(t, k)]_vars

\* The panel is never left stale: once every call has returned and no refresh
\* is queued it shows the store, though every signal was emitted after the
\* mutex was released and the two lists are read at different moments.
PanelCurrentWhenQuiet ==
  (\A t \in Threads : Free(t)) /\ ~refreshQueued =>
    stale \cap (IF showingHistory THEN {"history"} ELSE {"active", "shelved"}) = {}

\* A shelf ends by itself when the timer runs: from the moment auto-refresh
\* stays on with the dashboard in front, an alarm past its deadline does not
\* stay shelved, whatever the GUI thread owes, renders or does in between.
\* With the timer off, or another tab in front, nothing promises that.
ShelfExpires ==
  <>[]ticking => \A k \in Keys : Expired(k) ~> ~Expired(k)
=============================================================================
