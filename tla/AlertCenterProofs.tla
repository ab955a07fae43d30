------------------------- MODULE AlertCenterProofs -------------------------
(***************************************************************************)
(* Proofs about AlertCenter, for any set of alarm keys and of threads, any *)
(* history capacity and any shelve duration.                               *)
(***************************************************************************)
EXTENDS AlertCenter, TLAPS

USE DEF Active, States, Untracked, Signals, Lists, view

\* What the ring keeps is a sequence of keys within its capacity.
LEMMA CappedType ==
  ASSUME NEW ring \in Seq(Keys)
  PROVE  Capped(ring) \in Seq(Keys) /\ Len(Capped(ring)) <= HistoryCapacity
  BY AlertConstants DEF Capped

\* Erasing a position leaves a sequence of keys.
LEMMA ErasedType ==
  ASSUME order \in Seq(Keys), NEW i \in 1 .. Len(order)
  PROVE  /\ Erased(i) \in Seq(Keys)
         /\ Len(Erased(i)) = Len(order) - 1
         /\ \A j \in 1 .. Len(order) - 1 :
              Erased(i)[j] = IF j < i THEN order[j] ELSE order[j + 1]
  BY DEF Erased

LEMMA NoAlarmType == NoAlarm \in Alarms
  BY AlertConstants DEF NoAlarm, Alarms

\* The updates a stored alarm can undergo keep its type.
LEMMA UpdateType ==
  ASSUME NEW a \in Alarms
  PROVE  /\ [a EXCEPT !.conditionActive = FALSE] \in Alarms
         /\ \A s \in States : [a EXCEPT !.state = s] \in Alarms
         /\ Restored(a) \in Alarms
         /\ [a EXCEPT !.left = IF @ > 0 THEN @ - 1 ELSE 0] \in Alarms
  <1>1. Restored(a) \in Alarms
    <2>1. 0 \in 0 .. MaxShelf
      BY AlertConstants
    <2>2. \A s \in States : [a EXCEPT !.state = s, !.left = 0] \in Alarms
      BY <2>1 DEF Alarms
    <2>3. QED
      BY <2>2 DEF Restored
  <1>2. [a EXCEPT !.left = IF @ > 0 THEN @ - 1 ELSE 0] \in Alarms
    <2>1. a.left \in 0 .. MaxShelf
      BY DEF Alarms
    <2>2. (IF a.left > 0 THEN a.left - 1 ELSE 0) \in 0 .. MaxShelf
      BY <2>1, AlertConstants
    <2>3. \A n \in 0 .. MaxShelf : [a EXCEPT !.left = n] \in Alarms
      BY DEF Alarms
    <2>4. QED
      BY <2>2, <2>3
  <1>3. QED
    BY <1>1, <1>2 DEF Alarms

\* Resolving an alarm keeps the types of the three stores.
LEMMA ResolveType ==
  ASSUME TypeOK, NEW k \in Keys, Resolve(k)
  PROVE  /\ alarm' \in [Keys -> Alarms]
         /\ order' \in Seq(Keys)
         /\ history' \in Seq(Keys) /\ Len(history') <= HistoryCapacity
  <1>1. alarm' \in [Keys -> Alarms]
    BY NoAlarmType DEF TypeOK, Resolve
  <1>2. order' \in Seq(Keys)
    BY ErasedType DEF TypeOK, Resolve
  <1>3. <<k>> \o history \in Seq(Keys)
    BY DEF TypeOK
  <1>4. QED
    BY <1>1, <1>2, <1>3, CappedType DEF Resolve

-----------------------------------------------------------------------------
(* Type correctness *)

\* One store of an alarm, and the signals owed for it.
LEMMA StoreType ==
  ASSUME TypeOK, NEW t \in Threads, NEW k \in Keys, NEW a \in Alarms,
         alarm' = [alarm EXCEPT ![k] = a],
         order' \in Seq(Keys), UNCHANGED history, Owes(t, {"alerts"})
  PROVE  TypeOK' \/ stale' \notin SUBSET Lists
  BY DEF TypeOK, Owes

LEMMA CallType ==
  ASSUME TypeOK, NEW t \in Threads, Call(t), Touches
  PROVE  TypeOK'
  <1>0. stale' \in SUBSET Lists
    BY DEF Touches, TypeOK
  <1>1. ASSUME NEW k \in Keys, NEW p \in Priorities, Raise(t, k, p)
        PROVE  TypeOK'
    <2>1. CASE Tracked(k)
      <3>1. alarm[k] \in Alarms /\ Reraised(alarm[k], p) \in Alarms
        BY DEF TypeOK, Reraised, Alarms
      <3>2. QED
        BY <1>0, <1>1, <2>1, <3>1, StoreType DEF Raise, TypeOK
    <2>2. CASE ~Tracked(k)
      <3>1. [state |-> "UnackActive", conditionActive |-> TRUE, left |-> 0, priority |-> p]
              \in Alarms
        BY AlertConstants DEF Alarms
      <3>2. Append(order, k) \in Seq(Keys)
        BY DEF TypeOK
      <3>3. QED
        BY <1>0, <1>1, <2>2, <3>1, <3>2, StoreType DEF Raise
    <2>3. QED
      BY <2>1, <2>2
  <1>2. ASSUME NEW k \in Keys, Clear(t, k)
        PROVE  TypeOK'
    <2>1. CASE alarm[k].state = "AckActive"
      BY <1>0, <1>2, <2>1, ResolveType DEF Clear, Owes, TypeOK
    <2>2. CASE alarm[k].state = "UnackActive"
      <3>1. /\ alarm' = [alarm EXCEPT ![k].conditionActive = FALSE, ![k].state = "RtnUnack"]
            /\ UNCHANGED <<order, history>>
        BY <1>2, <2>2 DEF Clear
      <3>2. alarm' \in [Keys -> Alarms]
        BY <3>1 DEF TypeOK, Alarms
      <3>3. QED
        BY <1>0, <1>2, <2>2, <3>1, <3>2 DEF Clear, Owes, TypeOK
    <2>3. CASE alarm[k].state \notin Active
      <3>1. /\ alarm' = [alarm EXCEPT ![k].conditionActive = FALSE]
            /\ UNCHANGED <<order, history, pending, view>>
        BY <1>2, <2>3 DEF Clear
      <3>2. alarm' \in [Keys -> Alarms]
        BY <3>1, UpdateType DEF TypeOK
      <3>3. QED
        BY <1>0, <3>1, <3>2 DEF TypeOK
    <2>4. QED
      BY <2>1, <2>2, <2>3
  <1>3. ASSUME NEW k \in Keys, Acknowledge(t, k)
        PROVE  TypeOK'
    <2>1. CASE alarm[k].state = "UnackActive"
      <3>1. alarm' \in [Keys -> Alarms]
        <4>1. [alarm[k] EXCEPT !.state = "AckActive"] \in Alarms
          BY UpdateType DEF TypeOK
        <4>2. alarm' = [alarm EXCEPT ![k].state = "AckActive"]
          BY <1>3, <2>1 DEF Acknowledge, Restate
        <4>3. QED
          BY <4>1, <4>2 DEF TypeOK
      <3>2. QED
        BY <1>0, <1>3, <2>1, <3>1 DEF Acknowledge, Restate, Owes, TypeOK
    <2>2. CASE alarm[k].state = "RtnUnack"
      BY <1>0, <1>3, <2>2, ResolveType DEF Acknowledge, Owes, TypeOK
    <2>3. QED
      BY <1>3, <2>1, <2>2 DEF Acknowledge
  <1>4. ASSUME NEW k \in Keys, NEW d \in 0 .. MaxShelf, Shelve(t, k, d)
        PROVE  TypeOK'
    BY <1>0, <1>4 DEF Shelve, Owes, TypeOK, Alarms
  <1>5. ASSUME NEW k \in Keys, Unshelve(t, k)
        PROVE  TypeOK'
    <2>1. alarm' \in [Keys -> Alarms]
      BY <1>5, UpdateType DEF Unshelve, TypeOK
    <2>2. QED
      BY <1>0, <1>5, <2>1 DEF Unshelve, Owes, TypeOK
  <1>6. ASSUME ClearAll(t)
        PROVE  TypeOK'
    <2>1. [i \in 1 .. Len(order) |-> order[Len(order) + 1 - i]] \in Seq(Keys)
      BY DEF TypeOK
    <2>2. [i \in 1 .. Len(order) |-> order[Len(order) + 1 - i]] \o history \in Seq(Keys)
      BY <2>1 DEF TypeOK
    <2>3. history' \in Seq(Keys) /\ Len(history') <= HistoryCapacity
      BY <1>6, <2>2, CappedType DEF ClearAll
    <2>4. QED
      BY <1>0, <1>6, <2>3, NoAlarmType DEF ClearAll, Owes, TypeOK
  <1>7. ASSUME ClearHistory(t)
        PROVE  TypeOK'
    BY <1>0, <1>7, AlertConstants DEF ClearHistory, Owes, TypeOK
  <1>8. ASSUME Retranslate(t)
        PROVE  TypeOK'
    BY <1>0, <1>8 DEF Retranslate, Owes, TypeOK
  <1>9. ASSUME Tick(t)
        PROVE  TypeOK'
    <2>1. alarm' \in [Keys -> Alarms]
      BY <1>9, UpdateType DEF Tick, TypeOK
    <2>2. QED
      BY <1>0, <1>9, <2>1 DEF Tick, Owes, TypeOK
  <1>10. QED
    BY <1>1, <1>2, <1>3, <1>4, <1>5, <1>6, <1>7, <1>8, <1>9 DEF Call

\* Every reachable state of the store and of its panel is well typed: the
\* history ring keeps to its capacity and no alarm has a state or a deadline
\* outside its range, for any number of alarms and threads.
THEOREM TypeInvariant == Spec => []TypeOK
  <1>1. Init => TypeOK
    <2> SUFFICES ASSUME Init PROVE TypeOK
      OBVIOUS
    <2>1. <<>> \in Seq(Keys) /\ Len(<<>>) = 0
      OBVIOUS
    <2>2. alarm \in [Keys -> Alarms]
      BY NoAlarmType DEF Init
    <2>3. history \in Seq(Keys) /\ Len(history) <= HistoryCapacity
      BY <2>1, AlertConstants DEF Init
    <2>4. QED
      BY <2>1, <2>2, <2>3 DEF Init, TypeOK
  <1>2. TypeOK /\ [Next]_vars => TypeOK'
    <2> SUFFICES ASSUME TypeOK, [Next]_vars PROVE TypeOK'
      OBVIOUS
    <2>1. CASE \E t \in Threads : Call(t) /\ Touches
      BY <2>1, CallType
    <2>2. ASSUME NEW t \in Threads, EmitSignal(t) PROVE TypeOK'
      BY <2>2 DEF EmitSignal, TypeOK
    <2>3. CASE Refresh
      BY <2>3 DEF Refresh, Read, TypeOK
    <2>4. CASE RenderShelved
      BY <2>4 DEF RenderShelved, TypeOK
    <2>5. CASE ToggleHistory
      BY <2>5 DEF ToggleHistory, Read, TypeOK
    <2>6. CASE ClockStep
      <3>1. alarm' \in [Keys -> Alarms]
        BY <2>6, UpdateType DEF ClockStep, TypeOK
      <3>2. QED
        BY <2>6, <3>1 DEF ClockStep, TypeOK
    <2>7. CASE SwitchTimer
      BY <2>7 DEF SwitchTimer, TypeOK
    <2>8. CASE UNCHANGED vars
      BY <2>8 DEF vars, TypeOK
    <2>9. QED
      BY <2>1, <2>2, <2>3, <2>4, <2>5, <2>6, <2>7, <2>8 DEF Next, Panel
  <1>3. QED
    BY <1>1, <1>2, PTL DEF Spec

-----------------------------------------------------------------------------
(* The state an alarm shows and the condition it reports *)

\* What StateMatchesCondition says of one stored alarm.
Matches(a) ==
  /\ a.state \in Active => a.conditionActive
  /\ a.state = "RtnUnack" => ~a.conditionActive

\* A shelved alarm comes back in the state its condition calls for, whatever
\* was reported while it was shelved.
LEMMA RestoredMatches ==
  ASSUME NEW a \in Alarms
  PROVE  Matches(Restored(a))
  <1>1. CASE a.conditionActive
    BY <1>1 DEF Matches, Restored, Alarms
  <1>2. CASE ~a.conditionActive
    BY <1>2 DEF Matches, Restored, Alarms
  <1>3. QED
    BY <1>1, <1>2

\* A repeated report leaves the state and the condition in agreement.
LEMMA ReraisedMatches ==
  ASSUME NEW a \in Alarms, NEW p \in Priorities, a.state # Untracked
  PROVE  Matches(Reraised(a, p))
  <1>1. CASE a.state = "RtnUnack"
    BY <1>1 DEF Matches, Reraised, Alarms
  <1>2. CASE a.state # "RtnUnack"
    BY <1>2 DEF Matches, Reraised, Alarms
  <1>3. QED
    BY <1>1, <1>2

\* An update of one alarm, all others staying as they are.
LEMMA OneAlarmMatches ==
  ASSUME TypeOK, StateMatchesCondition, NEW k \in Keys, NEW a,
         alarm' = [alarm EXCEPT ![k] = a], Matches(a)
  PROVE  StateMatchesCondition'
  BY DEF TypeOK, StateMatchesCondition, Matches

LEMMA NoAlarmMatches == Matches(NoAlarm)
  BY DEF Matches, NoAlarm

LEMMA CallMatches ==
  ASSUME TypeOK, StateMatchesCondition, NEW t \in Threads, Call(t)
  PROVE  StateMatchesCondition'
  <1>1. ASSUME NEW k \in Keys, NEW p \in Priorities, Raise(t, k, p)
        PROVE  StateMatchesCondition'
    <2>1. CASE Tracked(k)
      <3>1. Matches(Reraised(alarm[k], p))
        BY <2>1, ReraisedMatches DEF TypeOK, Tracked
      <3>2. QED
        BY <1>1, <2>1, <3>1, OneAlarmMatches DEF Raise
    <2>2. CASE ~Tracked(k)
      <3>1. Matches([state |-> "UnackActive", conditionActive |-> TRUE,
                     left |-> 0, priority |-> p])
        BY DEF Matches
      <3>2. QED
        BY <1>1, <2>2, <3>1, OneAlarmMatches DEF Raise
    <2>3. QED
      BY <2>1, <2>2
  <1>2. ASSUME NEW k \in Keys, Clear(t, k)
        PROVE  StateMatchesCondition'
    <2>1. CASE alarm[k].state = "AckActive"
      BY <1>2, <2>1, NoAlarmMatches, OneAlarmMatches DEF Clear, Resolve
    <2>2. CASE alarm[k].state = "UnackActive"
      <3>1. alarm' = [alarm EXCEPT ![k] =
                        [alarm[k] EXCEPT !.conditionActive = FALSE, !.state = "RtnUnack"]]
        BY <1>2, <2>2 DEF Clear, TypeOK, Alarms
      <3>2. Matches([alarm[k] EXCEPT !.conditionActive = FALSE, !.state = "RtnUnack"])
        BY DEF Matches, TypeOK, Alarms
      <3>3. QED
        BY <3>1, <3>2, OneAlarmMatches
    <2>3. CASE alarm[k].state \notin Active
      <3>1. alarm' = [alarm EXCEPT ![k] = [alarm[k] EXCEPT !.conditionActive = FALSE]]
        BY <1>2, <2>3 DEF Clear
      <3>2. Matches([alarm[k] EXCEPT !.conditionActive = FALSE])
        BY <2>3 DEF Matches, TypeOK, Alarms
      <3>3. QED
        BY <3>1, <3>2, OneAlarmMatches
    <2>4. QED
      BY <2>1, <2>2, <2>3
  <1>3. ASSUME NEW k \in Keys, Acknowledge(t, k)
        PROVE  StateMatchesCondition'
    <2>1. CASE alarm[k].state = "UnackActive"
      <3>1. alarm' = [alarm EXCEPT ![k] = [alarm[k] EXCEPT !.state = "AckActive"]]
        BY <1>3, <2>1 DEF Acknowledge, Restate
      <3>2. Matches([alarm[k] EXCEPT !.state = "AckActive"])
        BY <2>1 DEF Matches, StateMatchesCondition, TypeOK, Alarms
      <3>3. QED
        BY <3>1, <3>2, OneAlarmMatches
    <2>2. CASE alarm[k].state = "RtnUnack"
      BY <1>3, <2>2, NoAlarmMatches, OneAlarmMatches DEF Acknowledge, Resolve
    <2>3. QED
      BY <1>3, <2>1, <2>2 DEF Acknowledge
  <1>4. ASSUME NEW k \in Keys, NEW d \in 0 .. MaxShelf, Shelve(t, k, d)
        PROVE  StateMatchesCondition'
    <2>1. alarm' = [alarm EXCEPT ![k] = [alarm[k] EXCEPT !.state = "Shelved", !.left = d]]
      BY <1>4 DEF Shelve, TypeOK, Alarms
    <2>2. Matches([alarm[k] EXCEPT !.state = "Shelved", !.left = d])
      BY DEF Matches, TypeOK, Alarms
    <2>3. QED
      BY <2>1, <2>2, OneAlarmMatches
  <1>5. ASSUME NEW k \in Keys, Unshelve(t, k)
        PROVE  StateMatchesCondition'
    BY <1>5, RestoredMatches, OneAlarmMatches DEF Unshelve, TypeOK
  <1>6. ASSUME ClearAll(t)
        PROVE  StateMatchesCondition'
    BY <1>6, NoAlarmMatches DEF ClearAll, StateMatchesCondition, Matches
  <1>7. ASSUME ClearHistory(t) \/ Retranslate(t)
        PROVE  StateMatchesCondition'
    BY <1>7 DEF ClearHistory, Retranslate, StateMatchesCondition
  <1>8. ASSUME Tick(t)
        PROVE  StateMatchesCondition'
    <2>1. \A k \in Keys : Matches(IF Expired(k) THEN Restored(alarm[k]) ELSE alarm[k])
      BY RestoredMatches DEF TypeOK, StateMatchesCondition, Matches
    <2>2. QED
      BY <1>8, <2>1 DEF Tick, StateMatchesCondition, Matches
  <1>9. QED
    BY <1>1, <1>2, <1>3, <1>4, <1>5, <1>6, <1>7, <1>8 DEF Call

\* An alarm never claims a condition that is gone, nor hides one that is there
\* behind "returned": acknowledge(), shelve(), the end of a shelf and any
\* sequence of raise() and clear() from any thread keep the two in agreement.
THEOREM StateMatchesConditionHolds == Spec => []StateMatchesCondition
  <1>1. Init => StateMatchesCondition
    BY NoAlarmMatches DEF Init, StateMatchesCondition, Matches
  <1>2. TypeOK /\ StateMatchesCondition /\ [Next]_vars => StateMatchesCondition'
    <2> SUFFICES ASSUME TypeOK, StateMatchesCondition, [Next]_vars
                 PROVE  StateMatchesCondition'
      OBVIOUS
    <2>1. CASE \E t \in Threads : Call(t) /\ Touches
      BY <2>1, CallMatches
    <2>2. CASE (\E t \in Threads : EmitSignal(t)) \/ Panel \/ SwitchTimer
      BY <2>2 DEF EmitSignal, Panel, SwitchTimer, Refresh, RenderShelved, ToggleHistory,
                  StateMatchesCondition
    <2>3. CASE ClockStep
      <3>1. \A k \in Keys : /\ alarm'[k].state = alarm[k].state
                            /\ alarm'[k].conditionActive = alarm[k].conditionActive
        BY <2>3 DEF ClockStep, TypeOK, Alarms
      <3>2. QED
        BY <3>1 DEF StateMatchesCondition
    <2>4. CASE UNCHANGED vars
      BY <2>4 DEF vars, StateMatchesCondition
    <2>5. QED
      BY <2>1, <2>2, <2>3, <2>4 DEF Next
  <1>3. QED
    BY <1>1, <1>2, TypeInvariant, PTL DEF Spec

-----------------------------------------------------------------------------
(* One row per key *)

\* Appending a key that is not there, as raise() does, keeps the rows distinct.
LEMMA AppendOneRow ==
  ASSUME TypeOK, OneRowPerKey, NEW k \in Keys, ~Tracked(k), NEW a, a.state # Untracked,
         alarm' = [alarm EXCEPT ![k] = a], order' = Append(order, k)
  PROVE  OneRowPerKey'
  <1>1. /\ Len(order') = Len(order) + 1 /\ Len(order) \in Nat
        /\ order'[Len(order) + 1] = k
        /\ \A i \in 1 .. Len(order) : order'[i] = order[i]
    BY DEF TypeOK
  <1>2. \A i \in 1 .. Len(order) : order[i] # k
    BY DEF OneRowPerKey
  <1>3. \A j \in Keys : Tracked(j)' <=> (j = k \/ Tracked(j))
    BY DEF Tracked, TypeOK
  <1>4. \A j \in Keys : Tracked(j)' <=> \E i \in 1 .. Len(order') : order'[i] = j
    BY <1>1, <1>2, <1>3 DEF OneRowPerKey
  <1>5. \A i, j \in 1 .. Len(order') : order'[i] = order'[j] => i = j
    BY <1>1, <1>2 DEF OneRowPerKey
  <1>6. QED
    BY <1>4, <1>5 DEF OneRowPerKey

\* Erasing the row of the key that is resolved keeps the rows distinct, and
\* every other key keeps its row.
LEMMA ResolveOneRow ==
  ASSUME TypeOK, OneRowPerKey, NEW k \in Keys, Resolve(k)
  PROVE  OneRowPerKey'
  <1>1. PICK e \in 1 .. Len(order) : order[e] = k /\ order' = Erased(e)
    BY DEF Resolve
  <1>2. /\ Len(order') = Len(order) - 1 /\ Len(order) \in Nat
        /\ \A j \in 1 .. Len(order) - 1 :
             order'[j] = IF j < e THEN order[j] ELSE order[j + 1]
    <2>1. order \in Seq(Keys)
      BY DEF TypeOK
    <2>2. /\ Len(Erased(e)) = Len(order) - 1
          /\ \A j \in 1 .. Len(order) - 1 :
               Erased(e)[j] = IF j < e THEN order[j] ELSE order[j + 1]
      BY <2>1, ErasedType
    <2>3. Len(order) \in Nat
      BY <2>1
    <2>4. QED
      BY <1>1, <2>2, <2>3
  <1>3. \A j \in Keys : Tracked(j)' <=> (j # k /\ Tracked(j))
    BY DEF Resolve, Tracked, TypeOK, NoAlarm
  <1>4. \A i, j \in 1 .. Len(order) : order[i] = order[j] => i = j
    BY DEF OneRowPerKey
  <1>5. ASSUME NEW j \in Keys
        PROVE  Tracked(j)' <=> \E i \in 1 .. Len(order') : order'[i] = j
    <2>1. ASSUME NEW i \in 1 .. Len(order'), order'[i] = j
          PROVE  Tracked(j)'
      <3>1. CASE i < e
        BY <1>1, <1>2, <1>3, <1>4, <2>1, <3>1 DEF OneRowPerKey
      <3>2. CASE i >= e
        <4>1. i + 1 \in 1 .. Len(order) /\ order[i + 1] = j /\ i + 1 # e
          BY <1>1, <1>2, <2>1, <3>2
        <4>2. QED
          BY <1>1, <1>3, <1>4, <4>1 DEF OneRowPerKey
      <3>3. QED
        BY <1>1, <1>2, <3>1, <3>2
    <2>2. ASSUME Tracked(j)'
          PROVE  \E i \in 1 .. Len(order') : order'[i] = j
      <3>1. PICK i \in 1 .. Len(order) : order[i] = j
        BY <1>3, <2>2 DEF OneRowPerKey
      <3>2. i # e
        BY <1>1, <1>3, <2>2, <3>1
      <3>3. CASE i < e
        <4>1. i \in 1 .. Len(order') /\ order'[i] = j
          BY <1>1, <1>2, <3>1, <3>3
        <4>2. QED
          BY <4>1
      <3>4. CASE i > e
        <4>1. i - 1 \in 1 .. Len(order') /\ order'[i - 1] = j
          BY <1>1, <1>2, <3>1, <3>4
        <4>2. QED
          BY <4>1
      <3>5. QED
        BY <1>1, <3>1, <3>2, <3>3, <3>4
    <2>3. QED
      BY <2>1, <2>2
  <1>6. ASSUME NEW i \in 1 .. Len(order'), NEW j \in 1 .. Len(order'), order'[i] = order'[j]
        PROVE  i = j
    <2> DEFINE old(n) == IF n < e THEN n ELSE n + 1
    <2>1. old(i) \in 1 .. Len(order) /\ old(j) \in 1 .. Len(order)
      BY <1>1, <1>2
    <2>2. order[old(i)] = order[old(j)]
      BY <1>1, <1>2, <1>6
    <2>3. old(i) = old(j)
      BY <1>4, <2>1, <2>2
    <2>4. QED
      BY <1>1, <1>2, <2>3
  <1>7. QED
    BY <1>5, <1>6 DEF OneRowPerKey

\* A step that tracks the same keys and leaves the positions alone.
LEMMA SameRows ==
  ASSUME OneRowPerKey, UNCHANGED order,
         \A k \in Keys : Tracked(k)' <=> Tracked(k)
  PROVE  OneRowPerKey'
  BY DEF OneRowPerKey

LEMMA CallOneRow ==
  ASSUME TypeOK, OneRowPerKey, NEW t \in Threads, Call(t)
  PROVE  OneRowPerKey'
  <1>1. ASSUME NEW k \in Keys, NEW p \in Priorities, Raise(t, k, p)
        PROVE  OneRowPerKey'
    <2>1. CASE Tracked(k)
      <3>1. Reraised(alarm[k], p).state # Untracked
        BY <2>1 DEF Reraised, Tracked, TypeOK, Alarms
      <3>2. QED
        BY <1>1, <2>1, <3>1, SameRows DEF Raise, Tracked, TypeOK
    <2>2. CASE ~Tracked(k)
      BY <1>1, <2>2, AppendOneRow DEF Raise
    <2>3. QED
      BY <2>1, <2>2
  <1>2. ASSUME NEW k \in Keys, Clear(t, k)
        PROVE  OneRowPerKey'
    <2>1. CASE alarm[k].state = "AckActive"
      BY <1>2, <2>1, ResolveOneRow DEF Clear
    <2>2. CASE alarm[k].state = "UnackActive"
      <3>1. UNCHANGED order /\ \A j \in Keys : Tracked(j)' <=> Tracked(j)
        BY <1>2, <2>2 DEF Clear, Tracked, TypeOK, Alarms
      <3>2. QED
        BY <3>1, SameRows
    <2>3. CASE alarm[k].state \notin Active
      <3>1. UNCHANGED order /\ alarm' = [alarm EXCEPT ![k].conditionActive = FALSE]
        BY <1>2, <2>3 DEF Clear
      <3>2. \A j \in Keys : Tracked(j)' <=> Tracked(j)
        BY <3>1 DEF Tracked, TypeOK, Alarms
      <3>3. QED
        BY <3>1, <3>2, SameRows
    <2>4. QED
      BY <2>1, <2>2, <2>3
  <1>3. ASSUME NEW k \in Keys, Acknowledge(t, k)
        PROVE  OneRowPerKey'
    <2>1. CASE alarm[k].state = "UnackActive"
      <3>1. UNCHANGED order /\ \A j \in Keys : Tracked(j)' <=> Tracked(j)
        BY <1>3, <2>1 DEF Acknowledge, Restate, Tracked, TypeOK, Alarms
      <3>2. QED
        BY <3>1, SameRows
    <2>2. CASE alarm[k].state = "RtnUnack"
      BY <1>3, <2>2, ResolveOneRow DEF Acknowledge
    <2>3. QED
      BY <1>3, <2>1, <2>2 DEF Acknowledge
  <1>4. ASSUME NEW k \in Keys, NEW d \in 0 .. MaxShelf, Shelve(t, k, d)
        PROVE  OneRowPerKey'
    <2>1. UNCHANGED order /\ \A j \in Keys : Tracked(j)' <=> Tracked(j)
      BY <1>4 DEF Shelve, Tracked, TypeOK, Alarms
    <2>2. QED
      BY <2>1, SameRows
  <1>5. ASSUME NEW k \in Keys, Unshelve(t, k)
        PROVE  OneRowPerKey'
    <2>1. UNCHANGED order /\ \A j \in Keys : Tracked(j)' <=> Tracked(j)
      BY <1>5 DEF Unshelve, Restored, Tracked, TypeOK, Alarms
    <2>2. QED
      BY <2>1, SameRows
  <1>6. ASSUME ClearAll(t)
        PROVE  OneRowPerKey'
    <2>1. Len(order') = 0
      BY <1>6 DEF ClearAll
    <2>2. \A j \in Keys : ~Tracked(j)'
      BY <1>6 DEF ClearAll, Tracked, NoAlarm
    <2>3. QED
      BY <2>1, <2>2 DEF OneRowPerKey
  <1>7. ASSUME ClearHistory(t) \/ Retranslate(t)
        PROVE  OneRowPerKey'
    BY <1>7, SameRows DEF ClearHistory, Retranslate, Tracked
  <1>8. ASSUME Tick(t)
        PROVE  OneRowPerKey'
    <2>1. \A j \in Keys : Restored(alarm[j]).state # Untracked
      BY DEF Restored, TypeOK, Alarms
    <2>2. UNCHANGED order /\ \A j \in Keys : Tracked(j)' <=> Tracked(j)
      BY <1>8, <2>1 DEF Tick, Expired, Tracked
    <2>3. QED
      BY <2>2, SameRows
  <1>9. QED
    BY <1>1, <1>2, <1>3, <1>4, <1>5, <1>6, <1>7, <1>8 DEF Call

\* However often and from however many threads a condition is reported, an
\* alarm has one row, and every row has its alarm.
THEOREM OneRowPerKeyHolds == Spec => []OneRowPerKey
  <1>1. Init => OneRowPerKey
    BY DEF Init, OneRowPerKey, Tracked, NoAlarm
  <1>2. TypeOK /\ OneRowPerKey /\ [Next]_vars => OneRowPerKey'
    <2> SUFFICES ASSUME TypeOK, OneRowPerKey, [Next]_vars
                 PROVE  OneRowPerKey'
      OBVIOUS
    <2>1. CASE \E t \in Threads : Call(t) /\ Touches
      BY <2>1, CallOneRow
    <2>2. CASE (\E t \in Threads : EmitSignal(t)) \/ Panel \/ SwitchTimer
      BY <2>2, SameRows DEF EmitSignal, Panel, SwitchTimer, Refresh, RenderShelved, ToggleHistory, Tracked
    <2>3. CASE ClockStep
      <3>1. UNCHANGED order /\ \A j \in Keys : Tracked(j)' <=> Tracked(j)
        BY <2>3 DEF ClockStep, Tracked, TypeOK, Alarms
      <3>2. QED
        BY <3>1, SameRows
    <2>4. CASE UNCHANGED vars
      BY <2>4, SameRows DEF vars, Tracked
    <2>5. QED
      BY <2>1, <2>2, <2>3, <2>4 DEF Next
  <1>3. QED
    BY <1>1, <1>2, TypeInvariant, PTL DEF Spec

-----------------------------------------------------------------------------
(* Nothing vanishes unseen *)

\* No step but the operator's acknowledge() and clearAll() takes an alarm out
\* of the store before it was acknowledged, for any number of alarms and
\* threads.
THEOREM NothingVanishes == Spec => NothingVanishesUnseen
  <1> DEFINE Seen(k) == \E t \in Threads : ClearAll(t) \/ Acknowledge(t, k)
             Vanishes(k) == Tracked(k) /\ ~Tracked(k)' /\ alarm[k].state # "AckActive"
  <1>1. ASSUME TypeOK, Next, NEW k \in Keys, Vanishes(k)
        PROVE  Seen(k)
    <2>1. ASSUME NEW t \in Threads, Call(t) PROVE Seen(k)
      <3>1. ASSUME NEW j \in Keys, NEW p \in Priorities, Raise(t, j, p) PROVE FALSE
        <4>1. Tracked(j) => Reraised(alarm[j], p).state # Untracked
          BY DEF Reraised, Tracked, TypeOK, Alarms
        <4>2. QED
          BY <1>1, <3>1, <4>1 DEF Raise, Tracked, TypeOK
      <3>2. ASSUME NEW j \in Keys, Clear(t, j) PROVE FALSE
        <4>1. CASE alarm[j].state = "AckActive"
          <5>1. j # k
            BY <1>1, <4>1
          <5>2. QED
            BY <1>1, <3>2, <4>1, <5>1 DEF Clear, Resolve, Tracked, TypeOK
        <4>2. CASE alarm[j].state = "UnackActive"
          BY <1>1, <3>2, <4>2 DEF Clear, Tracked, TypeOK, Alarms
        <4>3. CASE alarm[j].state \notin Active
          <5>1. alarm' = [alarm EXCEPT ![j].conditionActive = FALSE]
            BY <3>2, <4>3 DEF Clear
          <5>2. QED
            BY <1>1, <5>1 DEF Tracked, TypeOK, Alarms
        <4>4. QED
          BY <4>1, <4>2, <4>3
      <3>3. ASSUME NEW j \in Keys, Acknowledge(t, j) PROVE Seen(k)
        <4>1. CASE j = k
          BY <3>3, <4>1
        <4>2. CASE j # k
          BY <1>1, <3>3, <4>2 DEF Acknowledge, Restate, Resolve, Tracked, TypeOK
        <4>3. QED
          BY <4>1, <4>2
      <3>4. ASSUME NEW j \in Keys, NEW d \in 0 .. MaxShelf, Shelve(t, j, d) PROVE FALSE
        BY <1>1, <3>4 DEF Shelve, Tracked, TypeOK, Alarms
      <3>5. ASSUME NEW j \in Keys, Unshelve(t, j) PROVE FALSE
        BY <1>1, <3>5 DEF Unshelve, Restored, Tracked, TypeOK, Alarms
      <3>6. ASSUME ClearHistory(t) \/ Retranslate(t) PROVE FALSE
        BY <1>1, <3>6 DEF ClearHistory, Retranslate, Tracked
      <3>7. ASSUME Tick(t) PROVE FALSE
        <4>1. \A j \in Keys : Restored(alarm[j]).state # Untracked
          BY <1>1 DEF Restored, TypeOK, Alarms
        <4>2. QED
          BY <1>1, <3>7, <4>1 DEF Tick, Tracked
      <3>8. QED
        BY <2>1, <3>1, <3>2, <3>3, <3>4, <3>5, <3>6, <3>7 DEF Call
    <2>2. ASSUME (\E t \in Threads : EmitSignal(t)) \/ Panel \/ SwitchTimer PROVE FALSE
      BY <1>1, <2>2 DEF EmitSignal, Panel, SwitchTimer, Refresh, RenderShelved, ToggleHistory, Tracked
    <2>3. ASSUME ClockStep PROVE FALSE
      BY <1>1, <2>3 DEF ClockStep, Tracked, TypeOK, Alarms
    <2>4. QED
      BY <1>1, <2>1, <2>2, <2>3 DEF Next
  <1>2. TypeOK /\ [Next]_vars =>
          [\A k \in Keys : Tracked(k) /\ ~Tracked(k)' /\ alarm[k].state # "AckActive" =>
             \E t \in Threads : ClearAll(t) \/ Acknowledge(t, k)]_vars
    BY <1>1
  <1>3. QED
    BY <1>2, TypeInvariant, PTL DEF Spec, NothingVanishesUnseen

-----------------------------------------------------------------------------
(* The panel and the store *)

\* A list the panel shows and that differs from the store is on its way: its
\* signal is still owed, a refresh is queued, or the second read is to come.
Awaited(list) ==
  \/ refreshQueued
  \/ list = "shelved" /\ rendering
  \/ \E t \in Threads : (IF list = "history" THEN "history" ELSE "alerts") \in pending[t]

PanelInv ==
  \A list \in stale \cap (IF showingHistory THEN {"history"} ELSE {"active", "shelved"}) :
    Awaited(list)

\* The active list shows what the rows tell, and nothing else of an alarm.
LEMMA SnapshotKept ==
  ASSUME UNCHANGED order,
         \A k \in Keys : alarm'[k].state = alarm[k].state /\ alarm'[k].priority = alarm[k].priority
  PROVE  Snapshot' = Snapshot /\ ShelvedSnapshot' = ShelvedSnapshot
  <1>1. Row' = Row
    BY DEF Row
  <1>2. ASSUME NEW p PROVE Band(p)' = Band(p)
    <2>1. {k \in Keys : alarm'[k].state # "Shelved" /\ alarm'[k].priority = p}
           = {k \in Keys : alarm[k].state # "Shelved" /\ alarm[k].priority = p}
      OBVIOUS
    <2>2. QED
      BY <2>1 DEF Band
  <1>3. Band(1)' = Band(1) /\ Band(2)' = Band(2) /\ Band(3)' = Band(3) /\ Band(4)' = Band(4)
    BY <1>2
  <1>4. Snapshot' = Snapshot
    BY <1>1, <1>3 DEF Snapshot
  <1>5. QED
    BY <1>4 DEF ShelvedSnapshot

\* A call owes a signal for every list it changed.
LEMMA CallSignals ==
  ASSUME TypeOK, NEW t \in Threads, Call(t)
  PROVE  /\ UNCHANGED view
         /\ \A u \in Threads : pending[u] \subseteq pending'[u]
         /\ history' # history => "history" \in pending'[t]
         /\ Snapshot' # Snapshot \/ ShelvedSnapshot' # ShelvedSnapshot => "alerts" \in pending'[t]
  <1> DEFINE Told(signals) ==
        /\ UNCHANGED view
        /\ \A u \in Threads : pending[u] \subseteq pending'[u]
        /\ signals \subseteq pending'[t]
  <1>1. ASSUME NEW signals, Free(t), Owes(t, signals) PROVE Told(signals)
    BY <1>1 DEF Owes, Free, TypeOK
  <1>2. ASSUME NEW k \in Keys, Clear(t, k), alarm[k].state \notin Active
        PROVE  /\ Told({}) /\ UNCHANGED history
               /\ Snapshot' = Snapshot /\ ShelvedSnapshot' = ShelvedSnapshot
    <2>1. /\ alarm' = [alarm EXCEPT ![k].conditionActive = FALSE]
          /\ UNCHANGED <<order, history, pending, view>>
      BY <1>2 DEF Clear
    <2>2. \A j \in Keys : alarm'[j].state = alarm[j].state /\ alarm'[j].priority = alarm[j].priority
      BY <2>1 DEF TypeOK, Alarms
    <2>3. QED
      BY <2>1, <2>2, SnapshotKept
  <1>3. ASSUME NEW k \in Keys, Clear(t, k), alarm[k].state \in Active
        PROVE  Told(Signals) \/ (Told({"alerts"}) /\ UNCHANGED history)
    BY <1>1, <1>3 DEF Clear
  <1>4. ASSUME NEW k \in Keys, Acknowledge(t, k)
        PROVE  Told(Signals) \/ (Told({"alerts"}) /\ UNCHANGED history)
    BY <1>1, <1>4 DEF Acknowledge, Restate
  <1>5. ASSUME \/ \E k \in Keys, p \in Priorities : Raise(t, k, p)
               \/ \E k \in Keys, d \in 0 .. MaxShelf : Shelve(t, k, d)
               \/ \E k \in Keys : Unshelve(t, k)
               \/ Tick(t)
        PROVE  Told({"alerts"}) /\ UNCHANGED history
    BY <1>1, <1>5 DEF Raise, Shelve, Unshelve, Tick
  <1>6. ASSUME ClearAll(t) PROVE Told(Signals)
    BY <1>1, <1>6 DEF ClearAll
  <1>7. ASSUME ClearHistory(t)
        PROVE  /\ Told({"history"})
               /\ Snapshot' = Snapshot /\ ShelvedSnapshot' = ShelvedSnapshot
    BY <1>1, <1>7, SnapshotKept DEF ClearHistory
  <1>8. ASSUME Retranslate(t)
        PROVE  /\ Told({}) /\ UNCHANGED history
               /\ Snapshot' = Snapshot /\ ShelvedSnapshot' = ShelvedSnapshot
    <2>1. PICK signals \in SUBSET Signals : Free(t) /\ Owes(t, signals) /\ UNCHANGED <<alarm, order, history>>
      BY <1>8 DEF Retranslate
    <2>2. QED
      BY <1>1, <2>1, SnapshotKept
  <1> HIDE DEF Told
  <1>9. \/ Told(Signals)
        \/ Told({"alerts"}) /\ UNCHANGED history
        \/ Told({"history"}) /\ Snapshot' = Snapshot /\ ShelvedSnapshot' = ShelvedSnapshot
        \/ Told({}) /\ UNCHANGED history /\ Snapshot' = Snapshot /\ ShelvedSnapshot' = ShelvedSnapshot
    BY <1>2, <1>3, <1>4, <1>5, <1>6, <1>7, <1>8 DEF Call
  <1>10. QED
    BY <1>9 DEF Told

\* Once every call has returned and no refresh is queued, the panel shows the
\* store, for any number of alarms and threads: raise(), clear() and the rest
\* signal after they released the mutex, and the panel reads its two lists at
\* different moments (AlertsPanel::scheduleRefresh, renderActiveAndShelved).
THEOREM PanelIsCurrent == Spec => []PanelCurrentWhenQuiet
  <1>1. Init => PanelInv
    BY DEF Init, PanelInv
  <1>2. TypeOK /\ PanelInv /\ [Next]_vars => PanelInv'
    <2> SUFFICES ASSUME TypeOK, PanelInv, [Next]_vars
                 PROVE  PanelInv'
      OBVIOUS
    <2>1. ASSUME NEW t \in Threads, Call(t), Touches PROVE PanelInv'
      <3>1. /\ UNCHANGED view
            /\ \A u \in Threads : pending[u] \subseteq pending'[u]
            /\ history' # history => "history" \in pending'[t]
            /\ Snapshot' # Snapshot \/ ShelvedSnapshot' # ShelvedSnapshot => "alerts" \in pending'[t]
        BY <2>1, CallSignals
      <3>2. ASSUME NEW list \in stale', list \in IF showingHistory THEN {"history"} ELSE {"active", "shelved"}
            PROVE  Awaited(list)'
        <4>1. CASE list \in stale
          BY <3>1, <3>2, <4>1 DEF PanelInv, Awaited
        <4>2. CASE list \notin stale
          <5>1. list \in Lists /\ Content(list)' # Content(list)
            BY <2>1, <3>2, <4>2 DEF Touches
          <5>2. (IF list = "history" THEN "history" ELSE "alerts") \in pending'[t]
            BY <3>1, <5>1 DEF Content
          <5>3. QED
            BY <5>2 DEF Awaited
        <4>3. QED
          BY <4>1, <4>2
      <3>3. QED
        BY <3>1, <3>2 DEF PanelInv
    <2>2. ASSUME NEW t \in Threads, EmitSignal(t) PROVE PanelInv'
      BY <2>2 DEF EmitSignal, PanelInv, Awaited
    <2>3. CASE Refresh
      BY <2>3 DEF Refresh, Read, PanelInv, Awaited, TypeOK
    <2>4. CASE RenderShelved
      BY <2>4 DEF RenderShelved, PanelInv, Awaited
    <2>5. CASE ToggleHistory
      BY <2>5 DEF ToggleHistory, Read, PanelInv, Awaited, TypeOK, Free
    <2>6. CASE SwitchTimer \/ ClockStep \/ UNCHANGED vars
      BY <2>6 DEF SwitchTimer, ClockStep, vars, PanelInv, Awaited
    <2>7. QED
      BY <2>1, <2>2, <2>3, <2>4, <2>5, <2>6 DEF Next, Panel
  <1>3. TypeOK /\ PanelInv => PanelCurrentWhenQuiet
    <2> SUFFICES ASSUME TypeOK, PanelInv, \A t \in Threads : Free(t), ~refreshQueued
                 PROVE  stale \cap (IF showingHistory THEN {"history"} ELSE {"active", "shelved"}) = {}
      BY DEF PanelCurrentWhenQuiet
    <2>1. ~rendering /\ \A t \in Threads : pending[t] = {}
      BY AlertConstants DEF Free
    <2>2. QED
      BY <2>1 DEF PanelInv, Awaited
  <1>4. QED
    BY <1>1, <1>2, <1>3, TypeInvariant, PTL DEF Spec
=============================================================================
