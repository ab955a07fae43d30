---------------------------- MODULE BoundedFifo ----------------------------
(***************************************************************************)
(* What a single-producer single-consumer queue promises its two users: a  *)
(* first-in first-out queue that never holds more than Depth items and     *)
(* never blocks.  A refused push and a pop on an empty queue leave the     *)
(* queue alone, so here they are stuttering steps.                         *)
(***************************************************************************)
EXTENDS Naturals, Sequences

CONSTANTS Items,   \* the values that can be pushed
          Depth,   \* how many items the queue can hold
          NoItem   \* `out' before the first successful pop

VARIABLES q,       \* the queued items, oldest first
          out      \* the item the last successful pop delivered

fifoVars == <<q, out>>

Init ==
  /\ q = <<>>
  /\ out = NoItem

Push(item) ==
  /\ Len(q) < Depth
  /\ q' = Append(q, item)
  /\ UNCHANGED out

Pop ==
  /\ q # <<>>
  /\ out' = Head(q)
  /\ q' = Tail(q)

Next == Pop \/ \E item \in Items : Push(item)

Spec == Init /\ [][Next]_fifoVars
=============================================================================
