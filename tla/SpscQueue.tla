----------------------------- MODULE SpscQueue -----------------------------
(***************************************************************************)
(* The lock-free ring of src/core/SpscQueue.h: one producer thread calls   *)
(* push(), one consumer thread calls pop().  head_ and tail_ are           *)
(* free-running unsigned indices that wrap at IndexMod (2^64 in the        *)
(* build); only their low bits address a slot.                             *)
(*                                                                         *)
(* A call is split at its memory accesses, so the two threads interleave   *)
(* between the load of the other side's index, the access to the slot and  *)
(* the store that publishes it.  An acquire load may return any value the  *)
(* other thread has stored since the one this thread last saw (coherence   *)
(* forbids going back, nothing forces the newest), which is what           *)
(* pHead and cTail record.                                                 *)
(***************************************************************************)
EXTENDS Integers

CONSTANTS Items,     \* the values that can be pushed
          Capacity,  \* kCapacity
          IndexMod,  \* number of values of std::size_t
          NoItem     \* content of a slot nobody wrote

\* Capacity is itself a std::size_t, so fewer than IndexMod: a ring of IndexMod
\* slots would see a full queue as an empty one.
ASSUME CapacityAssumption ==
  /\ Capacity \in Nat /\ Capacity >= 2
  /\ \E k \in 1 .. Capacity : Capacity = 2^k
  /\ IndexMod \in Nat /\ IndexMod > Capacity /\ IndexMod % Capacity = 0

ASSUME NoItemAssumption == NoItem \notin Items

VARIABLES head,     \* head_, stored by the consumer only
          tail,     \* tail_, stored by the producer only
          buffer,   \* buffer_
          pPc,      \* where the producer is inside push()
          pItem,    \* push()'s argument
          pHead,    \* the head_ the producer last loaded
          cPc,      \* where the consumer is inside pop()
          cItem,    \* the value moved out of the slot
          cTail,    \* the tail_ the consumer last loaded
          out       \* what the last successful pop() delivered

producer == <<tail, pPc, pItem, pHead>>
consumer == <<head, cPc, cItem, cTail, out>>
vars == <<buffer, producer, consumer>>

Indices == 0 .. IndexMod - 1
Slots == 0 .. Capacity - 1
Depth == Capacity - 1

\* index & kMask, Capacity being a power of two
Slot(index) == index % Capacity

\* unsigned subtraction of two free-running indices
Distance(from, to) == (to - from) % IndexMod

Successor(index) == (index + 1) % IndexMod

\* The values a load can return to a thread that last saw `seen' of an index
\* whose newest value is `latest'.
Loadable(seen, latest) ==
  {(seen + lag) % IndexMod : lag \in 0 .. Distance(seen, latest)}

Init ==
  /\ head = 0 /\ tail = 0
  /\ buffer = [s \in Slots |-> NoItem]
  /\ pPc = "idle" /\ pItem = NoItem /\ pHead = 0
  /\ cPc = "idle" /\ cItem = NoItem /\ cTail = 0
  /\ out = NoItem

-----------------------------------------------------------------------------
(* The producer: emplaceImpl() *)

\* Defect: the reserved slot is forgotten.
LooksFullWithoutReserve(h) == Distance(h, Successor(tail)) > Capacity

\* Defect: the check is made on tail instead of next, against the capacity.
LooksFullOnTail(h) == Distance(h, tail) > Capacity

\* `next - head_ > kCapacity - 1', on the head_ just loaded
LooksFull(h) == Distance(h, Successor(tail)) > Depth

\* The acquire load found room.
PushCheck(item) ==
  /\ pPc = "idle"
  /\ \E h \in Loadable(pHead, head) :
       /\ ~LooksFull(h)
       /\ pHead' = h
  /\ pItem' = item
  /\ pPc' = "write"
  /\ UNCHANGED <<tail, buffer, consumer>>

\* The acquire load found the queue full: push() returns false.
PushRefused ==
  /\ pPc = "idle"
  /\ \E h \in Loadable(pHead, head) :
       /\ LooksFull(h)
       /\ pHead' = h
  /\ UNCHANGED <<tail, pPc, pItem, buffer, consumer>>

\* buffer_[tail & kMask] = item
PushWrite ==
  /\ pPc = "write"
  /\ buffer' = [buffer EXCEPT ![Slot(tail)] = pItem]
  /\ pPc' = "publish"
  /\ UNCHANGED <<tail, pItem, pHead, consumer>>

\* tail_.store(next, release): push() returns true.
PushPublish ==
  /\ pPc = "publish"
  /\ tail' = Successor(tail)
  /\ pPc' = "idle"
  /\ UNCHANGED <<pItem, pHead, buffer, consumer>>

-----------------------------------------------------------------------------
(* The consumer: pop() *)

PopCheck ==
  /\ cPc = "idle"
  /\ \E t \in Loadable(cTail, tail) :
       /\ t # head
       /\ cTail' = t
  /\ cPc' = "read"
  /\ UNCHANGED <<head, cItem, out, buffer, producer>>

\* The acquire load showed no item: pop() returns false, `out' untouched.
PopEmpty ==
  /\ cPc = "idle"
  /\ head \in Loadable(cTail, tail)
  /\ cTail' = head
  /\ UNCHANGED <<head, cPc, cItem, out, buffer, producer>>

\* out = std::move(buffer_[head & kMask])
PopRead ==
  /\ cPc = "read"
  /\ cItem' = buffer[Slot(head)]
  /\ cPc' = "publish"
  /\ UNCHANGED <<head, cTail, out, buffer, producer>>

\* Defect: everything seen is released, not the one slot that was read.
PopPublishAllSeen ==
  /\ cPc = "publish"
  /\ head' = cTail
  /\ out' = cItem
  /\ cPc' = "idle"
  /\ UNCHANGED <<cItem, cTail, buffer, producer>>

\* head_.store(head + 1, release): pop() returns true with the item.
PopPublish ==
  /\ cPc = "publish"
  /\ head' = Successor(head)
  /\ out' = cItem
  /\ cPc' = "idle"
  /\ UNCHANGED <<cItem, cTail, buffer, producer>>

Produce == PushRefused \/ PushWrite \/ PushPublish \/ \E item \in Items : PushCheck(item)
Consume == PopCheck \/ PopEmpty \/ PopRead \/ PopPublish

Next == Produce \/ Consume

Spec == Init /\ [][Next]_vars

-----------------------------------------------------------------------------
\* size(), as the producer or the consumer would compute it
SizeSeenBy(t, h) == Distance(h, t)

\* Types; both indices stay in the range of std::size_t.
TypeOK ==
  /\ head \in Indices /\ tail \in Indices
  /\ buffer \in [Slots -> Items \cup {NoItem}]
  /\ pPc \in {"idle", "write", "publish"}
  /\ pItem \in Items \cup {NoItem}
  /\ pHead \in Indices
  /\ cPc \in {"idle", "read", "publish"}
  /\ cItem \in Items \cup {NoItem}
  /\ cTail \in Indices
  /\ out \in Items \cup {NoItem}

\* The element write of push() and the element read of pop() are plain memory
\* accesses.  They must never be pending on one slot at the same time: that
\* would be the data race the acquire/release pair on head_ and tail_ is there
\* to exclude, also across the wrap of the indices.
NoSlotRace ==
  pPc = "write" /\ cPc = "read" => Slot(tail) # Slot(head)

\* What size(), and full() with it, may report: called from either of the two
\* threads it never exceeds the usable depth, however stale the index it loads.
\* (An unsigned underflow would report a number close to 2^64.)
AdvisorySizeBounded ==
  /\ \A h \in Loadable(pHead, head) : SizeSeenBy(tail, h) <= Depth
  /\ \A t \in Loadable(cTail, tail) : SizeSeenBy(t, head) <= Depth

\* A slot the consumer is about to read holds an item, never the value of a
\* slot nobody wrote: everything between head_ and tail_ was written first.
PublishedSlotsWritten ==
  \A i \in 0 .. Distance(head, tail) - 1 : buffer[Slot(head + i)] \in Items

\* The ring implements the bounded queue: every push() that returned true is
\* delivered exactly once and in order, and no more than Depth are held.
Fifo == INSTANCE BoundedFifo WITH
          q <- [i \in 1 .. Distance(head, tail) |-> buffer[Slot(head + i - 1)]]
ImplementsFifo == Fifo!Spec
=============================================================================
