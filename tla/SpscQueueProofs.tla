-------------------------- MODULE SpscQueueProofs --------------------------
(***************************************************************************)
(* For every capacity and every width of the indices: the ring never       *)
(* touches one slot from both sides, reports no size beyond its depth, and *)
(* implements BoundedFifo.                                                 *)
(***************************************************************************)
EXTENDS SpscQueue, Sequences, SequenceTheorems, TLAPS

-----------------------------------------------------------------------------
(* Arithmetic of free-running indices.                                     *)

LEMMA Sizes ==
  /\ Capacity \in Nat /\ Capacity >= 2
  /\ IndexMod \in Nat /\ IndexMod > Capacity
  /\ Depth \in Nat /\ Depth < IndexMod /\ Depth = Capacity - 1
  BY CapacityAssumption DEF Depth

LEMMA ModSmall ==
  ASSUME NEW m \in Nat, m > 0, NEW x \in Int, 0 <= x, x < m
  PROVE  x % m = x
  BY SMT

LEMMA ModOnce ==
  ASSUME NEW m \in Nat, m > 0, NEW x \in Int, -m <= x, x < 0
  PROVE  x % m = x + m
  BY SMT

LEMMA ModRange ==
  ASSUME NEW m \in Nat, m > 0, NEW x \in Int
  PROVE  x % m \in 0 .. m - 1
  BY SMT

LEMMA ModQuotient ==
  ASSUME NEW m \in Nat, m > 0, NEW x \in Int
  PROVE  \E k \in Int : x = m * k + (x % m)
  BY SMT

LEMMA ModUnique ==
  ASSUME NEW m \in Nat, m > 0, NEW x \in Int, NEW k \in Int, NEW r \in 0 .. m - 1,
         x = m * k + r
  PROVE  x % m = r
  BY SMT

\* Unsigned subtraction without the modulus.
LEMMA DistanceIs ==
  ASSUME NEW a \in Indices, NEW b \in Indices
  PROVE  Distance(a, b) = IF b >= a THEN b - a ELSE b - a + IndexMod
  <1>1. CASE b >= a
    <2>1. b - a \in Int /\ 0 <= b - a /\ b - a < IndexMod
      BY <1>1, Sizes DEF Indices
    <2>2. QED
      BY <1>1, <2>1, Sizes, ModSmall DEF Distance
  <1>2. CASE ~(b >= a)
    <2>1. b - a \in Int /\ -IndexMod <= b - a /\ b - a < 0
      BY <1>2, Sizes DEF Indices
    <2>2. QED
      BY <1>2, <2>1, Sizes, ModOnce DEF Distance
  <1>3. QED
    BY <1>1, <1>2

\* A free-running index some steps ahead, without the modulus.
LEMMA AheadIs ==
  ASSUME NEW a \in Indices, NEW n \in 0 .. IndexMod - 1
  PROVE  (a + n) % IndexMod = IF a + n < IndexMod THEN a + n ELSE a + n - IndexMod
  <1>1. CASE a + n < IndexMod
    <2>1. a + n \in Int /\ 0 <= a + n
      BY Sizes DEF Indices
    <2>2. QED
      BY <1>1, <2>1, Sizes, ModSmall
  <1>2. CASE ~(a + n < IndexMod)
    <2>1. /\ a + n \in Int /\ a + n - IndexMod \in 0 .. IndexMod - 1
          /\ a + n = IndexMod * 1 + (a + n - IndexMod)
      BY <1>2, Sizes DEF Indices
    <2>2. QED
      BY <1>2, <2>1, Sizes, ModUnique
  <1>3. QED
    BY <1>1, <1>2

LEMMA SuccessorIs ==
  ASSUME NEW a \in Indices
  PROVE  Successor(a) = IF a = IndexMod - 1 THEN 0 ELSE a + 1
  <1>1. 1 \in 0 .. IndexMod - 1 /\ a \in 0 .. IndexMod - 1
    BY Sizes DEF Indices
  <1>2. QED
    BY <1>1, Sizes, AheadIs DEF Successor

\* What a load may return lies between what was seen and what is there.
LEMMA LoadableIs ==
  ASSUME NEW seen \in Indices, NEW latest \in Indices, NEW h \in Loadable(seen, latest)
  PROVE  /\ h \in Indices
         /\ Distance(seen, h) + Distance(h, latest) = Distance(seen, latest)
  <1>1. PICK lag \in 0 .. Distance(seen, latest) : h = (seen + lag) % IndexMod
    BY DEF Loadable
  <1>2. Distance(seen, latest) \in 0 .. IndexMod - 1
    BY DistanceIs, Sizes DEF Indices
  <1>3. h = IF seen + lag < IndexMod THEN seen + lag ELSE seen + lag - IndexMod
    BY <1>1, <1>2, AheadIs, Sizes
  <1>4. h \in Indices
    BY <1>2, <1>3, Sizes DEF Indices
  <1>5. QED
    BY <1>2, <1>3, <1>4, DistanceIs, Sizes DEF Indices

\* Distances along the ring add up, as long as they do not lap it.
LEMMA DistancesAdd ==
  ASSUME NEW a \in Indices, NEW b \in Indices, NEW c \in Indices,
         Distance(a, b) + Distance(b, c) < IndexMod
  PROVE  Distance(a, c) = Distance(a, b) + Distance(b, c)
  BY DistanceIs, Sizes DEF Indices

LEMMA DistanceType ==
  ASSUME NEW a \in Indices, NEW b \in Indices
  PROVE  Distance(a, b) \in 0 .. IndexMod - 1 /\ (Distance(a, b) = 0 <=> a = b)
  BY DistanceIs, Sizes DEF Indices

\* One step of the index in front, and of the one behind.
LEMMA StepAhead ==
  ASSUME NEW a \in Indices, NEW b \in Indices
  PROVE  /\ Successor(b) \in Indices
         /\ Distance(a, b) < IndexMod - 1 => Distance(a, Successor(b)) = Distance(a, b) + 1
         /\ a # b => Distance(Successor(a), b) = Distance(a, b) - 1
  <1>1. Successor(a) \in Indices /\ Successor(b) \in Indices
    BY SuccessorIs, Sizes DEF Indices
  <1>2. Distance(a, b) < IndexMod - 1 => Distance(a, Successor(b)) = Distance(a, b) + 1
    <2>1. Distance(a, Successor(b)) =
            IF Successor(b) >= a THEN Successor(b) - a ELSE Successor(b) - a + IndexMod
      BY <1>1, DistanceIs
    <2>2. Distance(a, b) = IF b >= a THEN b - a ELSE b - a + IndexMod
      BY DistanceIs
    <2>3. Successor(b) = IF b = IndexMod - 1 THEN 0 ELSE b + 1
      BY SuccessorIs
    <2>4. QED
      BY <2>1, <2>2, <2>3, Sizes DEF Indices
  <1>3. a # b => Distance(Successor(a), b) = Distance(a, b) - 1
    <2>1. Distance(Successor(a), b) =
            IF b >= Successor(a) THEN b - Successor(a) ELSE b - Successor(a) + IndexMod
      BY <1>1, DistanceIs
    <2>2. Distance(a, b) = IF b >= a THEN b - a ELSE b - a + IndexMod
      BY DistanceIs
    <2>3. Successor(a) = IF a = IndexMod - 1 THEN 0 ELSE a + 1
      BY SuccessorIs
    <2>4. QED
      BY <2>1, <2>2, <2>3, Sizes DEF Indices
  <1>4. QED
    BY <1>1, <1>2, <1>3

\* Indices that address the same slot.
LEMMA SlotType ==
  ASSUME NEW x \in Int
  PROVE  Slot(x) \in Slots
  BY Sizes, ModRange DEF Slot, Slots

LEMMA SlotQuotient ==
  ASSUME NEW x \in Int
  PROVE  \E k \in Int : x = Capacity * k + Slot(x)
  <1>1. Capacity \in Nat /\ Capacity > 0
    BY Sizes
  <1>2. QED
    BY <1>1, ModQuotient, Zenon DEF Slot

\* A multiple of the capacity that is shorter than the capacity is zero.
LEMMA NoShortLap ==
  ASSUME NEW m \in Nat, m > 0, NEW k \in Int, NEW d \in Int, d = m * k, 0 <= d, d < m
  PROVE  d = 0
  BY SMT

LEMMA Distribute ==
  ASSUME NEW m \in Nat, NEW j \in Int, NEW k \in Int
  PROVE  m * (k - j) = m * k - m * j /\ m * k \in Int /\ m * j \in Int
  BY SMT

LEMMA SlotsDiffer ==
  ASSUME NEW x \in Int, NEW y \in Int, x < y, y < x + Capacity
  PROVE  Slot(x) # Slot(y)
  <1>1. PICK j \in Int : x = Capacity * j + Slot(x)
    BY SlotQuotient
  <1>2. PICK k \in Int : y = Capacity * k + Slot(y)
    BY SlotQuotient
  <1>3. SUFFICES ASSUME Slot(x) = Slot(y) PROVE FALSE
    OBVIOUS
  <1>4. Slot(x) \in Int
    BY SlotType DEF Slots
  <1>5. y - x = Capacity * (k - j)
    BY <1>1, <1>2, <1>3, <1>4, Sizes, Distribute
  <1>6. k - j \in Int /\ y - x \in Int /\ 0 < y - x /\ y - x < Capacity
    BY Sizes
  <1>7. QED
    BY <1>5, <1>6, Sizes, NoShortLap

LEMMA SlotWraps ==
  ASSUME NEW x \in Int
  PROVE  Slot(x - IndexMod) = Slot(x)
  <1>1. PICK j \in Int : x = Capacity * j + Slot(x)
    BY SlotQuotient
  <1>2. PICK k \in Int : IndexMod = Capacity * k
    <2>1. PICK k \in Int : IndexMod = Capacity * k + (IndexMod % Capacity)
      <3>1. Capacity \in Nat /\ Capacity > 0 /\ IndexMod \in Int
        BY Sizes
      <3>2. QED
        BY <3>1, ModQuotient, Zenon
    <2>2. Capacity * k \in Int
      BY Sizes
    <2>3. QED
      BY <2>1, <2>2, CapacityAssumption
  <1>3. Slot(x) \in 0 .. Capacity - 1
    BY SlotType DEF Slots
  <1>4. x - IndexMod = Capacity * (j - k) + Slot(x)
    BY <1>1, <1>2, <1>3, Sizes, Distribute
  <1>5. Capacity \in Nat /\ Capacity > 0 /\ x - IndexMod \in Int /\ j - k \in Int
    BY Sizes
  <1>6. (x - IndexMod) % Capacity = Slot(x)
    BY <1>3, <1>4, <1>5, ModUnique, Zenon
  <1>7. QED
    BY <1>6 DEF Slot

-----------------------------------------------------------------------------
(* The indices.                                                            *)

\* Going round the ring from the oldest head_ the producer may act on: head_,
\* the tail_ the consumer may act on, tail_, and while push() is under way the
\* slot it has claimed.  The way is never longer than the usable depth, and a
\* consumer inside pop() has an item in front of it.
Held == Distance(head, tail)
Way == Distance(pHead, head) + Distance(head, cTail) + Distance(cTail, tail)

RingInv ==
  /\ Way <= Depth
  /\ pPc # "idle" => Way < Depth
  /\ cPc # "idle" => head # cTail

\* Types hold, the types of the indices among them.
LEMMA StepTyped ==
  ASSUME TypeOK, [Next]_vars
  PROVE  TypeOK'
  <1>1. /\ Slot(tail) \in Slots /\ Slot(head) \in Slots
        /\ Successor(tail) \in Indices /\ Successor(head) \in Indices
    BY SlotType, StepAhead, Sizes DEF TypeOK, Indices
  <1>2. ASSUME NEW h, h \in Loadable(pHead, head) \/ h \in Loadable(cTail, tail)
        PROVE  h \in Indices
    BY <1>2, LoadableIs DEF TypeOK
  <1>3. CASE PushRefused \/ \E item \in Items : PushCheck(item)
    BY <1>2, <1>3 DEF TypeOK, PushRefused, PushCheck, consumer
  <1>4. CASE PushWrite \/ PushPublish
    BY <1>1, <1>4 DEF TypeOK, PushWrite, PushPublish, consumer
  <1>5. CASE PopCheck \/ PopEmpty
    BY <1>2, <1>5 DEF TypeOK, PopCheck, PopEmpty, producer
  <1>6. CASE PopRead \/ PopPublish
    BY <1>1, <1>6 DEF TypeOK, PopRead, PopPublish, producer
  <1>7. CASE UNCHANGED vars
    BY <1>7 DEF TypeOK, vars, producer, consumer
  <1>8. QED
    BY <1>3, <1>4, <1>5, <1>6, <1>7 DEF Next, Produce, Consume

\* What the producer finds, having loaded h, is how far it may go.
LEMMA RoomMeans ==
  ASSUME TypeOK, RingInv, NEW h \in Loadable(pHead, head)
  PROVE  /\ h \in Indices
         /\ Distance(pHead, h) + Distance(h, head) = Distance(pHead, head)
         /\ Distance(h, tail) = Distance(h, head) + Distance(head, cTail) + Distance(cTail, tail)
         /\ Distance(h, tail) \in 0 .. Depth
         /\ ~LooksFull(h) => Distance(h, tail) < Depth
  <1>1. /\ h \in Indices
        /\ Distance(pHead, h) + Distance(h, head) = Distance(pHead, head)
    BY LoadableIs DEF TypeOK
  <1>2. /\ Distance(pHead, h) \in Nat /\ Distance(h, head) \in Nat /\ Distance(head, cTail) \in Nat
        /\ Distance(cTail, tail) \in Nat /\ Distance(pHead, head) \in Nat
        /\ Distance(h, tail) \in Nat
    BY <1>1, DistanceType, Sizes DEF TypeOK
  <1>3. Distance(h, head) + Distance(head, cTail) + Distance(cTail, tail) <= Depth
    BY <1>1, <1>2, Sizes DEF RingInv, Way
  <1>4. Distance(h, cTail) = Distance(h, head) + Distance(head, cTail)
    BY <1>1, <1>2, <1>3, DistancesAdd, Sizes DEF TypeOK
  <1>5. Distance(h, tail) = Distance(h, cTail) + Distance(cTail, tail)
    BY <1>1, <1>2, <1>3, <1>4, DistancesAdd, Sizes DEF TypeOK
  <1>6. Distance(h, Successor(tail)) = Distance(h, tail) + 1
    BY <1>1, <1>2, <1>3, <1>4, <1>5, StepAhead, Sizes DEF TypeOK
  <1>7. QED
    BY <1>1, <1>2, <1>3, <1>4, <1>5, <1>6, Sizes DEF LooksFull

\* The same for the consumer, having loaded t.
LEMMA ItemMeans ==
  ASSUME TypeOK, RingInv, NEW t \in Loadable(cTail, tail)
  PROVE  /\ t \in Indices
         /\ Distance(cTail, t) + Distance(t, tail) = Distance(cTail, tail)
         /\ Distance(head, t) = Distance(head, cTail) + Distance(cTail, t)
         /\ Distance(head, t) \in 0 .. Depth
  <1>1. /\ t \in Indices
        /\ Distance(cTail, t) + Distance(t, tail) = Distance(cTail, tail)
    BY LoadableIs DEF TypeOK
  <1>2. /\ Distance(cTail, t) \in Nat /\ Distance(t, tail) \in Nat /\ Distance(head, cTail) \in Nat
        /\ Distance(cTail, tail) \in Nat /\ Distance(pHead, head) \in Nat
        /\ Distance(head, t) \in Nat
    BY <1>1, DistanceType, Sizes DEF TypeOK
  <1>3. Distance(head, cTail) + Distance(cTail, t) <= Depth
    BY <1>1, <1>2, Sizes DEF RingInv, Way
  <1>4. Distance(head, t) = Distance(head, cTail) + Distance(cTail, t)
    BY <1>1, <1>2, <1>3, DistancesAdd, Sizes DEF TypeOK
  <1>5. QED
    BY <1>1, <1>2, <1>3, <1>4, Sizes

LEMMA StepRing ==
  ASSUME TypeOK, RingInv, [Next]_vars
  PROVE  RingInv'
  <1>1. /\ Distance(pHead, head) \in Nat /\ Distance(head, cTail) \in Nat
        /\ Distance(cTail, tail) \in Nat
    BY DistanceType, Sizes DEF TypeOK
  <1>2. ASSUME NEW item \in Items, PushCheck(item)
        PROVE  RingInv'
    <2>1. PICK h \in Loadable(pHead, head) : ~LooksFull(h) /\ pHead' = h
      BY <1>2 DEF PushCheck
    <2>2. UNCHANGED <<tail, head, cTail, cPc>>
      BY <1>2 DEF PushCheck, consumer
    <2>3. Way' = Distance(h, tail)
      BY <2>1, <2>2, RoomMeans DEF Way
    <2>4. Way' < Depth
      BY <2>1, <2>3, RoomMeans
    <2>5. QED
      BY <2>2, <2>3, <2>4, RoomMeans, Sizes DEF RingInv
  <1>3. CASE PushRefused
    <2>1. PICK h \in Loadable(pHead, head) : pHead' = h
      BY <1>3 DEF PushRefused
    <2>2. UNCHANGED <<tail, head, cTail, cPc, pPc>> /\ pPc = "idle"
      BY <1>3 DEF PushRefused, consumer
    <2>3. Way' = Distance(h, tail)
      BY <2>1, <2>2, RoomMeans DEF Way
    <2>4. QED
      BY <2>2, <2>3, RoomMeans, Sizes DEF RingInv
  <1>4. CASE PushWrite
    BY <1>4 DEF PushWrite, consumer, RingInv, Way
  <1>5. CASE PushPublish
    <2>1. Way < Depth
      BY <1>5 DEF PushPublish, RingInv
    <2>2. Distance(cTail, Successor(tail)) = Distance(cTail, tail) + 1
      BY <1>1, <2>1, StepAhead, Sizes DEF TypeOK, Way
    <2>3. Way' = Way + 1
      BY <1>1, <1>5, <2>2 DEF PushPublish, consumer, Way
    <2>4. QED
      BY <1>1, <1>5, <2>1, <2>3, Sizes DEF PushPublish, consumer, RingInv, Way
  <1>6. CASE PopCheck
    <2>1. PICK t \in Loadable(cTail, tail) : t # head /\ cTail' = t
      BY <1>6 DEF PopCheck
    <2>2. UNCHANGED <<tail, head, pHead, pPc>>
      BY <1>6 DEF PopCheck, producer
    <2>3. /\ Distance(cTail, t) \in Nat /\ Distance(t, tail) \in Nat
      BY <2>1, ItemMeans, DistanceType, Sizes DEF TypeOK
    <2>4. Way' = Way
      BY <1>1, <2>1, <2>2, <2>3, ItemMeans DEF Way
    <2>5. QED
      BY <2>1, <2>2, <2>4 DEF RingInv
  <1>7. CASE PopEmpty
    <2>1. /\ head \in Loadable(cTail, tail) /\ cTail' = head
          /\ UNCHANGED <<tail, head, pHead, pPc, cPc>> /\ cPc = "idle"
      BY <1>7 DEF PopEmpty, producer
    <2>2. /\ Distance(cTail, head) \in Nat /\ Distance(head, head) = 0
      BY DistanceType, Sizes DEF TypeOK
    <2>3. Distance(head, cTail) = 0 /\ Distance(cTail, head) = 0
      BY <1>1, <2>1, <2>2, ItemMeans
    <2>4. head = cTail
      BY <2>3, DistanceType DEF TypeOK
    <2>5. Way' = Way
      BY <1>1, <2>1, <2>4 DEF Way
    <2>6. QED
      BY <2>1, <2>5 DEF RingInv
  <1>8. CASE PopRead
    BY <1>8 DEF PopRead, producer, RingInv, Way
  <1>9. CASE PopPublish
    <2>1. head # cTail /\ head' = Successor(head) /\ UNCHANGED <<tail, pHead, pPc, cTail>>
          /\ cPc' = "idle"
      BY <1>9 DEF PopPublish, producer, RingInv
    <2>2. Distance(head, cTail) # 0
      BY <2>1, DistanceType DEF TypeOK
    <2>3. Distance(pHead, Successor(head)) = Distance(pHead, head) + 1
      <3>1. Distance(pHead, head) < IndexMod - 1
        BY <1>1, <2>2, Sizes DEF RingInv, Way
      <3>2. QED
        BY <3>1, StepAhead DEF TypeOK
    <2>4. Distance(Successor(head), cTail) = Distance(head, cTail) - 1
      BY <2>1, StepAhead DEF TypeOK
    <2>5. Way' = Way
      BY <1>1, <2>1, <2>3, <2>4 DEF Way
    <2>6. QED
      BY <2>1, <2>5 DEF RingInv
  <1>10. CASE UNCHANGED vars
    BY <1>10 DEF vars, producer, consumer, RingInv, Way
  <1>11. QED
    BY <1>2, <1>3, <1>4, <1>5, <1>6, <1>7, <1>8, <1>9, <1>10 DEF Next, Produce, Consume

\* How many items the ring holds, seen from the producer's claim and from the
\* consumer's.
LEMMA HeldBounds ==
  ASSUME TypeOK, RingInv
  PROVE  /\ Held \in 0 .. Depth
         /\ Distance(pHead, tail) \in 0 .. Depth /\ Held <= Distance(pHead, tail)
         /\ pPc # "idle" => Held < Depth
         /\ cPc # "idle" => Held > 0
         /\ Held = Distance(head, cTail) + Distance(cTail, tail)
  <1>1. /\ Distance(pHead, head) \in Nat /\ Distance(head, cTail) \in Nat
        /\ Distance(cTail, tail) \in Nat
        /\ cPc # "idle" => Distance(head, cTail) > 0
    BY DistanceType, Sizes DEF TypeOK, RingInv
  <1>2. Held = Distance(head, cTail) + Distance(cTail, tail)
    BY <1>1, DistancesAdd, Sizes DEF TypeOK, RingInv, Way, Held
  <1>3. Distance(pHead, tail) = Distance(pHead, head) + Held
    BY <1>1, <1>2, DistancesAdd, Sizes DEF TypeOK, RingInv, Way, Held
  <1>4. QED
    BY <1>1, <1>2, <1>3, Sizes DEF RingInv, Way

\* The slot after the last item held is the one tail_ addresses.
LEMMA TailSlot ==
  ASSUME TypeOK
  PROVE  Slot(tail) = Slot(head + Held)
  <1>1. Held = IF tail >= head THEN tail - head ELSE tail - head + IndexMod
    BY DistanceIs DEF TypeOK, Held
  <1>2. CASE tail >= head
    <2>1. tail = head + Held
      BY <1>1, <1>2, Sizes DEF TypeOK, Indices
    <2>2. QED
      BY <2>1
  <1>3. CASE ~(tail >= head)
    <2>1. tail = (head + Held) - IndexMod /\ head + Held \in Int
      BY <1>1, <1>3, Sizes DEF TypeOK, Indices
    <2>2. QED
      BY <2>1, SlotWraps
  <1>4. QED
    BY <1>2, <1>3

\* A claimed slot holds no item.
LEMMA ClaimedSlotFree ==
  ASSUME TypeOK, RingInv, pPc # "idle", NEW i \in 0 .. Held - 1
  PROVE  Slot(head + i) # Slot(tail)
  <1>1. Held \in Nat /\ Held < Depth /\ head \in Int
    BY HeldBounds, Sizes DEF TypeOK, Indices
  <1>2. head + i \in Int /\ head + Held \in Int /\ head + i < head + Held
        /\ head + Held < head + i + Capacity
    BY <1>1, Sizes
  <1>3. Slot(head + i) # Slot(head + Held)
    BY <1>2, SlotsDiffer
  <1>4. QED
    BY <1>3, TailSlot

LEMMA NoRaceFollows ==
  ASSUME TypeOK, RingInv
  PROVE  NoSlotRace
  <1>1. SUFFICES ASSUME pPc = "write", cPc = "read" PROVE Slot(tail) # Slot(head)
    BY DEF NoSlotRace
  <1>2. 0 \in 0 .. Held - 1 /\ head + 0 = head
    BY <1>1, HeldBounds, Sizes DEF TypeOK, Indices
  <1>3. QED
    BY <1>1, <1>2, ClaimedSlotFree

LEMMA SizeFollows ==
  ASSUME TypeOK, RingInv
  PROVE  AdvisorySizeBounded
  BY RoomMeans, ItemMeans DEF AdvisorySizeBounded, SizeSeenBy

LEMMA InitRing == Init => TypeOK /\ RingInv
  <1>1. Init => TypeOK
    BY Sizes DEF Init, TypeOK, Indices
  <1>2. Init /\ TypeOK => RingInv
    <2>1. ASSUME Init, TypeOK PROVE RingInv
      <3>1. Way = 0
        BY <2>1, DistanceType DEF Init, TypeOK, Way
      <3>2. QED
        BY <2>1, <3>1, Sizes DEF Init, RingInv
    <2>2. QED
      BY <2>1
  <1>3. QED
    BY <1>1, <1>2

\* Types and the order of the four indices round the ring are invariant.
THEOREM RingInvariant == Spec => [](TypeOK /\ RingInv)
  BY InitRing, StepTyped, StepRing, PTL DEF Spec

\* The plain memory accesses of push() and pop() never meet on one slot, for
\* every power-of-two capacity and however stale the loaded indices are.
THEOREM SlotsNeverRace == Spec => []NoSlotRace
  BY RingInvariant, NoRaceFollows, PTL

\* size() called from either thread stays within the depth, also across the
\* wrap of std::size_t.
THEOREM SizeStaysBounded == Spec => []AdvisorySizeBounded
  BY RingInvariant, SizeFollows, PTL

-----------------------------------------------------------------------------
(* The items.                                                              *)

\* What lies between head_ and tail_ was written by push(); what a thread
\* carries is what the slot holds.
ItemsInv ==
  /\ PublishedSlotsWritten
  /\ pPc # "idle" => pItem \in Items
  /\ pPc = "publish" => buffer[Slot(tail)] = pItem
  /\ cPc = "publish" => cItem = buffer[Slot(head)]

\* The ring's content as a queue.
Content == [i \in 1 .. Held |-> buffer[Slot(head + i - 1)]]

\* push() and pop() inside a call, and calls that were refused, move neither
\* index and rewrite no slot that holds an item.
LEMMA ContentKept ==
  ASSUME TypeOK, RingInv, ItemsInv, UNCHANGED <<head, tail>>,
         \/ UNCHANGED buffer
         \/ pPc # "idle" /\ buffer' = [buffer EXCEPT ![Slot(tail)] = pItem]
  PROVE  /\ Held' = Held
         /\ \A i \in 0 .. Held - 1 : buffer'[Slot(head + i)] = buffer[Slot(head + i)]
  <1>1. Held' = Held
    BY DEF Held
  <1>2. ASSUME NEW i \in 0 .. Held - 1
        PROVE  buffer'[Slot(head + i)] = buffer[Slot(head + i)]
    <2>1. Held \in Nat /\ head \in Int /\ head + i \in Int
      BY HeldBounds, Sizes DEF TypeOK, Indices
    <2>2. Slot(head + i) \in Slots
      BY <2>1, SlotType
    <2>3. pPc # "idle" => Slot(head + i) # Slot(tail)
      BY ClaimedSlotFree
    <2>4. QED
      BY <2>2, <2>3 DEF TypeOK
  <1>3. QED
    BY <1>1, <1>2

LEMMA PublishedKept ==
  ASSUME TypeOK, RingInv, ItemsInv, UNCHANGED <<head, tail>>,
         \/ UNCHANGED buffer
         \/ pPc # "idle" /\ buffer' = [buffer EXCEPT ![Slot(tail)] = pItem]
  PROVE  PublishedSlotsWritten'
  BY ContentKept DEF ItemsInv, PublishedSlotsWritten, Held

\* The publishing store of push() makes the written slot the last item.
LEMMA PublishAdds ==
  ASSUME TypeOK, RingInv, PushPublish
  PROVE  Held' = Held + 1 /\ Held \in Nat /\ Held < Depth
  <1>1. Held \in 0 .. Depth /\ Held < Depth
    BY HeldBounds DEF PushPublish
  <1>2. Distance(head, Successor(tail)) = Held + 1
    BY <1>1, StepAhead, Sizes DEF TypeOK, Held
  <1>3. QED
    BY <1>1, <1>2, Sizes DEF PushPublish, consumer, Held

\* The publishing store of pop() makes the second item the first.
LEMMA PublishDrops ==
  ASSUME TypeOK, RingInv, PopPublish
  PROVE  /\ Held' = Held - 1 /\ Held \in Nat /\ Held > 0
         /\ \A i \in Nat : Slot(head' + i) = Slot(head + (i + 1))
  <1>1. Held \in 0 .. Depth /\ Held > 0 /\ head' = Successor(head) /\ UNCHANGED tail
    BY HeldBounds DEF PopPublish, producer
  <1>2. head # tail
    BY <1>1, DistanceType DEF TypeOK, Held
  <1>3. Held' = Held - 1
    BY <1>1, <1>2, StepAhead DEF TypeOK, Held
  <1>4. ASSUME NEW i \in Nat
        PROVE  Slot(head' + i) = Slot(head + (i + 1))
    <2>1. Successor(head) = IF head = IndexMod - 1 THEN 0 ELSE head + 1
      BY SuccessorIs DEF TypeOK
    <2>2. CASE head = IndexMod - 1
      <3>1. head' + i = (head + (i + 1)) - IndexMod /\ head + (i + 1) \in Int
        BY <1>1, <2>1, <2>2, Sizes
      <3>2. QED
        BY <3>1, SlotWraps
    <2>3. CASE head # IndexMod - 1
      <3>1. head' + i = head + (i + 1)
        BY <1>1, <2>1, <2>3 DEF TypeOK, Indices
      <3>2. QED
        BY <3>1
    <2>4. QED
      BY <2>2, <2>3
  <1>5. QED
    BY <1>1, <1>3, <1>4, Sizes

LEMMA StepItems ==
  ASSUME TypeOK, RingInv, ItemsInv, [Next]_vars
  PROVE  ItemsInv'
  <1>1. ASSUME NEW item \in Items, PushCheck(item)
        PROVE  ItemsInv'
    <2>1. UNCHANGED <<head, tail, buffer, cPc, cItem>> /\ pPc' = "write" /\ pItem' = item
      BY <1>1 DEF PushCheck, consumer
    <2>2. QED
      BY <2>1, PublishedKept DEF ItemsInv
  <1>2. CASE PushRefused \/ PopCheck \/ PopEmpty \/ UNCHANGED vars
    <2>1. UNCHANGED <<head, tail, buffer, pPc, pItem, cItem>>
          /\ (cPc' = cPc \/ cPc' = "read")
      BY <1>2 DEF PushRefused, PopCheck, PopEmpty, vars, producer, consumer
    <2>2. QED
      BY <2>1, PublishedKept DEF ItemsInv
  <1>3. CASE PushWrite
    <2>1. /\ pPc = "write" /\ buffer' = [buffer EXCEPT ![Slot(tail)] = pItem] /\ pPc' = "publish"
          /\ UNCHANGED <<head, tail, pItem, cPc, cItem>>
      BY <1>3 DEF PushWrite, consumer
    <2>2. PublishedSlotsWritten'
      BY <2>1, PublishedKept
    <2>3. buffer'[Slot(tail)] = pItem
      BY <2>1, SlotType, Sizes DEF TypeOK, Indices
    <2>4. cPc = "publish" => buffer'[Slot(head)] = buffer[Slot(head)]
      <3>1. ASSUME cPc = "publish"
            PROVE  0 \in 0 .. Held - 1 /\ head + 0 = head
        BY <3>1, HeldBounds, Sizes DEF TypeOK, Indices
      <3>2. QED
        BY <2>1, <3>1, ContentKept
    <2>5. QED
      BY <2>1, <2>2, <2>3, <2>4 DEF ItemsInv
  <1>4. CASE PushPublish
    <2>1. pPc = "publish" /\ pPc' = "idle" /\ UNCHANGED <<head, buffer, cPc, cItem>>
      BY <1>4 DEF PushPublish, consumer
    <2>2. ASSUME NEW i \in 0 .. Held' - 1
          PROVE  buffer[Slot(head + i)] \in Items
      <3>1. CASE i = Held
        BY <2>1, <3>1, TailSlot DEF ItemsInv
      <3>2. CASE i # Held
        <4>1. i \in 0 .. Distance(head, tail) - 1
          BY <1>4, <2>2, <3>2, PublishAdds DEF Held
        <4>2. QED
          BY <4>1 DEF ItemsInv, PublishedSlotsWritten
      <3>3. QED
        BY <3>1, <3>2
    <2>3. PublishedSlotsWritten'
      BY <2>1, <2>2 DEF PublishedSlotsWritten, Held
    <2>4. QED
      BY <2>1, <2>3 DEF ItemsInv
  <1>5. CASE PopRead
    <2>1. UNCHANGED <<head, tail, buffer, pPc, pItem>> /\ cItem' = buffer[Slot(head)]
      BY <1>5 DEF PopRead, producer
    <2>2. QED
      BY <2>1, PublishedKept DEF ItemsInv
  <1>6. CASE PopPublish
    <2>1. UNCHANGED <<tail, buffer, pPc, pItem>> /\ cPc' = "idle"
      BY <1>6 DEF PopPublish, producer
    <2>2. ASSUME NEW i \in 0 .. Held' - 1
          PROVE  buffer[Slot(head' + i)] \in Items
      <3>1. i + 1 \in 0 .. Distance(head, tail) - 1 /\ Slot(head' + i) = Slot(head + (i + 1))
        BY <1>6, <2>2, PublishDrops DEF Held
      <3>2. QED
        BY <3>1 DEF ItemsInv, PublishedSlotsWritten
    <2>3. PublishedSlotsWritten'
      BY <2>1, <2>2 DEF PublishedSlotsWritten, Held
    <2>4. QED
      BY <2>1, <2>3 DEF ItemsInv
  <1>7. QED
    BY <1>1, <1>2, <1>3, <1>4, <1>5, <1>6 DEF Next, Produce, Consume

\* No pop() ever moves a value out of a slot nobody wrote.
THEOREM PublishedWritten == Spec => []PublishedSlotsWritten
  <1>1. Init => ItemsInv
    <2>1. ASSUME Init PROVE ItemsInv
      <3>1. Distance(head, tail) = 0
        BY <2>1, InitRing, DistanceType DEF Init, TypeOK
      <3>2. QED
        BY <2>1, <3>1 DEF Init, ItemsInv, PublishedSlotsWritten
    <2>2. QED
      BY <2>1
  <1>2. QED
    BY <1>1, StepItems, RingInvariant, PTL DEF Spec, ItemsInv

-----------------------------------------------------------------------------
(* The refinement.                                                         *)

LEMMA ContentIsQueue ==
  ASSUME TypeOK, RingInv, ItemsInv
  PROVE  Content \in Seq(Items) /\ Len(Content) = Held /\ Held \in Nat
  <1>1. Held \in Nat
    BY HeldBounds
  <1>2. ASSUME NEW i \in 1 .. Held
        PROVE  buffer[Slot(head + i - 1)] \in Items
    <2>1. i - 1 \in 0 .. Distance(head, tail) - 1 /\ head + i - 1 = head + (i - 1)
      BY <1>1, Sizes DEF Held, TypeOK, Indices
    <2>2. QED
      BY <2>1 DEF ItemsInv, PublishedSlotsWritten
  <1>3. QED
    BY <1>1, <1>2 DEF Content

LEMMA NextIsQueue ==
  ASSUME TypeOK, RingInv, ItemsInv, Next
  PROVE  Content' \in Seq(Items) /\ Len(Content') = Held'
  <1>1. TypeOK' /\ RingInv' /\ ItemsInv'
    BY StepTyped, StepRing, StepItems
  <1>2. Held' \in Nat
    <2>1. head' \in Indices /\ tail' \in Indices
      BY <1>1 DEF TypeOK
    <2>2. QED
      BY <2>1, DistanceType, Sizes DEF Held
  <1>3. ASSUME NEW i \in 1 .. Held'
        PROVE  buffer'[Slot(head' + i - 1)] \in Items
    <2>1. i - 1 \in 0 .. Distance(head', tail') - 1 /\ head' + i - 1 = head' + (i - 1)
      BY <1>1, <1>2, Sizes DEF Held, TypeOK, Indices
    <2>2. QED
      BY <1>1, <2>1 DEF ItemsInv, PublishedSlotsWritten
  <1>4. QED
    BY <1>2, <1>3 DEF Content

\* A step that keeps the items keeps the queue.
LEMMA SameContent ==
  ASSUME TypeOK, RingInv, ItemsInv, UNCHANGED <<head, tail>>,
         \/ UNCHANGED buffer
         \/ pPc # "idle" /\ buffer' = [buffer EXCEPT ![Slot(tail)] = pItem]
  PROVE  Content' = Content
  <1>1. Held' = Held /\ Held \in Nat /\ head' = head /\ head \in Int
    BY ContentKept, HeldBounds, Sizes DEF TypeOK, Indices
  <1>2. ASSUME NEW i \in 1 .. Held
        PROVE  buffer'[Slot(head + i - 1)] = buffer[Slot(head + i - 1)]
    <2>1. i - 1 \in 0 .. Held - 1 /\ head + i - 1 = head + (i - 1)
      BY <1>1
    <2>2. QED
      BY <2>1, ContentKept
  <1>3. QED
    BY <1>1, <1>2 DEF Content

LEMMA PublishAppends ==
  ASSUME TypeOK, RingInv, ItemsInv, PushPublish
  PROVE  Content' = Append(Content, pItem) /\ Len(Content) < Depth /\ pItem \in Items
  <1>1. Held' = Held + 1 /\ Held \in Nat /\ Held < Depth /\ head \in Int
    BY PublishAdds, Sizes DEF TypeOK, Indices
  <1>2. /\ UNCHANGED <<head, buffer>> /\ pItem \in Items /\ buffer[Slot(head + Held)] = pItem
    BY TailSlot DEF PushPublish, consumer, ItemsInv
  <1>3. Content \in Seq(Items) /\ Len(Content) = Held
    BY ContentIsQueue
  <1>4. Content' \in Seq(Items) /\ Len(Content') = Held + 1
    BY <1>1, NextIsQueue DEF Next, Produce
  <1>5. ASSUME NEW i \in 1 .. Held + 1
        PROVE  Content'[i] = Append(Content, pItem)[i]
    <2>1. Content'[i] = buffer[Slot(head + i - 1)]
      BY <1>1, <1>2 DEF Content
    <2>2. CASE i = Held + 1
      <3>1. head + i - 1 = head + Held
        BY <1>1, <2>2
      <3>2. QED
        BY <1>2, <1>3, <2>1, <2>2, <3>1, AppendProperties
    <2>3. CASE i # Held + 1
      <3>1. i \in 1 .. Held
        BY <1>1, <2>3
      <3>2. Content[i] = buffer[Slot(head + i - 1)]
        BY <3>1 DEF Content
      <3>3. QED
        BY <1>2, <1>3, <2>1, <3>1, <3>2, AppendProperties
    <2>4. QED
      BY <2>2, <2>3
  <1>6. Append(Content, pItem) \in Seq(Items) /\ Len(Append(Content, pItem)) = Held + 1
    BY <1>2, <1>3, AppendProperties
  <1>7. Content' = Append(Content, pItem)
    BY <1>4, <1>5, <1>6, SeqEqual
  <1>8. QED
    BY <1>1, <1>2, <1>3, <1>7

LEMMA PublishPops ==
  ASSUME TypeOK, RingInv, ItemsInv, PopPublish
  PROVE  Content # <<>> /\ out' = Head(Content) /\ Content' = Tail(Content)
  <1>1. Held' = Held - 1 /\ Held \in Nat /\ Held > 0 /\ head \in Int
    BY PublishDrops, Sizes DEF TypeOK, Indices
  <1>2. Content \in Seq(Items) /\ Len(Content) = Held
    BY ContentIsQueue
  <1>3. UNCHANGED buffer /\ out' = cItem /\ cItem = buffer[Slot(head)]
    BY DEF PopPublish, ItemsInv
  <1>4. Content[1] = buffer[Slot(head)]
    <2>1. 1 \in 1 .. Held /\ head + 1 - 1 = head
      BY <1>1
    <2>2. QED
      BY <2>1 DEF Content
  <1>5. Content # <<>>
    BY <1>1, <1>2
  <1>6. ASSUME NEW i \in 1 .. Held - 1
        PROVE  buffer[Slot(head' + i - 1)] = Content[i + 1]
    <2>1. /\ i - 1 \in Nat /\ i + 1 \in 1 .. Held /\ head + ((i - 1) + 1) = head + (i + 1) - 1
          /\ head' \in Int
      BY <1>1, StepTyped, Sizes DEF Next, Consume, TypeOK, Indices
    <2>2. head' + (i - 1) = head' + i - 1
      BY <2>1
    <2>3. Slot(head' + i - 1) = Slot(head + (i + 1) - 1)
      BY <2>1, <2>2, PublishDrops
    <2>4. QED
      BY <2>1, <2>3 DEF Content
  <1>7. /\ Content' \in Seq(Items) /\ Len(Content') = Held - 1
        /\ Tail(Content) \in Seq(Items) /\ Len(Tail(Content)) = Held - 1
    BY <1>1, <1>2, <1>5, NextIsQueue, HeadTailProperties DEF Next, Consume
  <1>8. ASSUME NEW i \in 1 .. Held - 1
        PROVE  Content'[i] = Tail(Content)[i]
    <2>1. Content'[i] = buffer[Slot(head' + i - 1)]
      BY <1>1, <1>3 DEF Content
    <2>2. Tail(Content)[i] = Content[i + 1]
      BY <1>2, <1>5, <1>7, HeadTailProperties
    <2>3. QED
      BY <1>6, <2>1, <2>2
  <1>9. Content' = Tail(Content)
    BY <1>7, <1>8, SeqEqual
  <1>10. out' = Head(Content)
    BY <1>1, <1>2, <1>3, <1>4
  <1>11. QED
    BY <1>5, <1>9, <1>10

\* The ring implements the bounded queue for every capacity and index width:
\* each push() that returned true is popped once, in order, and no more than
\* Depth items are held.
THEOREM RingImplementsFifo == Spec => ImplementsFifo
  <1>1. Init => ItemsInv /\ Fifo!Init
    <2>1. ASSUME Init PROVE ItemsInv /\ Fifo!Init
      <3>1. Distance(head, tail) = 0
        BY <2>1, InitRing, DistanceType DEF Init, TypeOK
      <3>2. QED
        BY <2>1, <3>1 DEF Init, ItemsInv, PublishedSlotsWritten, Fifo!Init
    <2>2. QED
      BY <2>1
  <1>2. ASSUME TypeOK, RingInv, ItemsInv, [Next]_vars
        PROVE  [Fifo!Next]_(Fifo!fifoVars)
    <2>1. CASE UNCHANGED <<head, tail, out>> /\ (UNCHANGED buffer \/ PushWrite)
      <3>1. Content' = Content
        BY <1>2, <2>1, SameContent DEF PushWrite
      <3>2. QED
        BY <2>1, <3>1 DEF Fifo!fifoVars, Content, Held
    <2>2. CASE PushPublish
      BY <1>2, <2>2, PublishAppends
      DEF PushPublish, consumer, Fifo!Next, Fifo!Push, Content, Held
    <2>3. CASE PopPublish
      BY <1>2, <2>3, PublishPops DEF Fifo!Next, Fifo!Pop, Content, Held
    <2>4. QED
      BY <1>2, <2>1, <2>2, <2>3
      DEF Next, Produce, Consume, PushRefused, PushCheck, PushWrite, PopCheck, PopEmpty, PopRead,
          vars, producer, consumer
  <1>3. QED
    BY <1>1, <1>2, RingInvariant, StepItems, PTL DEF Spec, ImplementsFifo, Fifo!Spec
============================================================================
