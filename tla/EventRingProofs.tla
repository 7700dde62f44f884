--------------------------- MODULE EventRingProofs --------------------------
(***************************************************************************)
(* Proofs about EventRing, for a ring of any size, any set of events and   *)
(* any tick period, with interrupts at any memory access: until one of the *)
(* two mishaps of EventRing spoils it, the ring is a FIFO of Size - 1      *)
(* events, whose oldest events are safe from the interrupts while the loop *)
(* reads one.                                                              *)
(***************************************************************************)
EXTENDS EventRing, TLAPS

RingTypes ==
  /\ event_queue \in [0 .. Size - 1 -> Event \cup {Nothing}]
  /\ read_pos \in 0 .. Size
  /\ write_pos \in 0 .. Size
  /\ pc \in {"idle", "load", "bump", "store", "wrap", "process", "move", "read_wrap"}
  /\ index \in 0 .. Size - 1
  /\ e \in Event \cup {Nothing}
  /\ unread \in 0 .. Size - 1
  /\ reports \in {0, 1}

(* A position is out of the ring only until the loop wraps it, and a       *)
(* register of the loop is next to the position it was loaded from.        *)
PositionInv ==
  /\ read_pos = Size => pc \in {"move", "read_wrap"}
  /\ write_pos = Size => pc \in {"store", "wrap"}
  /\ pc = "bump" => index = write_pos
  /\ pc = "store" => write_pos = index + 1
  /\ pc = "move" => read_pos = index + 1

(* The distance between the positions is the number of events; behind the  *)
(* test of fire_event() there is room for one.                             *)
RoomInv ==
  /\ WriteIndex = (ReadIndex + unread) % Size
  /\ pc \in {"load", "bump", "store"} => unread < Size - 1

(* The events that were accepted and not read, oldest first.               *)
Ring(queue, first, count) == [k \in 1 .. count |-> queue[(first + k - 1) % Size]]

(* Queue p holds what queue q does, and an event behind it.                *)
Appended(p, q, first, count, event) ==
  Ring(p, first, count + 1) = Append(Ring(q, first, count), event)

(* The invariant of a ring that is not spoilt.                             *)
RingInv ==
  /\ ~outside
  /\ RingTypes /\ PositionInv /\ RoomInv
  /\ Ring(event_queue, ReadIndex, unread) \in Seq(Event)
-----------------------------------------------------------------------------
(* The ring as a sequence.                                                 *)

\* An index wraps once.
LEMMA SlotIs ==
  ASSUME NEW a \in 0 .. 2 * Size - 1
  PROVE  a % Size = IF a < Size THEN a ELSE a - Size
<1>1. CASE a < Size   BY <1>1, RingAssumption, SMT
<1>2. CASE a >= Size  BY <1>2, RingAssumption, SMT
<1> QED BY <1>1, <1>2, RingAssumption

\* The slots of a ring.
LEMMA SlotsAre ==
  ASSUME NEW r \in 0 .. Size - 1, NEW n \in 0 .. Size - 1
  PROVE  (r + n) % Size = IF r + n < Size THEN r + n ELSE r + n - Size
BY RingAssumption, SlotIs

\* The ring is a sequence of what its slots hold.
LEMMA RingType ==
  ASSUME NEW V, NEW q \in [0 .. Size - 1 -> V],
         NEW r \in 0 .. Size - 1, NEW n \in 0 .. Size
  PROVE  /\ \A k \in 1 .. n : (r + k - 1) % Size \in 0 .. Size - 1
         /\ Ring(q, r, n) \in Seq(V) /\ Len(Ring(q, r, n)) = n
<1>1. \A k \in 1 .. n : (r + k - 1) % Size \in 0 .. Size - 1
  <2> SUFFICES ASSUME NEW k \in 1 .. n PROVE (r + k - 1) % Size \in 0 .. Size - 1
    OBVIOUS
  <2>1. k - 1 \in 0 .. Size - 1 /\ r + k - 1 = r + (k - 1)
    BY RingAssumption
  <2> QED BY <2>1, SlotsAre, RingAssumption
<1>2. \A k \in 1 .. n : q[(r + k - 1) % Size] \in V
  BY <1>1
<1> QED BY <1>1, <1>2 DEF Ring

\* An event that is stored behind the others is appended, as long as a slot is
\* left over; that slot is not the one behind which the ring begins.
LEMMA RingAppend ==
  ASSUME NEW V, NEW q \in [0 .. Size - 1 -> V], NEW ev \in V,
         NEW r \in 0 .. Size - 1, NEW n \in 0 .. Size - 2, NEW w, w = (r + n) % Size,
         NEW p \in [0 .. Size - 1 -> V], p[w] = ev,
         \A i \in 0 .. Size - 1 : i # w => p[i] = q[i]
  PROVE  /\ Appended(p, q, r, n, ev)
         /\ w # (r + Size - 1) % Size
<1>0. w \in 0 .. Size - 1 /\ n \in 0 .. Size - 1 /\ n \in 0 .. Size /\ n + 1 \in 0 .. Size
  BY SlotsAre, RingAssumption
<1>2. \A k \in 1 .. n : (r + k - 1) % Size \in 0 .. Size - 1 /\ (r + k - 1) % Size # w
  <2> SUFFICES ASSUME NEW k \in 1 .. n
               PROVE  (r + k - 1) % Size \in 0 .. Size - 1 /\ (r + k - 1) % Size # w
    OBVIOUS
  <2>1. k - 1 \in 0 .. Size - 1 /\ r + k - 1 = r + (k - 1)
    BY RingAssumption
  <2>2. (r + k - 1) % Size = IF r + k - 1 < Size THEN r + k - 1 ELSE r + k - 1 - Size
    BY <2>1, SlotsAre
  <2>3. w = IF r + n < Size THEN r + n ELSE r + n - Size
    BY <1>0, SlotsAre
  <2> QED BY <2>2, <2>3, RingAssumption
<1>3. \A k \in 1 .. n : p[(r + k - 1) % Size] = q[(r + k - 1) % Size]
  BY <1>2
<1>4. p[(r + (n + 1) - 1) % Size] = ev
  <2>1. r + (n + 1) - 1 = r + n
    BY RingAssumption
  <2> QED BY <1>0, <2>1
<1>5. Ring(p, r, n + 1) = Append(Ring(q, r, n), ev)
  <2>1. Ring(q, r, n) \in Seq(V) /\ Len(Ring(q, r, n)) = n
    BY <1>0, RingType
  <2>2. Ring(p, r, n + 1) \in Seq(V) /\ Len(Ring(p, r, n + 1)) = n + 1
    <3> DEFINE m == n + 1
    <3>1. m \in 0 .. Size
      BY <1>0
    <3> HIDE DEF m
    <3>2. Ring(p, r, m) \in Seq(V) /\ Len(Ring(p, r, m)) = m
      BY <3>1, RingType
    <3> QED BY <3>2 DEF m
  <2>3. \A k \in 1 .. n + 1 : Ring(p, r, n + 1)[k] = Append(Ring(q, r, n), ev)[k]
    <3> SUFFICES ASSUME NEW k \in 1 .. n + 1
                 PROVE  Ring(p, r, n + 1)[k] = Append(Ring(q, r, n), ev)[k]
      OBVIOUS
    <3>1. Ring(p, r, n + 1)[k] = p[(r + k - 1) % Size]
      BY DEF Ring
    <3>2. CASE k = n + 1
      BY <1>4, <2>1, <3>1, <3>2
    <3>3. CASE k \in 1 .. n
      <4>1. Ring(q, r, n)[k] = q[(r + k - 1) % Size]
        BY <3>3 DEF Ring
      <4> QED BY <1>3, <2>1, <3>1, <3>3, <4>1
    <3>4. k = n + 1 \/ k \in 1 .. n
      BY <1>0, RingAssumption
    <3> QED BY <3>2, <3>3, <3>4
  <2>4. Append(Ring(q, r, n), ev) \in Seq(V) /\ Len(Append(Ring(q, r, n), ev)) = n + 1
    BY <2>1
  <2> QED BY <2>2, <2>3, <2>4
<1>6. w # (r + Size - 1) % Size
  <2>1. w = IF r + n < Size THEN r + n ELSE r + n - Size
    BY <1>0, SlotsAre
  <2>2. (r + Size - 1) % Size = IF r + Size - 1 < Size THEN r + Size - 1 ELSE r + Size - 1 - Size
    <3>1. Size - 1 \in 0 .. Size - 1 /\ r + Size - 1 = r + (Size - 1)
      BY RingAssumption
    <3> QED BY <3>1, SlotsAre
  <2>3. CASE r = 0
    BY <2>1, <2>2, <2>3, RingAssumption
  <2>4. CASE r > 0
    BY <2>1, <2>2, <2>4, RingAssumption
  <2> QED BY <2>3, <2>4, RingAssumption
<1> QED BY <1>5, <1>6 DEF Appended

\* Reading takes the head of the ring and leaves its tail.
LEMMA RingTail ==
  ASSUME NEW V, NEW q \in [0 .. Size - 1 -> V],
         NEW r \in 0 .. Size - 1, NEW n \in 1 .. Size - 1
  PROVE  /\ Ring(q, r, n) # <<>> /\ Head(Ring(q, r, n)) = q[r]
         /\ Ring(q, (r + 1) % Size, n - 1) = Tail(Ring(q, r, n))
<1>0. n \in 0 .. Size /\ n \in 0 .. Size - 1
  BY RingAssumption
<1>1. Ring(q, r, n) \in Seq(V) /\ Len(Ring(q, r, n)) = n
  BY <1>0, RingType
<1>2. Ring(q, r, n)[1] = q[r]
  <2>1. Ring(q, r, n)[1] = q[(r + 1 - 1) % Size]
    BY DEF Ring
  <2>2. r + 1 - 1 = r /\ r % Size = r
    BY SlotIs, RingAssumption
  <2> QED BY <2>1, <2>2
<1> DEFINE s == (r + 1) % Size
<1>3. s = IF r + 1 < Size THEN r + 1 ELSE r + 1 - Size
  BY SlotsAre, RingAssumption
<1>4. s \in 0 .. Size - 1 /\ n - 1 \in 0 .. Size
  BY <1>3, RingAssumption
<1> HIDE DEF s
<1>5. Ring(q, s, n - 1) \in Seq(V) /\ Len(Ring(q, s, n - 1)) = n - 1
  BY <1>4, RingType
<1>6. \A k \in 1 .. n - 1 : Ring(q, s, n - 1)[k] = Tail(Ring(q, r, n))[k]
  <2> SUFFICES ASSUME NEW k \in 1 .. n - 1
               PROVE  Ring(q, s, n - 1)[k] = Tail(Ring(q, r, n))[k]
    OBVIOUS
  <2>0. k \in 1 .. n /\ k + 1 \in 1 .. n /\ k - 1 \in 0 .. Size - 1 /\ k \in 0 .. Size - 1
    BY RingAssumption
  <2>1. Ring(q, s, n - 1)[k] = q[(s + k - 1) % Size]
    BY DEF Ring
  <2>2. Tail(Ring(q, r, n))[k] = Ring(q, r, n)[k + 1]
    BY <1>1, <2>0
  <2>3. Ring(q, r, n)[k + 1] = q[(r + (k + 1) - 1) % Size]
    BY <2>0 DEF Ring
  <2>4. r + (k + 1) - 1 = r + k /\ s + k - 1 = s + (k - 1)
    BY <1>4, <2>0, RingAssumption
  <2>5. (s + k - 1) % Size = IF s + k - 1 < Size THEN s + k - 1 ELSE s + k - 1 - Size
    BY <1>4, <2>0, <2>4, SlotsAre
  <2>6. (r + k) % Size = IF r + k < Size THEN r + k ELSE r + k - Size
    BY <2>0, SlotsAre
  <2>7. (s + k - 1) % Size = (r + k) % Size
    BY <1>3, <2>5, <2>6, <2>0, RingAssumption
  <2> QED BY <2>1, <2>2, <2>3, <2>4, <2>7
<1>7. Tail(Ring(q, r, n)) \in Seq(V) /\ Len(Tail(Ring(q, r, n))) = n - 1
  BY <1>1
<1>8. Ring(q, s, n - 1) = Tail(Ring(q, r, n))
  BY <1>5, <1>6, <1>7
<1> QED BY <1>1, <1>2, <1>8 DEF s

\* The slots between the positions are those of the events.
LEMMA DistanceIs ==
  ASSUME NEW r \in 0 .. Size - 1, NEW n \in 0 .. Size - 1, NEW w, w = (r + n) % Size
  PROVE  (w + Size - r) % Size = n
<1>1. w = IF r + n < Size THEN r + n ELSE r + n - Size
  BY SlotsAre
<1> DEFINE d == w + Size - r
<1>2. d = IF r + n < Size THEN n + Size ELSE n
  BY <1>1, RingAssumption
<1>3. d \in 0 .. 2 * Size - 1
  BY <1>2, RingAssumption
<1> HIDE DEF d
<1>4. d % Size = IF d < Size THEN d ELSE d - Size
  BY <1>3, SlotIs
<1>5. r + n >= Size => n >= 0 /\ n < Size
  BY RingAssumption
<1>6. d % Size = n
  BY <1>2, <1>4, RingAssumption
<1> QED BY <1>6 DEF d

\* A position is an index when it is wrapped.
LEMMA WrappedIs ==
  ASSUME NEW p \in 0 .. Size
  PROVE  /\ p % Size = Wrapped(p) /\ Wrapped(p) \in 0 .. Size - 1
         /\ Wrapped(p) \in 0 .. Size /\ Wrapped(p) % Size = Wrapped(p)
<1>1. p % Size = IF p < Size THEN p ELSE p - Size
  BY SlotIs, RingAssumption
<1>2. Wrapped(p) = IF p < Size THEN p ELSE p - Size
  BY RingAssumption DEF Wrapped
<1>3. Wrapped(p) \in 0 .. Size - 1 /\ Wrapped(p) \in 0 .. Size
  BY <1>2, RingAssumption
<1> DEFINE u == Wrapped(p)
<1>4. u \in 0 .. Size - 1
  BY <1>3
<1> HIDE DEF u
<1>5. u % Size = u
  BY <1>4, SlotIs, RingAssumption
<1> QED BY <1>1, <1>2, <1>3, <1>5 DEF u

\* The comparison of fire_event() in std::size_t: for a read position of zero
\* it is never true.
LEMMA OverrunIs ==
  ASSUME RingTypes
  PROVE  Overrun <=> read_pos > 0 /\ write_pos = read_pos - 1
<1> DEFINE M == SizeMax + 1
           x == read_pos + SizeMax
<1>1. M \in Nat \ {0} /\ x \in M - 1 .. 2 * M - 1
  BY RingAssumption DEF RingTypes
<1>2. x % M = IF x < M THEN x ELSE x - M
  <2> HIDE DEF x, M
  <2>1. CASE x < M   BY <1>1, <2>1, SMT
  <2>2. CASE x >= M  BY <1>1, <2>2, SMT
  <2> QED BY <1>1, <2>1, <2>2
<1> QED BY <1>2, RingAssumption DEF Overrun, RingTypes

\* What the ring holds in a state of the invariant.
LEMMA RingFacts ==
  ASSUME RingInv
  PROVE  /\ ReadIndex = Wrapped(read_pos) /\ ReadIndex \in 0 .. Size - 1
         /\ WriteIndex = IF pc = "store" THEN index ELSE Wrapped(write_pos)
         /\ WriteIndex = IF ReadIndex + unread < Size THEN ReadIndex + unread
                         ELSE ReadIndex + unread - Size
         /\ Waiting = Ring(event_queue, ReadIndex, unread)
         /\ Len(Waiting) = unread
<1>1. ReadIndex = Wrapped(read_pos) /\ ReadIndex \in 0 .. Size - 1
  BY WrappedIs DEF RingInv, RingTypes, ReadIndex
<1>2. WriteIndex = IF pc = "store" THEN index ELSE Wrapped(write_pos)
  BY WrappedIs DEF RingInv, RingTypes, WriteIndex
<1>3. WriteIndex = (ReadIndex + unread) % Size /\ unread \in 0 .. Size - 1
  BY DEF RingInv, RoomInv, RingTypes
<1>4. WriteIndex = IF ReadIndex + unread < Size THEN ReadIndex + unread
                   ELSE ReadIndex + unread - Size
  BY <1>1, <1>3, SlotsAre
<1>5. Waiting = Ring(event_queue, ReadIndex, unread)
  BY <1>1, <1>3, DistanceIs DEF Waiting, Ring
<1>6. Len(Ring(event_queue, ReadIndex, unread)) = unread
  BY RingAssumption DEF Ring, RingInv, RingTypes
<1> QED BY <1>1, <1>2, <1>4, <1>5, <1>6

-----------------------------------------------------------------------------
(* The steps.                                                              *)

\* Where fire_event() goes on behind its test there is room for an event.
LEMMA RoomIsLeft ==
  ASSUME RingInv, ~Overrun, ~FullUnseen, write_pos < Size, pc # "store"
  PROVE  unread < Size - 1
<1>1. write_pos \in 0 .. Size - 1 /\ read_pos \in 0 .. Size /\ unread \in 0 .. Size - 1
  BY RingAssumption DEF RingInv, RingTypes
<1>2. WriteIndex = write_pos
  BY <1>1, RingFacts, RingAssumption DEF Wrapped
<1>3. ReadIndex # 0 => read_pos = ReadIndex /\ read_pos > 0
  BY <1>1, RingFacts, RingAssumption DEF Wrapped
<1>4. ~(read_pos > 0 /\ write_pos = read_pos - 1)
  BY OverrunIs DEF RingInv
<1>5. CASE ReadIndex # 0 /\ unread = Size - 1
  <2>1. WriteIndex = ReadIndex - 1
    BY <1>1, <1>3, <1>5, RingFacts, RingAssumption
  <2> QED BY <1>2, <1>3, <1>4, <1>5, <2>1
<1>6. CASE ReadIndex = 0 /\ unread = Size - 1
  <2>1. write_pos = Size - 1
    BY <1>1, <1>2, <1>6, RingFacts, RingAssumption
  <2>2. read_pos = 0 \/ read_pos = Size
    BY <1>1, <1>6, RingFacts DEF Wrapped
  <2> QED BY <1>4, <2>1, <2>2, RingAssumption DEF FullUnseen
<1> QED BY <1>1, <1>5, <1>6, RingAssumption

\* Where fire_event() reports an overrun there is none.
LEMMA OverrunIsFull ==
  ASSUME RingInv, Overrun, write_pos < Size, pc # "store"
  PROVE  unread = Size - 1
<1>1. write_pos \in 0 .. Size - 1 /\ read_pos \in 0 .. Size /\ unread \in 0 .. Size - 1
  BY RingAssumption DEF RingInv, RingTypes
<1>2. WriteIndex = write_pos
  BY <1>1, RingFacts, RingAssumption DEF Wrapped
<1>3. read_pos > 0 /\ write_pos = read_pos - 1
  BY OverrunIs DEF RingInv
<1>4. ReadIndex = IF read_pos = Size THEN 0 ELSE read_pos
  BY RingFacts DEF Wrapped
<1>5. WriteIndex = IF ReadIndex + unread < Size THEN ReadIndex + unread
                   ELSE ReadIndex + unread - Size
  BY RingFacts
<1> HIDE DEF RingInv
<1> QED BY <1>1, <1>2, <1>3, <1>4, <1>5, RingAssumption

\* The slot that the loop is moving an event out of is the one behind which
\* the ring begins.
LEMMA MovedSlot ==
  ASSUME RingInv, pc = "move"
  PROVE  index = (ReadIndex + Size - 1) % Size
<1>1. read_pos = index + 1 /\ index \in 0 .. Size - 1 /\ ReadIndex \in 0 .. Size - 1
  BY RingFacts DEF RingInv, RingTypes, PositionInv
<1>2. ReadIndex = IF index + 1 = Size THEN 0 ELSE index + 1
  BY <1>1, RingFacts DEF Wrapped
<1>3. Size - 1 \in 0 .. Size - 1 /\ ReadIndex + Size - 1 = ReadIndex + (Size - 1)
  BY <1>1, RingAssumption
<1>4. (ReadIndex + Size - 1) % Size = IF ReadIndex + Size - 1 < Size THEN ReadIndex + Size - 1
                                      ELSE ReadIndex + Size - 1 - Size
  BY <1>1, <1>3, SlotsAre
<1>5. CASE index + 1 = Size
  BY <1>1, <1>2, <1>4, <1>5, RingAssumption
<1>6. CASE index + 1 # Size
  BY <1>1, <1>2, <1>4, <1>6, RingAssumption
<1> QED BY <1>5, <1>6 DEF Appended

\* A step that only moves the loop on keeps the invariant and the FIFO.
LEMMA QuietStep ==
  ASSUME RingInv, RingTypes', PositionInv',
         UNCHANGED <<event_queue, unread, outside>>,
         ReadIndex' = ReadIndex, WriteIndex' = WriteIndex, Got' = Got,
         pc' \in {"load", "bump", "store"} => unread < Size - 1
  PROVE  RingInv' /\ UNCHANGED <<Waiting, Got>>
<1>1. RoomInv' /\ ~outside' /\ (Ring(event_queue, ReadIndex, unread) \in Seq(Event))'
  BY DEF RingInv, RoomInv
<1>2. Waiting' = Waiting
  BY DEF Waiting
<1> QED BY <1>1, <1>2 DEF RingInv

\* An event that is stored is fired in the sense of EventFifo, and Got is as it
\* was.
LEMMA StoreStep ==
  ASSUME RingInv, unread < Size - 1, NEW ev \in Event,
         event_queue' = [event_queue EXCEPT ![WriteIndex] = ev],
         unread' = unread + 1, ReadIndex' = ReadIndex,
         WriteIndex' = IF WriteIndex + 1 = Size THEN 0 ELSE WriteIndex + 1,
         UNCHANGED <<outside, e, index>>, pc = "move" <=> pc' = "move",
         RingTypes', PositionInv',
         pc' \notin {"load", "bump", "store"}
  PROVE  RingInv' /\ Fifo!Fire
<1> DEFINE r == ReadIndex  w == WriteIndex  n == unread
<1>1. /\ event_queue \in [0 .. Size - 1 -> Event \cup {Nothing}]
      /\ r \in 0 .. Size - 1 /\ n \in 0 .. Size - 2 /\ w = (r + n) % Size
      /\ Ring(event_queue, r, n) \in Seq(Event)
  BY RingFacts, RingAssumption DEF RingInv, RingTypes, RoomInv
<1>2. /\ Ring([event_queue EXCEPT ![w] = ev], r, n + 1) = Append(Ring(event_queue, r, n), ev)
      /\ w # (r + Size - 1) % Size
  <2> DEFINE V == Event \cup {Nothing}
             q == event_queue
             p == [q EXCEPT ![w] = ev]
  <2>1. /\ ev \in V /\ q \in [0 .. Size - 1 -> V] /\ p \in [0 .. Size - 1 -> V]
        /\ p[w] = ev /\ \A i \in 0 .. Size - 1 : i # w => p[i] = q[i]
    <3>1. w \in 0 .. Size - 1
      <4> HIDE DEF r, w, n
      <4>1. n \in 0 .. Size - 1
        BY <1>1, RingAssumption
      <4> QED BY <1>1, <4>1, SlotsAre, RingAssumption
    <3> HIDE DEF r, w, n
    <3> QED BY <1>1, <3>1
  <2> HIDE DEF r, w, n, q, p, V
  <2>2. /\ Appended(p, q, r, n, ev)
        /\ w # (r + Size - 1) % Size
    <3>1. r \in 0 .. Size - 1 /\ n \in 0 .. Size - 2 /\ w = (r + n) % Size
      BY <1>1
    <3> QED BY <2>1, <3>1, RingAppend
  <2> QED BY <2>2 DEF p, q, Appended
<1>3. w = IF r + n < Size THEN r + n ELSE r + n - Size
  BY RingFacts
<1>4. WriteIndex' = (r + (n + 1)) % Size
  <2> DEFINE m == n + 1
  <2>1. m \in 0 .. Size - 1
    BY <1>1, RingAssumption
  <2>2. (r + m) % Size = IF r + m < Size THEN r + m ELSE r + m - Size
    <3> HIDE DEF r, m
    <3> QED BY <1>1, <2>1, SlotsAre
  <2>3. WriteIndex' = IF w + 1 = Size THEN 0 ELSE w + 1
    OBVIOUS
  <2>4. m = n + 1
    OBVIOUS
  <2>5. WriteIndex' = (r + m) % Size
    <3> HIDE DEF r, w, n, m
    <3> QED BY <1>1, <1>3, <2>1, <2>2, <2>3, <2>4, RingAssumption
  <2> QED BY <2>5
<1>5. RoomInv'
  BY <1>1, <1>4 DEF RoomInv
<1>6. Ring(event_queue', ReadIndex', unread') = Append(Ring(event_queue, r, n), ev)
  BY <1>2
<1>7. RingInv'
  <2>1. Append(Ring(event_queue, r, n), ev) \in Seq(Event)
    BY <1>1
  <2>2. Ring(event_queue', ReadIndex', unread') \in Seq(Event)
    BY <1>6, <2>1
  <2> QED BY <1>5, <2>2 DEF RingInv
<1>8. Waiting = Ring(event_queue, r, n) /\ Len(Waiting) = n
  BY RingFacts
<1>9. Waiting' = Ring(event_queue', ReadIndex', unread')
  <2>1. ReadIndex' \in 0 .. Size - 1 /\ unread' \in 0 .. Size - 1
    BY <1>1, RingAssumption
  <2>2. WriteIndex' = (ReadIndex' + unread') % Size
    BY <1>5 DEF RoomInv
  <2>3. (WriteIndex' + Size - ReadIndex') % Size = unread'
    <3> DEFINE r1 == ReadIndex'  w1 == WriteIndex'  n1 == unread'
    <3> HIDE DEF r1, w1, n1
    <3>1. r1 \in 0 .. Size - 1 /\ n1 \in 0 .. Size - 1 /\ w1 = (r1 + n1) % Size
      BY <2>1, <2>2 DEF r1, w1, n1
    <3>2. (w1 + Size - r1) % Size = n1
      BY <3>1, DistanceIs
    <3> QED BY <3>2 DEF r1, w1, n1
  <2> QED BY <2>3 DEF Waiting, Ring
<1>10. Got' = Got
  <2>1. CASE pc = "move"
    <3>1. index = (r + Size - 1) % Size /\ index \in 0 .. Size - 1
      BY <2>1, MovedSlot DEF RingInv, RingTypes
    <3>2. event_queue'[index] = event_queue[index]
      BY <1>1, <1>2, <3>1
    <3> QED BY <2>1, <3>2 DEF Got
  <2>2. CASE pc # "move"
    BY <2>2 DEF Got
  <2> QED BY <2>1, <2>2
<1> QED BY <1>1, <1>6, <1>7, <1>8, <1>9, <1>10, RingAssumption DEF Fifo!Fire

\* An event that is read leaves the ring in the sense of EventFifo.
LEMMA ReadStep ==
  ASSUME RingInv, ReadBump
  PROVE  RingInv' /\ Fifo!Read
<1> DEFINE r == ReadIndex  n == unread  r1 == ReadIndex'
<1>0. /\ pc = "process" /\ pc' = "move" /\ read_pos # write_pos
      /\ index' = read_pos /\ read_pos' = read_pos + 1 /\ unread' = unread - 1
      /\ UNCHANGED <<event_queue, write_pos, e, outside, reports>>
  BY DEF ReadBump, At
<1>1. /\ read_pos \in 0 .. Size - 1 /\ write_pos \in 0 .. Size - 1
      /\ r = read_pos /\ WriteIndex = write_pos /\ WriteIndex' = write_pos
      /\ event_queue \in [0 .. Size - 1 -> Event \cup {Nothing}]
      /\ n \in 0 .. Size - 1 /\ Ring(event_queue, r, n) \in Seq(Event)
  <2>1. read_pos \in 0 .. Size /\ read_pos # Size /\ write_pos \in 0 .. Size /\ write_pos # Size
    BY <1>0 DEF RingInv, RingTypes, PositionInv
  <2>2. read_pos \in 0 .. Size - 1 /\ write_pos \in 0 .. Size - 1
    BY <2>1, RingAssumption
  <2>3. r = read_pos /\ WriteIndex = write_pos
    BY <1>0, <2>1, RingFacts DEF Wrapped
  <2>4. WriteIndex' = WriteIndex
    BY <1>0 DEF WriteIndex
  <2> QED BY <2>2, <2>3, <2>4 DEF RingInv, RingTypes
<1>2. WriteIndex = IF r + n < Size THEN r + n ELSE r + n - Size
  BY RingFacts
<1>3. n \in 1 .. Size - 1
  <2>1. n # 0
    <3> HIDE DEF r, n
    <3> QED BY <1>0, <1>1, <1>2, RingAssumption
  <2> QED BY <1>1, <2>1, RingAssumption
<1>4. r1 = (r + 1) % Size /\ r1 = IF r + 1 < Size THEN r + 1 ELSE r + 1 - Size
  <2>1. (r + 1) % Size = IF r + 1 < Size THEN r + 1 ELSE r + 1 - Size
    <3> HIDE DEF r
    <3> QED BY <1>1, SlotsAre, RingAssumption
  <2>2. r1 = (r + 1) % Size
    BY <1>0, <1>1 DEF ReadIndex
  <2> QED BY <2>1, <2>2
<1>5. r1 \in 0 .. Size - 1 /\ n - 1 \in 0 .. Size - 2
  <2> HIDE DEF r, r1, n
  <2> QED BY <1>1, <1>3, <1>4, RingAssumption
<1>6. /\ Ring(event_queue, r, n) # <<>> /\ Head(Ring(event_queue, r, n)) = event_queue[r]
      /\ Ring(event_queue, r1, n - 1) = Tail(Ring(event_queue, r, n))
  <2> DEFINE V == Event \cup {Nothing}
             q == event_queue
  <2>1. q \in [0 .. Size - 1 -> V]
    BY <1>1
  <2> HIDE DEF r, n, r1, q, V
  <2>2. /\ Ring(q, r, n) # <<>> /\ Head(Ring(q, r, n)) = q[r]
        /\ Ring(q, (r + 1) % Size, n - 1) = Tail(Ring(q, r, n))
    BY <1>1, <1>3, <2>1, RingTail
  <2> QED BY <1>4, <2>2 DEF q
<1>7. WriteIndex' = (ReadIndex' + unread') % Size
  <2> DEFINE m == n - 1  w == WriteIndex
  <2>1. m \in 0 .. Size - 1 /\ m = n - 1
    BY <1>5, RingAssumption
  <2>2. (r1 + m) % Size = IF r1 + m < Size THEN r1 + m ELSE r1 + m - Size
    <3> HIDE DEF r1, m
    <3> QED BY <1>5, <2>1, SlotsAre
  <2>3. w = (r1 + m) % Size
    <3> HIDE DEF r, r1, n, m, w
    <3> SUFFICES w = IF r1 + m < Size THEN r1 + m ELSE r1 + m - Size
      BY <2>2
    <3> QED BY <1>1, <1>2, <1>3, <1>4, <2>1, RingAssumption DEF w
  <2> QED BY <1>0, <1>1, <2>3
<1>8. RoomInv'
  BY <1>0, <1>7 DEF RoomInv
<1>9. RingTypes' /\ PositionInv'
  <2>1. RingTypes'
    BY <1>0, <1>1, <1>5, RingAssumption DEF RingInv, RingTypes
  <2>2. PositionInv'
    BY <1>0, <1>1, RingAssumption DEF PositionInv
  <2> QED BY <2>1, <2>2
<1>10. Ring(event_queue', ReadIndex', unread') = Tail(Ring(event_queue, r, n))
  BY <1>0, <1>6
<1>11. RingInv'
  <2>1. Tail(Ring(event_queue, r, n)) \in Seq(Event)
    BY <1>1, <1>6
  <2>2. Ring(event_queue', ReadIndex', unread') \in Seq(Event)
    BY <1>10, <2>1
  <2>3. ~outside'
    BY <1>0 DEF RingInv
  <2> QED BY <1>8, <1>9, <2>2, <2>3 DEF RingInv
<1>12. Waiting = Ring(event_queue, r, n)
  BY RingFacts
<1>13. Waiting' = Ring(event_queue', ReadIndex', unread')
  <2>1. (WriteIndex' + Size - ReadIndex') % Size = unread'
    <3> DEFINE w1 == WriteIndex'  n1 == unread'
    <3> HIDE DEF r1, w1, n1
    <3>1. r1 \in 0 .. Size - 1 /\ n1 \in 0 .. Size - 1 /\ w1 = (r1 + n1) % Size
      BY <1>0, <1>5, <1>7, RingAssumption DEF r1, w1, n1
    <3>2. (w1 + Size - r1) % Size = n1
      BY <3>1, DistanceIs
    <3> QED BY <3>2 DEF r1, w1, n1
  <2> QED BY <2>1 DEF Waiting, Ring
<1>14. Got' = event_queue[r]
  BY <1>0, <1>1 DEF Got
<1>15. Fifo!Read
  BY <1>6, <1>10, <1>12, <1>13, <1>14 DEF Fifo!Read
<1> QED BY <1>11, <1>15

\* The tick event is stored where write_pos was when it was loaded.
LEMMA TickStoreStep ==
  ASSUME RingInv, TickStore
  PROVE  RingInv' /\ Fifo!Fire
<1>1. /\ pc = "store" /\ pc' = "wrap" /\ Store(index, Tick) /\ unread' = unread + 1
      /\ UNCHANGED <<read_pos, write_pos, index, e, reports>>
  BY DEF TickStore, At
<1>2. /\ index \in 0 .. Size - 1 /\ write_pos = index + 1 /\ WriteIndex = index
      /\ unread \in 0 .. Size - 1 /\ unread < Size - 1
  BY <1>1 DEF RingInv, RingTypes, PositionInv, RoomInv, WriteIndex
<1>3. event_queue' = [event_queue EXCEPT ![WriteIndex] = Tick] /\ UNCHANGED outside
  BY <1>1, <1>2, RingAssumption DEF Store
<1>4. ReadIndex' = ReadIndex
  BY <1>1 DEF ReadIndex
<1>5. WriteIndex' = IF WriteIndex + 1 = Size THEN 0 ELSE WriteIndex + 1
  <2>1. write_pos \in 0 .. Size
    BY DEF RingInv, RingTypes
  <2>2. WriteIndex' = write_pos % Size
    BY <1>1 DEF WriteIndex
  <2>3. write_pos % Size = Wrapped(write_pos)
    BY <2>1, WrappedIs
  <2> QED BY <1>2, <2>2, <2>3, RingAssumption DEF Wrapped
<1>6. RingTypes' /\ PositionInv'
  <2>1. event_queue' \in [0 .. Size - 1 -> Event \cup {Nothing}]
    BY <1>2, <1>3 DEF RingInv, RingTypes, Event
  <2>2. RingTypes'
    BY <1>1, <1>2, <2>1, RingAssumption DEF RingInv, RingTypes
  <2>3. PositionInv'
    BY <1>1 DEF RingInv, PositionInv
  <2> QED BY <2>2, <2>3
<1>7. Tick \in Event
  BY DEF Event
<1> QED BY <1>1, <1>2, <1>3, <1>4, <1>5, <1>6, <1>7, StoreStep

\* A ring that stays unspoilt meets neither mishap.
LEMMA NothingNoted ==
  ASSUME Note, spoilt' = {}
  PROVE  ~InFire /\ ~FullUnseen
<1>1. CASE InFire
  <2>1. "interrupted" \in spoilt'
    BY <1>1 DEF Note
  <2> QED BY <2>1
<1>2. CASE FullUnseen
  <2>1. "unseen" \in spoilt'
    BY <1>2 DEF Note
  <2> QED BY <2>1
<1> QED BY <1>1, <1>2

\* An interrupt fires into the slot behind the events, wherever the loop is.
LEMMA IsrFireStep ==
  ASSUME RingInv, spoilt' = {}, NEW ev \in IsrEvent, IsrFire(ev)
  PROVE  RingInv' /\ Fifo!Fire
<1>1. /\ ~Overrun /\ Store(write_pos, ev) /\ write_pos' = Wrapped(write_pos + 1)
      /\ unread' = unread + 1 /\ UNCHANGED <<read_pos, pc, index, e, reports>>
      /\ ~InFire /\ ~FullUnseen
      /\ pc \notin {"load", "bump", "store", "wrap"}
  <2>1. ~InFire /\ ~FullUnseen
    BY NothingNoted DEF IsrFire
  <2> QED BY <2>1 DEF IsrFire, InFire
<1>2. /\ write_pos \in 0 .. Size /\ write_pos # Size /\ unread \in 0 .. Size - 1
      /\ ReadIndex \in 0 .. Size - 1
  BY <1>1, RingFacts DEF RingInv, RingTypes, PositionInv
<1>3. write_pos < Size /\ WriteIndex = write_pos
  BY <1>1, <1>2, RingFacts, RingAssumption DEF Wrapped
<1>4. unread < Size - 1
  BY <1>1, <1>2, <1>3, RoomIsLeft, RingAssumption
<1>5. event_queue' = [event_queue EXCEPT ![WriteIndex] = ev] /\ UNCHANGED outside
  BY <1>1, <1>3 DEF Store
<1>6. ReadIndex' = ReadIndex
  BY <1>1 DEF ReadIndex
<1>7. /\ write_pos' = IF WriteIndex + 1 = Size THEN 0 ELSE WriteIndex + 1
      /\ write_pos' \in 0 .. Size /\ write_pos' # Size
  BY <1>1, <1>2, <1>3, RingAssumption DEF Wrapped
<1>8. WriteIndex' = write_pos'
  <2>1. WriteIndex' = write_pos' % Size
    BY <1>1 DEF WriteIndex
  <2>2. write_pos' % Size = Wrapped(write_pos')
    BY <1>7, WrappedIs
  <2> QED BY <1>7, <2>1, <2>2 DEF Wrapped
<1>9. ev \in Event
  BY DEF Event
<1>10. RingTypes' /\ PositionInv'
  <2>1. event_queue' \in [0 .. Size - 1 -> Event \cup {Nothing}]
    BY <1>5, <1>9 DEF RingInv, RingTypes
  <2>2. RingTypes'
    BY <1>1, <1>2, <1>4, <1>7, <2>1, RingAssumption DEF RingInv, RingTypes
  <2>3. PositionInv'
    BY <1>1, <1>7 DEF RingInv, PositionInv
  <2> QED BY <2>2, <2>3
<1> QED BY <1>1, <1>4, <1>5, <1>6, <1>7, <1>8, <1>9, <1>10, StoreStep

(* The steps that neither store an event nor read one.                     *)
Quiet == \/ StepWithoutTick \/ TickOverrun \/ TickCheck \/ TickLoad \/ TickBump \/ TickWrap
         \/ NothingToRead \/ ReadMove \/ ReadWrap \/ IsrOverrun

\* They leave the events in the ring and the one that was read alone.
LEMMA QuietSteps ==
  ASSUME RingInv, spoilt' = {}, Quiet
  PROVE  RingInv' /\ UNCHANGED <<Waiting, Got>>
<1>0. RingTypes /\ PositionInv /\ RoomInv
  BY DEF RingInv
<1>a. /\ Wrapped(read_pos) \in 0 .. Size /\ Wrapped(write_pos) \in 0 .. Size
      /\ Wrapped(read_pos) # Size /\ Wrapped(write_pos) # Size
      /\ Wrapped(read_pos) % Size = read_pos % Size
      /\ Wrapped(write_pos) % Size = write_pos % Size
  <2>1. read_pos \in 0 .. Size /\ write_pos \in 0 .. Size
    BY <1>0 DEF RingTypes
  <2>2. /\ read_pos % Size = Wrapped(read_pos) /\ Wrapped(read_pos) % Size = Wrapped(read_pos)
        /\ Wrapped(read_pos) \in 0 .. Size - 1 /\ Wrapped(read_pos) \in 0 .. Size
    BY <2>1, WrappedIs
  <2>3. /\ write_pos % Size = Wrapped(write_pos) /\ Wrapped(write_pos) % Size = Wrapped(write_pos)
        /\ Wrapped(write_pos) \in 0 .. Size - 1 /\ Wrapped(write_pos) \in 0 .. Size
    BY <2>1, WrappedIs
  <2>4. \A p \in 0 .. Size - 1 : p # Size
    BY RingAssumption
  <2> QED BY <2>2, <2>3, <2>4
<1>b. /\ ReadIndex = Wrapped(read_pos) /\ ReadIndex \in 0 .. Size - 1
      /\ unread \in 0 .. Size - 1
  BY <1>0, RingFacts DEF RingTypes
<1>c. (1 - reports) \in {0, 1}
  BY <1>0 DEF RingTypes
<1>1. UNCHANGED <<event_queue, unread, outside>>
  BY DEF Quiet, StepWithoutTick, TickOverrun, TickCheck, TickLoad, TickBump, TickWrap,
         NothingToRead, ReadMove, ReadWrap, IsrOverrun
<1>2. ReadIndex' = ReadIndex
  BY <1>a DEF Quiet, StepWithoutTick, TickOverrun, TickCheck, TickLoad, TickBump, TickWrap,
         NothingToRead, ReadMove, ReadWrap, IsrOverrun, ReadIndex
<1>3. RingTypes' /\ PositionInv' /\ WriteIndex' = WriteIndex /\ Got' = Got
  <2>1. CASE StepWithoutTick
    BY <1>0, <2>1 DEF StepWithoutTick, At, RingTypes, PositionInv, WriteIndex, Got
  <2>2. CASE TickOverrun
    BY <1>0, <1>c, <2>2 DEF TickOverrun, Report, At, RingTypes, PositionInv, WriteIndex, Got
  <2>3. CASE TickCheck
    BY <1>0, <2>3 DEF TickCheck, At, RingTypes, PositionInv, WriteIndex, Got
  <2>4. CASE TickLoad
    <3>1. write_pos \in 0 .. Size - 1
      BY <1>0, <2>4, RingAssumption DEF TickLoad, At, RingTypes, PositionInv
    <3> QED BY <1>0, <2>4, <3>1 DEF TickLoad, At, RingTypes, PositionInv, WriteIndex, Got
  <2>5. CASE TickBump
    <3>1. index + 1 \in 0 .. Size
      BY <1>0, RingAssumption DEF RingTypes
    <3>2. WriteIndex = index /\ WriteIndex' = index
      <4>1. index % Size = index
        BY <1>0, SlotIs, RingAssumption DEF RingTypes
      <4> QED BY <1>0, <2>5, <4>1 DEF TickBump, At, PositionInv, WriteIndex
    <3> QED BY <1>0, <2>5, <3>1, <3>2 DEF TickBump, At, RingTypes, PositionInv, Got
  <2>6. CASE TickWrap
    BY <1>0, <1>a, <2>6 DEF TickWrap, At, RingTypes, PositionInv, WriteIndex, Got
  <2>7. CASE NothingToRead
    BY <1>0, <2>7 DEF NothingToRead, At, RingTypes, PositionInv, WriteIndex, Got
  <2>8. CASE ReadMove
    <3>1. event_queue[index] \in Event \cup {Nothing}
      BY <1>0 DEF RingTypes
    <3> QED BY <1>0, <2>8, <3>1 DEF ReadMove, At, RingTypes, PositionInv, WriteIndex, Got
  <2>9. CASE ReadWrap
    BY <1>0, <1>a, <2>9 DEF ReadWrap, At, RingTypes, PositionInv, WriteIndex, Got
  <2>10. CASE IsrOverrun
    BY <1>0, <1>c, <2>10 DEF IsrOverrun, Report, RingTypes, PositionInv, WriteIndex, Got
  <2> QED BY <2>1, <2>2, <2>3, <2>4, <2>5, <2>6, <2>7, <2>8, <2>9, <2>10 DEF Quiet
<1>4. pc' \in {"load", "bump", "store"} => unread < Size - 1
  <2>1. CASE TickCheck
    <3>1. write_pos < Size
      BY <1>0, <2>1, RingAssumption DEF TickCheck, At, RingTypes, PositionInv
    <3>2. ~FullUnseen
      BY <2>1, NothingNoted DEF TickCheck
    <3> QED BY <2>1, <3>1, <3>2, RoomIsLeft DEF TickCheck, At
  <2>2. CASE Quiet /\ ~TickCheck
    <3>1. \/ pc' = pc \/ pc' \notin {"load", "bump", "store"}
          \/ pc \in {"load", "bump"}
      BY <2>2 DEF Quiet, StepWithoutTick, TickOverrun, TickLoad, TickBump, TickWrap,
                  NothingToRead, ReadMove, ReadWrap, IsrOverrun, At
    <3> QED BY <1>0, <3>1 DEF RoomInv
  <2> QED BY <2>1, <2>2
<1> QED BY <1>0, <1>1, <1>2, <1>3, <1>4, QuietStep

\* A ring that is spoilt stays so.
LEMMA SpoiltForEver ==
  ASSUME [Next]_ringVars, spoilt' = {}
  PROVE  spoilt = {}
<1>1. spoilt' = spoilt \/ Note
  BY DEF ringVars, Next, LoopStep, StepWithoutTick, TickOverrun, TickCheck, TickLoad, TickBump,
         TickStore, TickWrap, NothingToRead, ReadBump, ReadMove, ReadWrap, IsrFire, IsrOverrun
<1>2. Note => spoilt \subseteq spoilt'
  BY DEF Note
<1> QED BY <1>1, <1>2

\* Every step that does not spoil the ring keeps the invariant, and is a step
\* of EventFifo or none of its business.
LEMMA RingNext ==
  ASSUME RingInv, spoilt' = {}, [Next]_ringVars
  PROVE  RingInv' /\ [Fifo!Next]_<<Waiting, Got>>
<1>1. CASE UNCHANGED ringVars
  BY <1>1 DEF ringVars, RingInv, RingTypes, PositionInv, RoomInv, WriteIndex, ReadIndex,
              Waiting, Got
<1>2. CASE Quiet
  BY <1>2, QuietSteps
<1>3. CASE TickStore
  BY <1>3, TickStoreStep DEF Fifo!Next
<1>4. CASE ReadBump
  BY <1>4, ReadStep DEF Fifo!Next
<1>5. CASE \E ev \in IsrEvent : IsrFire(ev)
  <2>1. PICK ev \in IsrEvent : IsrFire(ev)
    BY <1>5
  <2> QED BY <2>1, IsrFireStep DEF Fifo!Next
<1> QED BY <1>1, <1>2, <1>3, <1>4, <1>5 DEF Next, LoopStep, Quiet

\* The initial state satisfies the invariant, and is that of EventFifo.
LEMMA RingInit ==
  ASSUME Init
  PROVE  RingInv /\ Fifo!Init
<1>1. 0 % Size = 0 /\ 0 \in 0 .. Size - 1
  BY SlotIs, RingAssumption
<1>2. ReadIndex = 0 /\ WriteIndex = 0
  BY <1>1 DEF Init, ReadIndex, WriteIndex
<1>3. RingTypes /\ PositionInv
  BY <1>1, RingAssumption DEF Init, RingTypes, PositionInv
<1>4. RoomInv
  <2>1. ReadIndex + unread = 0 /\ unread = 0 /\ 0 < Size - 1
    BY <1>2, RingAssumption DEF Init
  <2> QED BY <1>1, <1>2, <2>1 DEF RoomInv
<1>5. Ring(event_queue, ReadIndex, unread) = <<>>
  BY DEF Init, Ring
<1>6. RingInv
  <2>1. Ring(event_queue, ReadIndex, unread) \in Seq(Event)
    BY <1>5
  <2> QED BY <1>3, <1>4, <2>1 DEF Init, RingInv
<1>7. Waiting = <<>> /\ Got = Nothing
  BY <1>5, <1>6, RingFacts DEF Init, Got
<1> QED BY <1>6, <1>7 DEF Fifo!Init

-----------------------------------------------------------------------------
\* The inductive invariant: up to the first mishap, the ring is in order.
UntilSpoilt == spoilt = {} => RingInv

\* At every memory access of the loop, with interrupts at any of them, the
\* ring is in order or one of the two mishaps has happened.
THEOREM RingInvariant == Spec => []UntilSpoilt
<1>1. Init => UntilSpoilt
  BY RingInit DEF UntilSpoilt
<1>2. UntilSpoilt /\ [Next]_ringVars => UntilSpoilt'
  BY RingNext, SpoiltForEver DEF UntilSpoilt
<1> QED BY <1>1, <1>2, PTL DEF Spec

\* The ring of process_events() and fire_event() implements the FIFO of
\* Size - 1 events until it is spoilt: nothing is lost, reordered or
\* overwritten, whatever interrupts strike while an event is read, unless one
\* strikes within the fire_event() of the loop or the ring fills up while
\* read_pos is 0.
THEOREM RingIsFifo == Spec => FifoUntilSpoilt
<1>1. Init => Fifo!Init
  BY RingInit
<1>2. UntilSpoilt /\ [Next]_ringVars => [Fifo!Next \/ spoilt' # {}]_<<Waiting, Got>>
  BY RingNext, SpoiltForEver DEF UntilSpoilt
<1> QED BY <1>1, <1>2, RingInvariant, PTL DEF Spec, FifoUntilSpoilt

\* Until the ring is spoilt, an overrun is reported only when it holds Size - 1
\* events.
THEOREM OverrunOnlyWhenFull == Spec => OverrunMeansFull
<1>1. UntilSpoilt /\ [Next]_ringVars
        => (reports' # reports => Len(Waiting) = Size - 1 \/ spoilt' # {})
  <2> SUFFICES ASSUME UntilSpoilt, Next, reports' # reports, spoilt' = {}
               PROVE  Len(Waiting) = Size - 1
    BY DEF ringVars
  <2>1. RingInv
    BY SpoiltForEver DEF UntilSpoilt
  <2>2. TickOverrun \/ IsrOverrun
    BY DEF Next, LoopStep, StepWithoutTick, TickCheck, TickLoad, TickBump, TickStore, TickWrap,
           NothingToRead, ReadBump, ReadMove, ReadWrap, IsrFire
  <2>3. Overrun /\ pc \notin {"store", "wrap"}
    BY <2>2, NothingNoted DEF TickOverrun, IsrOverrun, At, InFire
  <2>4. write_pos < Size
    BY <2>1, <2>3, RingAssumption DEF RingInv, RingTypes, PositionInv
  <2> QED BY <2>1, <2>3, <2>4, OverrunIsFull, RingFacts
<1> QED BY <1>1, RingInvariant, PTL DEF Spec, OverrunMeansFull

\* An event that was accepted is missing in the ring only after one of the two
\* mishaps: there is no third way to lose one.
THEOREM AcceptedEventsAreKept ==
  Spec => [](AcceptedEventsAreInTheRing \/ spoilt # {})
<1>1. UntilSpoilt => AcceptedEventsAreInTheRing \/ spoilt # {}
  BY RingFacts DEF AcceptedEventsAreInTheRing, UntilSpoilt
<1> QED BY <1>1, RingInvariant, PTL
=============================================================================
