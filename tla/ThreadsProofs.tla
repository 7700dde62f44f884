---------------------------- MODULE ThreadsProofs ---------------------------
(***************************************************************************)
(* First the linked queue of include/lib/queue.hpp: add() appends and      *)
(* remove() takes the first element, for every set of elements and every   *)
(* queue that represents a sequence of them.                               *)
(*                                                                         *)
(* Then the scheduler of Threads for any number of threads, any set of     *)
(* creators and any number of thread ids, as long as the timer does not    *)
(* strike inside create(): the inductive invariant SchedulerInv, the       *)
(* properties it implies, and that every step is a step of RoundRobin.     *)
(***************************************************************************)
EXTENDS Threads, SequenceTheorems, TLAPS

-----------------------------------------------------------------------------
(* The queue.                                                              *)

\* Elements of a sequence are elements of the set it ranges over.
LEMMA ElementsType ==
  ASSUME NEW S, NEW s \in Seq(S)
  PROVE  Elements(s) \subseteq S
BY DEF Elements

\* Appending adds one element.
LEMMA ElementsAppend ==
  ASSUME NEW S, NEW s \in Seq(S), NEW y \in S
  PROVE  Elements(Append(s, y)) = Elements(s) \cup {y}
<1> DEFINE r == Append(s, y)
<1>1. /\ r \in Seq(S) /\ Len(r) = Len(s) + 1 /\ Len(s) \in Nat
      /\ \A i \in 1 .. Len(s) : r[i] = s[i]
      /\ r[Len(s) + 1] = y
  OBVIOUS
<1>2. Elements(r) \subseteq Elements(s) \cup {y}
  <2>1. SUFFICES ASSUME NEW i \in 1 .. Len(r) PROVE r[i] \in Elements(s) \cup {y}
    BY DEF Elements
  <2>2. CASE i \in 1 .. Len(s)  BY <1>1, <2>2 DEF Elements
  <2>3. CASE i = Len(s) + 1     BY <1>1, <2>3
  <2> QED BY <1>1, <2>2, <2>3
<1>3. Elements(s) \subseteq Elements(r)
  BY <1>1 DEF Elements
<1>4. y \in Elements(r)
  <2>1. Len(s) + 1 \in 1 .. Len(r)  BY <1>1
  <2> QED BY <1>1, <2>1 DEF Elements
<1> QED BY <1>2, <1>3, <1>4

\* Taking the head of a sequence without repetitions removes one element.
LEMMA ElementsTail ==
  ASSUME NEW S, NEW s \in Seq(S), s # <<>>,
         \A i, j \in 1 .. Len(s) : s[i] = s[j] => i = j
  PROVE  /\ Head(s) \in Elements(s)
         /\ Elements(Tail(s)) = Elements(s) \ {Head(s)}
<1> DEFINE r == Tail(s)
<1>1. /\ r \in Seq(S) /\ Len(s) \in Nat /\ Len(s) >= 1 /\ Len(r) = Len(s) - 1
      /\ \A i \in 1 .. Len(r) : r[i] = s[i + 1]
      /\ Head(s) = s[1]
  OBVIOUS
<1>2. Head(s) \in Elements(s)
  <2>1. 1 \in 1 .. Len(s)  BY <1>1
  <2> QED BY <1>1, <2>1 DEF Elements
<1>3. Elements(r) \subseteq Elements(s) \ {Head(s)}
  <2>1. SUFFICES ASSUME NEW i \in 1 .. Len(r)
                 PROVE  r[i] \in Elements(s) /\ r[i] # s[1]
    BY <1>1 DEF Elements
  <2>2. i + 1 \in 1 .. Len(s) /\ 1 \in 1 .. Len(s) /\ i + 1 # 1  BY <1>1
  <2> QED BY <1>1, <2>2 DEF Elements
<1>4. Elements(s) \ {Head(s)} \subseteq Elements(r)
  <2>1. SUFFICES ASSUME NEW i \in 1 .. Len(s), s[i] # s[1]
                 PROVE  s[i] \in Elements(r)
    BY <1>1 DEF Elements
  <2>2. i - 1 \in 1 .. Len(r) /\ (i - 1) + 1 = i  BY <1>1, <2>1
  <2>3. r[i - 1] = s[i]  BY <1>1, <2>2
  <2> QED BY <2>2, <2>3 DEF Elements
<1> QED BY <1>2, <1>3, <1>4

\* A new queue is the empty sequence.
THEOREM EmptyRepresents ==
  ASSUME NEW S, Null \notin S
  PROVE  Represents(EmptyQueue(S), <<>>, S)
BY DEF Represents, EmptyQueue, Queue, Link, Elements

\* The queue is empty for peek() exactly when the sequence is.
LEMMA PeekRepresents ==
  ASSUME NEW S, Null \notin S, NEW q, NEW s, Represents(q, s, S)
  PROVE  /\ Peek(q) = Null <=> s = <<>>
         /\ s # <<>> => Peek(q) = Head(s) /\ Head(s) \in S
<1>1. s \in Seq(S) /\ q.head = IF s = <<>> THEN Null ELSE s[1]
  BY DEF Represents
<1>2. s # <<>> => s[1] \in S /\ Head(s) = s[1]
  BY <1>1
<1> QED BY <1>1, <1>2 DEF Peek

\* add() does not panic on an element that is not queued, and appends it;
\* the two stores it makes are those of LinkLast and SetTail.
THEOREM AddRepresents ==
  ASSUME NEW S, Null \notin S, NEW q, NEW s, Represents(q, s, S),
         NEW y \in S, y \notin Elements(s)
  PROVE  /\ ~AddPanics(q, y)
         /\ Represents(Add(q, y), Append(s, y), S)
<1> DEFINE r == Append(s, y)
           p == Add(q, y)
<1>1. q \in Queue(S) /\ s \in Seq(S) /\ Len(s) \in Nat /\ q.next \in [S -> Link(S)]
  BY DEF Represents, Queue
<1>2. /\ r \in Seq(S) /\ Len(r) = Len(s) + 1 /\ r # <<>>
      /\ \A i \in 1 .. Len(s) : r[i] = s[i] /\ s[i] \in S
      /\ r[Len(s) + 1] = y
  BY <1>1
<1>3. ~AddPanics(q, y)
  BY DEF Represents, AddPanics
<1>4. \A i, j \in 1 .. Len(r) : r[i] = r[j] => i = j
  <2>1. SUFFICES ASSUME NEW i \in 1 .. Len(r), NEW j \in 1 .. Len(r), r[i] = r[j]
                 PROVE  i = j
    OBVIOUS
  <2>2. CASE i \in 1 .. Len(s) /\ j \in 1 .. Len(s)
    BY <1>2, <2>1, <2>2 DEF Represents
  <2>3. \A k \in 1 .. Len(s) : r[k] # y
    BY <1>2 DEF Elements
  <2>4. CASE i = Len(s) + 1 \/ j = Len(s) + 1
    BY <1>1, <1>2, <2>1, <2>3, <2>4
  <2> QED BY <1>1, <1>2, <2>2, <2>4
<1>5. CASE s = <<>>
  <2>1. q.head = Null /\ q.tail = Null /\ Len(s) = 0 /\ Elements(s) = {}
    BY <1>5 DEF Represents, Elements
  <2>2. p = [q EXCEPT !.head = y, !.tail = y]
    BY <1>1, <2>1 DEF Add, LinkLast, SetTail
  <2>3. p \in Queue(S) /\ p.head = y /\ p.tail = y /\ p.next = q.next
    BY <1>1, <2>2 DEF Queue, Link
  <2>4. \A n \in S : q.next[n] = Null
    BY <2>1 DEF Represents
  <2>5. r[1] = y /\ Len(r) = 1
    BY <1>2, <2>1
  <2>6. /\ p.head = IF r = <<>> THEN Null ELSE r[1]
        /\ p.tail = IF r = <<>> THEN Null ELSE r[Len(r)]
    BY <1>2, <2>3, <2>5
  <2>7. \A i \in 1 .. Len(r) : p.next[r[i]] = IF i < Len(r) THEN r[i + 1] ELSE Null
    BY <2>3, <2>4, <2>5
  <2>8. \A n \in S \ Elements(r) : p.next[n] = Null
    BY <2>3, <2>4
  <2> QED BY <1>2, <1>3, <1>4, <2>3, <2>6, <2>7, <2>8 DEF Represents
<1>6. CASE s # <<>>
  <2> DEFINE t == s[Len(s)]
  <2>1. /\ Len(s) \in 1 .. Len(s) /\ 1 \in 1 .. Len(s)
        /\ t \in S /\ q.tail = t /\ t # Null /\ q.head = s[1]
    BY <1>1, <1>2, <1>6 DEF Represents
  <2>2. p = [q EXCEPT !.next = [@ EXCEPT ![t] = y], !.tail = y]
    BY <1>1, <2>1 DEF Add, LinkLast, SetTail, Queue
  <2>3. /\ p \in Queue(S) /\ p.head = q.head /\ p.tail = y
        /\ p.next = [q.next EXCEPT ![t] = y]
    <3>1. [q.next EXCEPT ![t] = y] \in [S -> Link(S)]
      BY <1>1, <2>1 DEF Link
    <3>2. /\ p = [head |-> q.head, tail |-> y, next |-> [q.next EXCEPT ![t] = y]]
          /\ q.head \in Link(S)
      BY <1>1, <2>2 DEF Queue
    <3>3. y \in Link(S)
      BY DEF Link
    <3> HIDE DEF p, t
    <3> QED BY <3>1, <3>2, <3>3 DEF Queue
  <2>4. /\ p.head = IF r = <<>> THEN Null ELSE r[1]
        /\ p.tail = IF r = <<>> THEN Null ELSE r[Len(r)]
    BY <1>2, <2>1, <2>3
  <2>5. \A i \in 1 .. Len(r) : p.next[r[i]] = IF i < Len(r) THEN r[i + 1] ELSE Null
    <3>1. SUFFICES ASSUME NEW i \in 1 .. Len(r)
                   PROVE  p.next[r[i]] = IF i < Len(r) THEN r[i + 1] ELSE Null
      OBVIOUS
    <3>2. CASE i \in 1 .. Len(s) /\ i # Len(s)
      <4>1. s[i] # t  BY <2>1, <3>2 DEF Represents
      <4>2. q.next[s[i]] = s[i + 1]  BY <1>1, <3>2 DEF Represents
      <4>3. r[i] = s[i] /\ s[i] \in S /\ r[i + 1] = s[i + 1] /\ i < Len(r)
        BY <1>1, <1>2, <3>2
      <4> QED BY <1>1, <2>3, <4>1, <4>2, <4>3
    <3>3. CASE i = Len(s)
      <4>1. r[i] = t /\ r[i + 1] = y /\ i < Len(r)  BY <1>1, <1>2, <2>1, <3>3
      <4> QED BY <1>1, <2>1, <2>3, <4>1
    <3>4. CASE i = Len(s) + 1
      <4>1. r[i] = y /\ i = Len(r)  BY <1>2, <3>4
      <4>2. q.next[y] = Null  BY DEF Represents
      <4>3. y # t  BY <2>1 DEF Elements
      <4> QED BY <1>1, <2>3, <4>1, <4>2, <4>3
    <3> QED BY <1>1, <1>2, <3>2, <3>3, <3>4
  <2>6. \A n \in S \ Elements(r) : p.next[n] = Null
    <3>1. Elements(r) = Elements(s) \cup {y}  BY <1>1, ElementsAppend
    <3>2. t \in Elements(s)  BY <2>1 DEF Elements
    <3> QED BY <1>1, <2>3, <3>1, <3>2 DEF Represents
  <2> QED BY <1>2, <1>3, <1>4, <2>3, <2>4, <2>5, <2>6 DEF Represents
<1> QED BY <1>5, <1>6

\* remove() takes the first element and leaves a queue of the others, in
\* which the removed element carries no link and so can be added again.
THEOREM RemoveRepresents ==
  ASSUME NEW S, Null \notin S, NEW q, NEW s, Represents(q, s, S), s # <<>>
  PROVE  /\ Peek(q) = Head(s)
         /\ Represents(Remove(q), Tail(s), S)
<1> DEFINE r == Tail(s)
           p == Remove(q)
           h == s[1]
<1>1. q \in Queue(S) /\ s \in Seq(S) /\ q.next \in [S -> Link(S)]
  BY DEF Represents, Queue
<1>2. /\ r \in Seq(S) /\ Len(s) \in Nat /\ Len(s) >= 1 /\ Len(r) = Len(s) - 1
      /\ \A i \in 1 .. Len(r) : r[i] = s[i + 1]
      /\ \A i \in 1 .. Len(s) : s[i] \in S
      /\ Head(s) = h
      /\ 1 \in 1 .. Len(s)
  BY <1>1
<1>3. q.head = h /\ h \in S /\ h # Null
  BY <1>2 DEF Represents
<1>4. q.next[h] = IF 1 < Len(s) THEN s[2] ELSE Null
  <2>1. q.next[s[1]] = IF 1 < Len(s) THEN s[1 + 1] ELSE Null
    BY <1>2 DEF Represents
  <2> QED BY <2>1
<1>5. Elements(r) = Elements(s) \ {h}
  <2>1. \A i, j \in 1 .. Len(s) : s[i] = s[j] => i = j  BY DEF Represents
  <2> QED BY <1>1, <1>2, <2>1, ElementsTail
<1>6. /\ p.head = q.next[h]
      /\ p.tail = IF q.next[h] = Null THEN Null ELSE q.tail
      /\ p.next = [q.next EXCEPT ![h] = Null]
      /\ p \in Queue(S)
  BY <1>1, <1>3 DEF Remove, Queue, Link
<1>7. \A i, j \in 1 .. Len(r) : r[i] = r[j] => i = j
  <2>1. SUFFICES ASSUME NEW i \in 1 .. Len(r), NEW j \in 1 .. Len(r), r[i] = r[j]
                 PROVE  i = j
    OBVIOUS
  <2>2. i + 1 \in 1 .. Len(s) /\ j + 1 \in 1 .. Len(s) /\ s[i + 1] = s[j + 1]
    BY <1>2, <2>1
  <2>3. i + 1 = j + 1  BY <2>2 DEF Represents
  <2> QED BY <2>3
<1>8. /\ p.head = IF r = <<>> THEN Null ELSE r[1]
      /\ p.tail = IF r = <<>> THEN Null ELSE r[Len(r)]
  <2>1. CASE Len(s) = 1
    <3>1. r = <<>> /\ q.next[h] = Null
      <4>1. Len(r) = 0 /\ ~(1 < Len(s))  BY <1>2, <2>1
      <4>2. r = <<>>
        <5> HIDE DEF r
        <5> QED BY <1>2, <4>1, EmptySeq
      <4> HIDE DEF r
      <4> QED BY <1>4, <4>1, <4>2
    <3> HIDE DEF p, r
    <3> QED BY <1>6, <3>1
  <2>2. CASE Len(s) > 1
    <3>1. s[2] \in S /\ s[2] # Null /\ r[1] = s[2] /\ r # <<>> /\ r[Len(r)] = s[Len(s)]
      <4>1. 2 \in 1 .. Len(s) /\ 1 \in 1 .. Len(r) /\ Len(r) \in 1 .. Len(r)
        BY <1>2, <2>2
      <4>2. s[2] \in S  BY <1>2, <4>1
      <4>3. r[1] = s[1 + 1] /\ r[Len(r)] = s[Len(r) + 1]
        <5> HIDE DEF r
        <5> QED BY <1>2, <4>1
      <4>4. r # <<>>  BY <1>2, <2>2
      <4>5. Len(r) + 1 = Len(s)  BY <1>2
      <4> HIDE DEF r
      <4> QED BY <4>2, <4>3, <4>4, <4>5
    <3>2. q.tail = s[Len(s)]  BY DEF Represents
    <3> QED BY <1>4, <1>6, <2>2, <3>1, <3>2
  <2> QED BY <1>2, <2>1, <2>2
<1>9. \A i \in 1 .. Len(r) : p.next[r[i]] = IF i < Len(r) THEN r[i + 1] ELSE Null
  <2>1. SUFFICES ASSUME NEW i \in 1 .. Len(r)
                 PROVE  p.next[r[i]] = IF i < Len(r) THEN r[i + 1] ELSE Null
    OBVIOUS
  <2>2. i + 1 \in 1 .. Len(s) /\ i + 1 # 1 /\ r[i] = s[i + 1] /\ s[i + 1] \in S
    BY <1>2
  <2>3. s[i + 1] # h  BY <1>2, <2>2 DEF Represents
  <2>4. q.next[s[i + 1]] = IF i + 1 < Len(s) THEN s[(i + 1) + 1] ELSE Null
    BY <2>2 DEF Represents
  <2>5. i < Len(r) => i + 1 \in 1 .. Len(r) /\ r[i + 1] = s[(i + 1) + 1] /\ i + 1 < Len(s)
    BY <1>2
  <2>6. ~(i < Len(r)) => ~(i + 1 < Len(s))
    BY <1>2
  <2>7. p.next[r[i]] = q.next[s[i + 1]]
    BY <1>1, <1>3, <1>6, <2>2, <2>3
  <2> QED BY <2>4, <2>5, <2>6, <2>7
<1>10. \A n \in S \ Elements(r) : p.next[n] = Null
  BY <1>1, <1>3, <1>5, <1>6 DEF Represents
<1> QED BY <1>2, <1>3, <1>6, <1>7, <1>8, <1>9, <1>10 DEF Represents, Peek

-----------------------------------------------------------------------------
(* The scheduler.                                                          *)

\* Facts about the slots that every step uses.
LEMMA SlotFacts == Main \in Slot /\ Null \notin Slot /\ Slot \subseteq Nat
BY ThreadsAssumption DEF Slot, Main

\* Kept out of create(), the queue is the waiting line itself.
LEMMA QueueOutsideAdd ==
  ASSUME SchedulerInv, live.pc # "set_tail"
  PROVE  /\ Represents(ready, order, Slot)
         /\ order \in Seq(Slot)
         /\ Peek(ready) = Null <=> order = <<>>
         /\ order # <<>> => Peek(ready) = Head(order) /\ Head(order) \in Slot
<1>1. Represents(ready, order, Slot)  BY DEF SchedulerInv, QueueIsOrder
<1>2. order \in Seq(Slot)             BY <1>1 DEF Represents
<1> QED BY <1>1, <1>2, PeekRepresents, SlotFacts

\* The running thread is not in the waiting line.
LEMMA RunningNotWaiting ==
  ASSUME SchedulerInv
  PROVE  running \in Slot /\ running \notin Elements(order)
BY DEF SchedulerInv, TypeOK, StatesMatchQueue

\* The initial state satisfies the invariant.
LEMMA InitInv == Init => SchedulerInv
<1> SUFFICES ASSUME Init PROVE SchedulerInv  OBVIOUS
<1> USE SlotFacts
<1>1. \A t \in Slot : Fresh(t) \in Context
  BY ThreadsAssumption DEF Fresh, Context, Link, Point
<1>2. Represents(ready, order, Slot)
  BY EmptyRepresents DEF Init
<1>3. ready \in Queue(Slot)
  BY <1>2 DEF Represents
<1>4. TypeOK
  <2>1. registers \in [Slot -> Context] /\ live \in Context
    BY <1>1 DEF Init
  <2>2. thread_id \in 0 .. MaxThreadId
    BY ThreadsAssumption DEF Init
  <2>3. state \in [Slot -> State] /\ running \in Slot /\ panicked \in BOOLEAN
    BY DEF Init, State
  <2>4. order \in Seq(Slot)
    BY EmptySeq DEF Init
  <2> QED BY <1>3, <2>1, <2>2, <2>3, <2>4 DEF TypeOK
<1>5. live.pc = "run" /\ live.stack = Main /\ ~Creating
  BY DEF Init, Fresh, Creating
<1>6. Elements(order) = {}
  BY DEF Init, Elements
<1>7. ContextsKept /\ (\A t \in Slot : state[t] = "running" <=> t = running)
  BY DEF Init, ContextsKept, Fresh
<1>8. QueueIsOrder
  BY <1>2, <1>5 DEF QueueIsOrder
<1>9. StatesMatchQueue /\ MainIsScheduled /\ NoPanic
  BY <1>5, <1>6 DEF Init, StatesMatchQueue, MainIsScheduled, NoPanic
<1>10. CreatorHolds
  BY <1>5 DEF Init, CreatorHolds, Fresh
<1> QED BY <1>4, <1>7, <1>8, <1>9, <1>10 DEF SchedulerInv

-----------------------------------------------------------------------------
\* Switching threads outside create() keeps the invariant, and is the
\* abstract switch.
LEMMA SwitchInv ==
  ASSUME SchedulerInv, live.pc = "run", SwitchThread
  PROVE  /\ SchedulerInv'
         /\ running' = Head(order)
         /\ order # <<>>
         /\ order' = Append(Tail(order), running)
<1> DEFINE queued == Add(ready, running)
           h      == Head(order)
           o2     == Append(order, running)
<1>0. TypeOK /\ ContextsKept /\ StatesMatchQueue /\ CreatorHolds /\ ~Creating
  BY DEF SchedulerInv, Creating
<1>1. /\ Represents(ready, order, Slot) /\ order \in Seq(Slot) /\ order # <<>>
      /\ running \in Slot /\ running \notin Elements(order) /\ h \in Slot
  BY QueueOutsideAdd, RunningNotWaiting DEF SwitchThread
<1>2. ~AddPanics(ready, running) /\ Represents(queued, o2, Slot)
  BY <1>1, AddRepresents, SlotFacts
<1>3. /\ o2 \in Seq(Slot) /\ o2 # <<>> /\ Head(o2) = h
      /\ Tail(o2) = Append(Tail(order), running)
  BY <1>1, HeadTailAppend, AppendProperties
<1>4. Peek(queued) = h /\ Represents(Remove(queued), Tail(o2), Slot)
  BY <1>2, <1>3, RemoveRepresents, SlotFacts
<1>5. h \in Elements(order) /\ h # running
  <2>1. \A i, j \in 1 .. Len(order) : order[i] = order[j] => i = j
    BY <1>1 DEF Represents
  <2> QED BY <1>1, <2>1, ElementsTail
<1>6. /\ panicked' = FALSE
      /\ state' = [state EXCEPT ![running] = "ready", ![h] = "running"]
      /\ registers' = [registers EXCEPT ![running] = live]
      /\ live' = registers[h]
      /\ running' = h
      /\ ready' = Remove(queued)
      /\ order' = Tail(o2)
      /\ UNCHANGED thread_id
  BY <1>2, <1>4, <1>5 DEF SwitchThread
<1>7. Represents(ready', order', Slot)
  BY <1>4, <1>6
<1>8. Elements(order') = (Elements(order) \cup {running}) \ {h}
  <2>1. Elements(o2) = Elements(order) \cup {running}
    BY <1>1, ElementsAppend
  <2>2. \A i, j \in 1 .. Len(o2) : o2[i] = o2[j] => i = j
    BY <1>2 DEF Represents
  <2>3. Elements(Tail(o2)) = Elements(o2) \ {Head(o2)}
    BY <1>3, <2>2, ElementsTail
  <2> QED BY <1>3, <1>6, <2>1, <2>3
<1>9. live'.pc = "run" /\ live'.stack = h /\ live' \in Context
  BY <1>0, <1>1, <1>6 DEF ContextsKept, CreatorHolds, TypeOK
<1>10. TypeOK'
  BY <1>0, <1>1, <1>6, <1>7, <1>9 DEF TypeOK, State, Represents
<1>11. ContextsKept'
  BY <1>0, <1>1, <1>6, <1>9 DEF ContextsKept, TypeOK
<1>12. \A t \in Slot : state'[t] = "running" <=> t = running'
  BY <1>0, <1>1, <1>5, <1>6 DEF SchedulerInv, TypeOK
<1>13. QueueIsOrder'
  BY <1>7, <1>9 DEF QueueIsOrder
<1>14. StatesMatchQueue'
  <2>1. ~Creating'  BY <1>9 DEF Creating
  <2>2. \A t \in Slot : state'[t] = "ready" <=> t \in Elements(order')
    BY <1>0, <1>1, <1>5, <1>6, <1>8 DEF StatesMatchQueue, TypeOK
  <2> QED BY <2>1, <2>2 DEF StatesMatchQueue
<1>15. CreatorHolds'
  <2>1. \A t \in Slot : registers'[t].pc = "run"
    BY <1>0, <1>1, <1>6 DEF CreatorHolds, TypeOK
  <2> QED BY <1>9, <2>1 DEF CreatorHolds, Creating
<1>16. MainIsScheduled' /\ NoPanic'
  BY <1>6, <1>8 DEF SchedulerInv, MainIsScheduled, NoPanic
<1> QED BY <1>1, <1>3, <1>6, <1>10, <1>11, <1>12, <1>13, <1>14, <1>15, <1>16
        DEF SchedulerInv

\* A terminating thread always finds another one: main waits.
LEMMA SomeoneWaits ==
  ASSUME SchedulerInv, WantsToEnd
  PROVE  running # Main /\ order # <<>> /\ Peek(ready) # Null
<1>1. live.pc # "set_tail" /\ running # Main
  BY DEF WantsToEnd, SchedulerInv, ContextsKept
<1>2. Main \in Elements(order)
  BY <1>1 DEF SchedulerInv, MainIsScheduled
<1>3. order # <<>>
  BY <1>2 DEF Elements
<1> QED BY <1>1, <1>3, QueueOutsideAdd

\* Ending a thread keeps the invariant, and is the abstract exit.
LEMMA TerminateInv ==
  ASSUME SchedulerInv, Terminate
  PROVE  /\ SchedulerInv'
         /\ running # Main
         /\ order # <<>>
         /\ running' = Head(order)
         /\ order' = Tail(order)
<1> DEFINE h == Head(order)
<1>0. /\ TypeOK /\ ContextsKept /\ StatesMatchQueue /\ CreatorHolds /\ ~Creating
      /\ live.pc = "run"
  BY DEF SchedulerInv, Creating, Terminate, WantsToEnd
<1>1. /\ Represents(ready, order, Slot) /\ order \in Seq(Slot) /\ order # <<>>
      /\ running \in Slot /\ running \notin Elements(order) /\ h \in Slot
      /\ Peek(ready) = h /\ Peek(ready) # Null
  BY <1>0, QueueOutsideAdd, RunningNotWaiting, SomeoneWaits DEF Terminate
<1>2. running # Main
  BY SomeoneWaits DEF Terminate
<1>3. Represents(Remove(ready), Tail(order), Slot)
  BY <1>1, RemoveRepresents, SlotFacts
<1>4. h \in Elements(order) /\ Elements(Tail(order)) = Elements(order) \ {h} /\ h # running
  <2>1. \A i, j \in 1 .. Len(order) : order[i] = order[j] => i = j
    BY <1>1 DEF Represents
  <2> QED BY <1>1, <2>1, ElementsTail
<1>5. /\ state' = [state EXCEPT ![running] = "empty", ![h] = "running"]
      /\ live' = registers[h]
      /\ running' = h
      /\ ready' = Remove(ready)
      /\ order' = Tail(order)
      /\ panicked' = FALSE
      /\ UNCHANGED <<registers, thread_id>>
  BY <1>1 DEF Terminate
<1>6. live'.pc = "run" /\ live'.stack = h /\ live' \in Context
  BY <1>0, <1>1, <1>5 DEF ContextsKept, CreatorHolds, TypeOK
<1>7. TypeOK'
  BY <1>0, <1>1, <1>3, <1>5, <1>6 DEF TypeOK, State, Represents
<1>8. ContextsKept'
  BY <1>0, <1>5, <1>6 DEF ContextsKept
<1>9. \A t \in Slot : state'[t] = "running" <=> t = running'
  BY <1>0, <1>1, <1>4, <1>5 DEF SchedulerInv, TypeOK
<1>10. QueueIsOrder'
  BY <1>3, <1>5, <1>6 DEF QueueIsOrder
<1>11. StatesMatchQueue'
  <2>1. ~Creating'  BY <1>6 DEF Creating
  <2>2. \A t \in Slot : state'[t] = "ready" <=> t \in Elements(order')
    BY <1>0, <1>1, <1>4, <1>5 DEF StatesMatchQueue, TypeOK
  <2> QED BY <2>1, <2>2 DEF StatesMatchQueue
<1>12. CreatorHolds'
  BY <1>0, <1>5, <1>6 DEF CreatorHolds, Creating
<1>13. MainIsScheduled' /\ NoPanic'
  BY <1>2, <1>4, <1>5 DEF SchedulerInv, MainIsScheduled, NoPanic
<1> QED BY <1>1, <1>2, <1>5, <1>7, <1>8, <1>9, <1>10, <1>11, <1>12, <1>13
        DEF SchedulerInv

-----------------------------------------------------------------------------
\* The steps of create() before its last one keep the invariant; they are
\* not visible in the waiting line.
LEMMA CreateBeginsInv ==
  ASSUME SchedulerInv, CreateScan \/ CreateInit \/ CreateTakeId
  PROVE  SchedulerInv' /\ UNCHANGED <<running, order>>
<1>0. /\ TypeOK /\ ContextsKept /\ StatesMatchQueue /\ CreatorHolds /\ QueueIsOrder
      /\ MainIsScheduled /\ NoPanic
      /\ \A t \in Slot : state[t] = "running" <=> t = running
  BY DEF SchedulerInv
<1>1. CASE CreateScan
  <2>1. PICK t \in EmptySlots : live' = [live EXCEPT !.pc = "init", !.block = t]
    BY <1>1 DEF CreateScan
  <2>2. t \in Slot /\ state[t] = "empty"
    BY <2>1 DEF EmptySlots
  <2>3. UNCHANGED <<state, registers, running, ready, thread_id, panicked, order>>
    BY <1>1 DEF CreateScan
  <2>4. live' \in Context /\ live'.pc = "init" /\ live'.block = t /\ live'.stack = live.stack
    BY <1>0, <2>1, <2>2 DEF TypeOK, Context, Point, Link
  <2>5. live.pc = "run"
    BY <1>1 DEF CreateScan
  <2> QED
    BY <1>0, <2>2, <2>3, <2>4, <2>5
    DEF SchedulerInv, TypeOK, ContextsKept, QueueIsOrder, StatesMatchQueue,
        CreatorHolds, MainIsScheduled, NoPanic, Creating
<1>2. CASE CreateInit
  <2> DEFINE b == live.block
  <2>1. live.pc = "init" /\ b \in Slot /\ state[b] = "empty"
    BY <1>0, <1>2 DEF CreateInit, At, CreatorHolds
  <2>2. b \notin Elements(order) /\ b # running
    BY <1>0, <2>1 DEF StatesMatchQueue, TypeOK
  <2>3. Represents(ready, order, Slot) /\ ready.next \in [Slot -> Link(Slot)]
    BY <2>1, QueueOutsideAdd DEF Represents, Queue
  <2>4. ready.next[b] = Null
    BY <2>1, <2>2, <2>3 DEF Represents
  <2>5. ready' = ready
    <3>1. [ready.next EXCEPT ![b] = Null] = ready.next
      BY <2>1, <2>3, <2>4
    <3>2. ready' = [ready EXCEPT !.next = [ready.next EXCEPT ![b] = Null]]
      BY <1>2 DEF CreateInit
    <3> HIDE DEF b
    <3> QED BY <2>3, <3>1, <3>2 DEF Represents, Queue
  <2>6. Fresh(b) \in Context /\ Fresh(b).pc = "run" /\ Fresh(b).stack = b
    BY <2>1, ThreadsAssumption DEF Fresh, Context, Link, Point
  <2>7. /\ registers' = [registers EXCEPT ![b] = Fresh(b)]
        /\ state' = [state EXCEPT ![b] = "ready"]
        /\ UNCHANGED <<running, thread_id, panicked, order>>
    BY <1>2 DEF CreateInit, StartContext
  <2>8. /\ live' \in Context /\ live'.pc = "take_id" /\ live'.block = b
        /\ live'.stack = live.stack
    BY <1>0, <1>2 DEF CreateInit, TypeOK, Context, Point
  <2> HIDE DEF b
  <2>9. TypeOK'
    BY <1>0, <2>1, <2>5, <2>6, <2>7, <2>8 DEF TypeOK, State
  <2>10. ContextsKept' /\ CreatorHolds'
    BY <1>0, <2>1, <2>2, <2>6, <2>7, <2>8 DEF TypeOK, ContextsKept, CreatorHolds, Creating
  <2>11. \A t \in Slot : state'[t] = "running" <=> t = running'
    BY <1>0, <2>1, <2>2, <2>7 DEF TypeOK
  <2>12. QueueIsOrder'
    BY <2>3, <2>5, <2>7, <2>8 DEF QueueIsOrder
  <2>13. StatesMatchQueue'
    BY <1>0, <2>1, <2>2, <2>7, <2>8 DEF TypeOK, StatesMatchQueue, Creating
  <2>14. MainIsScheduled' /\ NoPanic'
    BY <1>0, <2>7 DEF MainIsScheduled, NoPanic
  <2> QED
    BY <2>7, <2>9, <2>10, <2>11, <2>12, <2>13, <2>14 DEF SchedulerInv
<1>3. CASE CreateTakeId
  <2>1. UNCHANGED <<state, registers, running, ready, thread_id, panicked, order>>
    BY <1>3 DEF CreateTakeId
  <2>2. /\ live' \in Context /\ live.pc = "take_id" /\ live'.pc = "store_id"
        /\ live'.block = live.block /\ live'.stack = live.stack
    BY <1>0, <1>3 DEF CreateTakeId, At, TypeOK, Context, Point
  <2> QED
    BY <1>0, <2>1, <2>2
    DEF SchedulerInv, TypeOK, ContextsKept, QueueIsOrder, StatesMatchQueue,
        CreatorHolds, MainIsScheduled, NoPanic, Creating
<1> QED BY <1>1, <1>2, <1>3

LEMMA CreateEndsInv ==
  ASSUME SchedulerInv, CreateStoreId \/ CreateLoadTail \/ CreateLink
  PROVE  SchedulerInv' /\ UNCHANGED <<running, order>>
<1>0. /\ TypeOK /\ ContextsKept /\ StatesMatchQueue /\ CreatorHolds /\ QueueIsOrder
      /\ MainIsScheduled /\ NoPanic
      /\ \A t \in Slot : state[t] = "running" <=> t = running
  BY DEF SchedulerInv
<1>1. CASE CreateStoreId
  <2>1. UNCHANGED <<state, registers, running, ready, panicked, order>>
    BY <1>1 DEF CreateStoreId
  <2>2. /\ live' \in Context /\ live.pc = "store_id" /\ live'.pc = "add"
        /\ live'.block = live.block /\ live'.stack = live.stack
    BY <1>0, <1>1 DEF CreateStoreId, At, TypeOK, Context, Point
  <2>3. thread_id' \in 0 .. MaxThreadId
    <3>1. live.id \in 0 .. MaxThreadId
      BY <1>0 DEF TypeOK, Context
    <3>2. \A i \in 0 .. MaxThreadId : (i + 1) % (MaxThreadId + 1) \in 0 .. MaxThreadId
      BY ThreadsAssumption
    <3> QED BY <1>1, <3>1, <3>2 DEF CreateStoreId
  <2> QED
    BY <1>0, <2>1, <2>2, <2>3
    DEF SchedulerInv, TypeOK, ContextsKept, QueueIsOrder, StatesMatchQueue,
        CreatorHolds, MainIsScheduled, NoPanic, Creating
<1>2. CASE CreateLoadTail
  <2>1. UNCHANGED <<state, registers, running, ready, thread_id, order>>
    BY <1>2 DEF CreateLoadTail
  <2>2. live.pc = "add" /\ live.block \in Slot /\ live.block \notin Elements(order)
    BY <1>0, <1>2 DEF CreateLoadTail, At, CreatorHolds, Creating
  <2>3. ~AddPanics(ready, live.block)
    <3>1. Represents(ready, order, Slot)  BY <2>2, QueueOutsideAdd
    <3> QED BY <2>2, <3>1, AddRepresents, SlotFacts
  <2>4. panicked' = FALSE
    BY <1>2, <2>3 DEF CreateLoadTail
  <2>5. /\ live' \in Context /\ live'.pc = "link" /\ live'.tail = ready.tail
        /\ live'.block = live.block /\ live'.stack = live.stack
    BY <1>0, <1>2 DEF CreateLoadTail, TypeOK, Context, Point, Queue
  <2> QED
    BY <1>0, <2>1, <2>2, <2>4, <2>5
    DEF SchedulerInv, TypeOK, ContextsKept, QueueIsOrder, StatesMatchQueue,
        CreatorHolds, MainIsScheduled, NoPanic, Creating
<1>3. CASE CreateLink
  <2>1. UNCHANGED <<state, registers, running, thread_id, panicked, order>>
    BY <1>3 DEF CreateLink
  <2>2. /\ live.pc = "link" /\ live.block \in Slot /\ live.block \notin Elements(order)
        /\ live.tail = ready.tail
    BY <1>0, <1>3 DEF CreateLink, At, CreatorHolds, Creating
  <2>3. Represents(Add(ready, live.block), Append(order, live.block), Slot)
    <3>1. Represents(ready, order, Slot)  BY <2>2, QueueOutsideAdd
    <3> QED BY <2>2, <3>1, AddRepresents, SlotFacts
  <2>4. ready' = LinkLast(ready, ready.tail, live.block)
    BY <1>3, <2>2 DEF CreateLink
  <2>5. /\ live' \in Context /\ live'.pc = "set_tail"
        /\ live'.block = live.block /\ live'.stack = live.stack
    BY <1>0, <1>3 DEF CreateLink, TypeOK, Context, Point
  <2>6. Represents(SetTail(ready', live'.block), Append(order', live'.block), Slot)
    BY <2>1, <2>3, <2>4, <2>5 DEF Add
  <2>7. ready' \in Queue(Slot)
    BY <1>0, <2>2, <2>4 DEF LinkLast, Queue, Link, TypeOK
  <2> QED
    BY <1>0, <2>1, <2>2, <2>5, <2>6, <2>7
    DEF SchedulerInv, TypeOK, ContextsKept, QueueIsOrder, StatesMatchQueue,
        CreatorHolds, MainIsScheduled, NoPanic, Creating
<1> QED BY <1>1, <1>2, <1>3

\* The last step of create() keeps the invariant, and is the abstract spawn.
LEMMA CreateSetTailInv ==
  ASSUME SchedulerInv, CreateSetTail
  PROVE  /\ SchedulerInv'
         /\ live.block \in Slot \ (Elements(order) \cup {running})
         /\ order' = Append(order, live.block)
         /\ running' = running
<1> DEFINE b == live.block
<1>0. /\ TypeOK /\ ContextsKept /\ StatesMatchQueue /\ CreatorHolds /\ QueueIsOrder
      /\ MainIsScheduled /\ NoPanic
      /\ \A t \in Slot : state[t] = "running" <=> t = running
  BY DEF SchedulerInv
<1>1. live.pc = "set_tail" /\ Creating /\ b \in Slot /\ b \notin Elements(order)
  BY <1>0 DEF CreateSetTail, At, CreatorHolds, Creating
<1>2. b # running
  <2>1. state[b] = "ready"  BY <1>0, <1>1 DEF StatesMatchQueue
  <2> QED BY <1>0, <1>1, <2>1
<1>3. /\ ready' = SetTail(ready, b) /\ order' = Append(order, b)
      /\ UNCHANGED <<state, registers, running, thread_id, panicked>>
  BY DEF CreateSetTail
<1>4. Represents(ready', order', Slot)
  BY <1>0, <1>1, <1>3 DEF QueueIsOrder
<1>5. live' \in Context /\ live'.pc = "run" /\ live'.stack = live.stack
  <2>1. live \in Context
    BY <1>0 DEF TypeOK
  <2>2. live' = [stack |-> live.stack, pc |-> "run", block |-> Null, tail |-> Null, id |-> 0]
    BY <2>1 DEF CreateSetTail, Context
  <2>3. "run" \in Point /\ Null \in Link(Slot) /\ 0 \in 0 .. MaxThreadId
    BY ThreadsAssumption DEF Point, Link
  <2>4. live.stack \in Slot
    BY <2>1 DEF Context
  <2> QED BY <2>2, <2>3, <2>4 DEF Context
<1>6. Elements(order') = Elements(order) \cup {b}
  BY <1>0, <1>1, <1>3, ElementsAppend DEF TypeOK
<1> HIDE DEF b
<1>7. TypeOK'
  BY <1>0, <1>3, <1>4, <1>5 DEF TypeOK, Represents
<1>8. QueueIsOrder'
  BY <1>4, <1>5 DEF QueueIsOrder
<1>9. StatesMatchQueue' /\ MainIsScheduled'
  <2>1. ~Creating'  BY <1>5 DEF Creating
  <2>2. \A t \in Slot : state[t] = "ready" <=> t \in Elements(order) \/ t = b
    BY <1>0, <1>1 DEF StatesMatchQueue, b
  <2> QED BY <1>0, <1>3, <1>6, <2>1, <2>2 DEF StatesMatchQueue, MainIsScheduled
<1>10. ContextsKept' /\ CreatorHolds' /\ NoPanic'
  BY <1>0, <1>3, <1>5 DEF ContextsKept, CreatorHolds, NoPanic, Creating
<1>11. \A t \in Slot : state'[t] = "running" <=> t = running'
  BY <1>0, <1>3
<1> QED BY <1>1, <1>2, <1>3, <1>7, <1>8, <1>9, <1>10, <1>11 DEF SchedulerInv, b

-----------------------------------------------------------------------------
\* Every step keeps the invariant and is, in the waiting line, a step of
\* the abstract scheduler or no step at all.
LEMMA StepInv ==
  ASSUME ~TickInCreate, SchedulerInv, [Next]_vars
  PROVE  SchedulerInv' /\ [RR!Next]_<<running, order>>
<1>0. RR!Waiting = Elements(order)
  BY DEF RR!Waiting, Elements
<1>1. CASE UNCHANGED vars
  <2>1. UNCHANGED <<state, registers, running, ready, thread_id, live, panicked, order>>
    BY <1>1 DEF vars
  <2>2. SchedulerInv'
    BY <2>1 DEF SchedulerInv, TypeOK, ContextsKept, QueueIsOrder, StatesMatchQueue,
                CreatorHolds, MainIsScheduled, NoPanic, Creating
  <2> QED BY <2>1, <2>2
<1>2. CASE Tick \/ Yield
  <2>1. live.pc = "run" /\ (StayOnCpu \/ SwitchThread)
    BY <1>2 DEF Tick, Yield, YieldThread
  <2>2. CASE StayOnCpu
    BY <1>1, <2>2 DEF StayOnCpu
  <2>3. CASE SwitchThread
    <3>1. /\ SchedulerInv' /\ order # <<>>
          /\ running' = Head(order) /\ order' = Append(Tail(order), running)
      BY <2>1, <2>3, SwitchInv
    <3>2. RR!Switch
      BY <3>1 DEF RR!Switch
    <3> QED BY <3>1, <3>2 DEF RR!Next
  <2> QED BY <2>1, <2>2, <2>3
<1>3. CASE Terminate
  <2>1. /\ SchedulerInv' /\ running # Main /\ order # <<>>
        /\ running' = Head(order) /\ order' = Tail(order)
    BY <1>3, TerminateInv
  <2>2. RR!Exit
    BY <2>1 DEF RR!Exit
  <2> QED BY <2>1, <2>2 DEF RR!Next
<1>4. CASE CreateScan \/ CreateInit \/ CreateTakeId
  BY <1>4, CreateBeginsInv
<1>5. CASE CreateStoreId \/ CreateLoadTail \/ CreateLink
  BY <1>5, CreateEndsInv
<1>6. CASE CreateSetTail
  <2>1. /\ SchedulerInv' /\ live.block \in Slot \ (Elements(order) \cup {running})
        /\ order' = Append(order, live.block) /\ running' = running
    BY <1>6, CreateSetTailInv
  <2>2. RR!Spawn
    BY <1>0, <2>1 DEF RR!Spawn
  <2> QED BY <2>1, <2>2 DEF RR!Next
<1> QED BY <1>1, <1>2, <1>3, <1>4, <1>5, <1>6 DEF Next, CreateStep

\* SchedulerInv holds in every reachable state: the control blocks, the
\* ready queue, the saved contexts and the processor agree in every step.
THEOREM SchedulerInvariant ==
  ASSUME ~TickInCreate
  PROVE  Spec => []SchedulerInv
<1>1. Init => SchedulerInv
  BY InitInv
<1>2. SchedulerInv /\ [Next]_vars => SchedulerInv'
  BY StepInv
<1> QED BY <1>1, <1>2, PTL DEF Spec

\* The variables of the scheduler keep their types.
THEOREM TypeCorrect ==
  ASSUME ~TickInCreate
  PROVE  Spec => []TypeOK
<1>1. SchedulerInv => TypeOK
  BY DEF SchedulerInv
<1> QED BY <1>1, SchedulerInvariant, PTL

\* The intrusive ready queue of queue.hpp is the FIFO of the waiting
\* threads, which are the threads marked ready.
THEOREM QueueCorrect ==
  ASSUME ~TickInCreate
  PROVE  Spec => [](QueueIsOrder /\ StatesMatchQueue)
<1>1. SchedulerInv => QueueIsOrder /\ StatesMatchQueue
  BY DEF SchedulerInv
<1> QED BY <1>1, SchedulerInvariant, PTL

\* Each thread runs on its own stack and is the only one marked running.
THEOREM ContextsCorrect ==
  ASSUME ~TickInCreate
  PROVE  Spec => [](ContextsKept /\ OneRunning)
<1>1. SchedulerInv => ContextsKept /\ OneRunning
  BY DEF SchedulerInv, OneRunning
<1> QED BY <1>1, SchedulerInvariant, PTL

\* The scheduler does not panic: no element is queued twice and a thread
\* that ends always leaves another one to run.
THEOREM NeverPanics ==
  ASSUME ~TickInCreate
  PROVE  Spec => []NoPanic
<1>1. SchedulerInv => NoPanic
  BY DEF SchedulerInv
<1> QED BY <1>1, SchedulerInvariant, PTL

\* The scheduler with its control blocks, contexts and linked queue
\* implements the safety part of RoundRobin.
THEOREM ImplementsRoundRobin ==
  ASSUME ~TickInCreate
  PROVE  Spec => RR!Safety
<1>1. Init => RR!Init
  BY DEF Init, RR!Init
<1>2. SchedulerInv /\ [Next]_vars => [RR!Next]_<<running, order>>
  BY StepInv
<1>3. SchedulerInv /\ [Next]_vars => [RR!Next]_(RR!rrVars)
  BY <1>2 DEF RR!rrVars
<1> QED BY <1>1, <1>3, SchedulerInvariant, PTL DEF Spec, RR!Safety
=============================================================================
