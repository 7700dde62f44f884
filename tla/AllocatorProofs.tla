--------------------------- MODULE AllocatorProofs --------------------------
(***************************************************************************)
(* Proofs about Allocator for every size of the array, of its headers, of  *)
(* the alignment and of the word, and every set of requests that           *)
(* AllocatorAssumption allows.  First the walk along the list: From is a    *)
(* recursive function, unfolded by induction, and what the search finds.   *)
(* Then what splitting and merging do to the blocks, one lemma for each    *)
(* branch of malloc() and free(), the properties, and that Heap is         *)
(* implemented.                                                            *)
(***************************************************************************)
EXTENDS Allocator, FiniteSetTheorems, SequenceTheorems, WellFoundedInduction, TLAPS

\* A set of numbers that is not empty has a least element.
LEMMA Least ==
  ASSUME NEW T, T \subseteq Nat, T # {}
  PROVE  \E x \in T : \A y \in T : x <= y
<1> DEFINE R == OpToRel(<, Nat)
<1>1. \A x, y \in Nat : x < y => <<x, y>> \in R
  BY DEF OpToRel
<1>2. IsWellFoundedOn(R, Nat)
  BY NatLessThanWellFounded
<1> HIDE DEF R
<1>3. \E x \in T : \A y \in T : ~ (<<y, x>> \in R)
  BY <1>2, WFMin, Zenon
<1>4. PICK x \in T : \A y \in T : ~ (<<y, x>> \in R)
  BY <1>3
<1>5. \A y \in T : x <= y
  <2> TAKE y \in T
  <2>1. x \in Nat /\ y \in Nat OBVIOUS
  <2>2. ~ (y < x) BY <2>1, <1>1, <1>4
  <2> QED BY <2>1, <2>2
<1> QED BY <1>5

\* Induction up to m, for a set: what holds of 0 and, from n - 1, of n, holds
\* up to m.
LEMMA Induction ==
  ASSUME NEW S, NEW m \in Nat, 0 \in S,
         \A n \in 1 .. m : n - 1 \in S => n \in S
  PROVE  0 .. m \subseteq S
<1> DEFINE T == (0 .. m) \ S
<1>1. SUFFICES ASSUME T # {} PROVE FALSE
  OBVIOUS
<1>2. T \subseteq Nat
  OBVIOUS
<1>3. PICK x \in T : \A y \in T : x <= y
  <2> HIDE DEF T
  <2> QED BY <1>1, <1>2, Least
<1>4. x \in 1 .. m /\ x - 1 \in S
  BY <1>3
<1> QED BY <1>3, <1>4

\* A function can be iterated m times from any point: the values on the way
\* make a function.  With it a recursive function can be unfolded.
LEMMA Iterates ==
  ASSUME NEW X, NEW x0 \in X, NEW step \in [X -> X], NEW m \in Nat
  PROVE  \E w \in [0 .. m -> X] :
           w[0] = x0 /\ \A n \in 1 .. m : w[n] = step[w[n - 1]]
<1> DEFINE Path(w, k) == /\ w \in [0 .. k -> X]
                         /\ w[0] = x0
                         /\ \A n \in 1 .. k : w[n] = step[w[n - 1]]
           S == {k \in 0 .. m : \E w : Path(w, k)}
<1>1. 0 \in S
  <2>1. Path([n \in 0 .. 0 |-> x0], 0) OBVIOUS
  <2> HIDE DEF Path
  <2>2. \E w : Path(w, 0) BY <2>1
  <2> QED BY <2>2
<1>2. ASSUME NEW k \in 1 .. m, k - 1 \in S PROVE k \in S
  <2>1. PICK w : Path(w, k - 1)
    <3> HIDE DEF Path
    <3> QED BY <1>2
  <2> DEFINE v == [n \in 0 .. k |-> IF n = k THEN step[w[k - 1]] ELSE w[n]]
  <2>2. Path(v, k)
    <3>1. v \in [0 .. k -> X] /\ v[0] = x0
      BY <2>1
    <3>2. \A n \in 1 .. k : v[n] = step[v[n - 1]]
      BY <2>1
    <3> QED BY <3>1, <3>2
  <2> HIDE DEF Path, v
  <2>3. \E u : Path(u, k) BY <2>2
  <2> QED BY <2>3
<1>3. 0 .. m \subseteq S
  <2> HIDE DEF S
  <2> QED BY <1>1, <1>2, Induction
<1>4. PICK w : Path(w, m)
  <2> HIDE DEF Path
  <2>1. m \in S BY <1>3
  <2> QED BY <2>1
<1> QED BY <1>4

\* The fields of a block header.
Field == [next : Nat \cup {Null}, prev : Nat \cup {Null}, size : Nat, used : BOOLEAN]

\* The types of the heap: finitely many headers, one at the start of the array
\* and one at last_allocation.
HeapTypes ==
  /\ DOMAIN heap \subseteq Nat /\ IsFiniteSet(DOMAIN heap)
  /\ heap \in [DOMAIN heap -> Field]
  /\ MEMORY \in DOMAIN heap /\ last_allocation \in DOMAIN heap

\* next and prev lead to blocks, forward and back, and are each other's inverse.
Links ==
  \A a \in DOMAIN heap :
    /\ heap[a].next # Null =>
         /\ heap[a].next \in DOMAIN heap /\ a < heap[a].next
         /\ heap[heap[a].next].prev = a
    /\ heap[a].prev = Null <=> a = MEMORY
    /\ heap[a].prev # Null =>
         /\ heap[a].prev \in DOMAIN heap /\ heap[a].prev < a
         /\ heap[heap[a].prev].next = a

\* The sequence s follows next, upwards.
Follows(s) ==
  /\ s \in Seq(DOMAIN heap) /\ s # <<>>
  /\ \A i \in 1 .. Len(s) - 1 :
       /\ heap[s[i]].next # Null
       /\ s[i + 1] = heap[s[i]].next
  /\ \A i, j \in 1 .. Len(s) : i < j => s[i] < s[j]

\* One step of the walk of From.
Onward(s) ==
  IF heap[s[Len(s)]].next = Null THEN s ELSE Append(s, heap[s[Len(s)]].next)

\* A step of the walk keeps to next, and stands still at the end of the list
\* only.
LEMMA OnwardFollows ==
  ASSUME HeapTypes, Links, NEW s, Follows(s)
  PROVE  /\ Follows(Onward(s)) /\ Onward(s)[1] = s[1]
         /\ Len(Onward(s)) \in {Len(s), Len(s) + 1}
         /\ Len(Onward(s)) = Len(s) => heap[s[Len(s)]].next = Null /\ Onward(s) = s
<1> DEFINE z == heap[s[Len(s)]].next
<1>1. /\ s \in Seq(DOMAIN heap) /\ Len(s) \in Nat \ {0} /\ s[Len(s)] \in DOMAIN heap
      /\ \A i \in 1 .. Len(s) : s[i] \in DOMAIN heap /\ s[i] \in Nat
  BY DEF Follows, HeapTypes
<1>2. CASE z = Null
  BY <1>1, <1>2 DEF Onward
<1>3. CASE z # Null
  <2>1. z \in DOMAIN heap /\ s[Len(s)] < z /\ z \in Nat
    BY <1>1, <1>3 DEF Links, HeapTypes
  <2> DEFINE r == Append(s, z)
  <2>2. Onward(s) = r
    BY <1>3 DEF Onward
  <2> HIDE DEF z
  <2>3. /\ r \in Seq(DOMAIN heap) /\ Len(r) = Len(s) + 1
        /\ \A i \in 1 .. Len(s) : r[i] = s[i]
        /\ r[Len(s) + 1] = z
    BY <1>1, <2>1
  <2>4. ASSUME NEW i \in 1 .. Len(r) - 1
        PROVE  heap[r[i]].next # Null /\ r[i + 1] = heap[r[i]].next
    <3>1. CASE i = Len(s)
      BY <3>1, <2>3, <1>1, <1>3 DEF z
    <3>2. CASE i \in 1 .. Len(s) - 1
      <4>1. i \in 1 .. Len(s) /\ i + 1 \in 1 .. Len(s) BY <3>2, <1>1
      <4> QED BY <4>1, <3>2, <2>3 DEF Follows
    <3> QED BY <3>1, <3>2, <2>3, <1>1
  <2>5. ASSUME NEW i \in 1 .. Len(r), NEW j \in 1 .. Len(r), i < j PROVE r[i] < r[j]
    <3>1. CASE j = Len(s) + 1
      <4>1. i \in 1 .. Len(s) BY <3>1, <2>5, <2>3, <1>1
      <4>2. i = Len(s) \/ s[i] < s[Len(s)] BY <4>1, <1>1 DEF Follows
      <4>3. s[i] < z BY <4>1, <4>2, <2>1, <1>1
      <4> QED BY <4>1, <4>3, <3>1, <2>3
    <3>2. CASE j \in 1 .. Len(s)
      <4>1. i \in 1 .. Len(s) BY <3>2, <2>5, <1>1
      <4>2. s[i] < s[j] BY <4>1, <3>2, <2>5 DEF Follows
      <4> QED BY <4>1, <4>2, <3>2, <2>3
    <3> QED BY <3>1, <3>2, <2>3, <1>1
  <2>6. Follows(r)
    <3>1. r # <<>> BY <2>3, <1>1
    <3> HIDE DEF r
    <3> QED BY <3>1, <2>3, <2>4, <2>5 DEF Follows
  <2>7. r[1] = s[1] BY <2>3, <1>1
  <2> HIDE DEF r
  <2> QED BY <2>2, <2>3, <2>6, <2>7, <1>1
<1> QED BY <1>2, <1>3

\* No walk is longer than the heap has blocks: it never meets one twice.
LEMMA NotLonger ==
  ASSUME HeapTypes, NEW s, Follows(s)
  PROVE  Len(s) <= Cardinality(DOMAIN heap)
<1> DEFINE f == [i \in 1 .. Len(s) |-> s[i]]
<1>1. Len(s) \in Nat /\ f \in [1 .. Len(s) -> DOMAIN heap]
  BY DEF Follows
<1>2. \A i, j \in 1 .. Len(s) : i # j => f[i] # f[j]
  <2> SUFFICES ASSUME NEW i \in 1 .. Len(s), NEW j \in 1 .. Len(s), i # j
               PROVE  s[i] # s[j]
    OBVIOUS
  <2>1. s[i] \in Nat /\ s[j] \in Nat BY DEF Follows, HeapTypes
  <2>2. s[i] < s[j] \/ s[j] < s[i] BY <1>1 DEF Follows
  <2> QED BY <2>1, <2>2
<1>3. IsFiniteSet(1 .. Len(s)) /\ Cardinality(1 .. Len(s)) = Len(s)
  <2>1. 1 \in Int /\ Len(s) \in Int BY <1>1
  <2>2. /\ IsFiniteSet(1 .. Len(s))
        /\ Cardinality(1 .. Len(s)) = IF 1 > Len(s) THEN 0 ELSE Len(s) - 1 + 1
    BY <2>1, FS_Interval, Zenon
  <2> QED BY <2>2, <1>1
<1>4. IsFiniteSet(DOMAIN heap) /\ Cardinality(DOMAIN heap) \in Nat
  BY FS_CardinalityType DEF HeapTypes
<1> HIDE DEF f
<1>5. ~ (Cardinality(DOMAIN heap) < Cardinality(1 .. Len(s)))
  BY <1>1, <1>2, <1>3, <1>4, FS_PigeonHole
<1> QED BY <1>1, <1>3, <1>4, <1>5

\* From(a), unfolded: it starts with a, follows next and comes to the end of
\* the list.  By induction on the steps of the walk; that the heap is finite makes
\* as many steps as it has blocks enough.
LEMMA FromFollows ==
  ASSUME HeapTypes, Links, NEW a \in DOMAIN heap
  PROVE  /\ Follows(From(a)) /\ From(a)[1] = a
         /\ heap[From(a)[Len(From(a))]].next = Null
<1> DEFINE N == Cardinality(DOMAIN heap)
           X == {s \in Seq(DOMAIN heap) : Follows(s)}
           Walk(w) == w = [n \in 0 .. N |-> IF n = 0 THEN <<a>> ELSE Onward(w[n - 1])]
<1>1. N \in Nat
  BY FS_CardinalityType DEF HeapTypes
<1>2. <<a>> \in X
  <2>1. /\ <<a>> \in Seq(DOMAIN heap) /\ <<a>> # <<>> /\ Len(<<a>>) = 1
    OBVIOUS
  <2> QED BY <2>1 DEF Follows
<1>3. \A s \in X : Onward(s) \in X
  BY OnwardFollows DEF Follows
<1>4. \E w : Walk(w)
  <2> DEFINE step == [s \in X |-> Onward(s)]
  <2>1. step \in [X -> X] BY <1>3
  <2> HIDE DEF X, N
  <2>2. \A x0 \in X : \E w \in [0 .. N -> X] :
          w[0] = x0 /\ \A n \in 1 .. N : w[n] = step[w[n - 1]]
    <3> HIDE DEF step
    <3> QED BY <1>1, <2>1, Iterates
  <2>3. PICK w \in [0 .. N -> X] : w[0] = <<a>> /\ \A n \in 1 .. N : w[n] = step[w[n - 1]]
    BY <1>2, <2>2
  <2>4. \A n \in 1 .. N : w[n - 1] \in X /\ w[n] = Onward(w[n - 1])
    <3> TAKE n \in 1 .. N
    <3>1. n - 1 \in 0 .. N BY <1>1
    <3>2. w[n - 1] \in X BY <3>1, <2>3
    <3> QED BY <3>2, <2>3
  <2>5. \A n \in 0 .. N : w[n] = IF n = 0 THEN <<a>> ELSE Onward(w[n - 1])
    <3> TAKE n \in 0 .. N
    <3> HIDE DEF N, X
    <3>1. CASE n = 0 BY <3>1, <2>3
    <3>2. CASE n # 0
      <4>1. n \in 1 .. N BY <3>2, <1>1
      <4> QED BY <4>1, <3>2, <2>4
    <3> QED BY <3>1, <3>2
  <2>6. Walk(w)
    BY <2>3, <2>5, Zenon
  <2> QED BY <2>6
<1>5. PICK w : Walk(w) /\ From(a) = w[N]
  <2>1. From(a) = (CHOOSE w : Walk(w))[N]
    BY Zenon DEF From, Onward
  <2> HIDE DEF Walk
  <2>2. Walk(CHOOSE w : Walk(w))
    BY <1>4, Zenon
  <2> QED BY <2>1, <2>2
<1> DEFINE Reached(s, n) ==
      /\ Follows(s) /\ s[1] = a
      /\ Len(s) = n + 1 \/ heap[s[Len(s)]].next = Null
           S == {n \in 0 .. N : Reached(w[n], n)}
<1>6. 0 \in S
  <2>1. w[0] = <<a>> BY <1>1, <1>5
  <2> QED BY <2>1, <1>1, <1>2
<1>7. ASSUME NEW n \in 1 .. N, n - 1 \in S PROVE n \in S
  <2>1. w[n] = Onward(w[n - 1])
    <3>1. n \in 0 .. N /\ n # 0 BY <1>1
    <3> HIDE DEF N
    <3>2. w[n] = IF n = 0 THEN <<a>> ELSE Onward(w[n - 1]) BY <3>1, <1>5, Zenon
    <3> QED BY <3>1, <3>2
  <2>2. Reached(w[n - 1], n - 1) BY <1>7
  <2>3. Len(w[n - 1]) \in Nat \ {0} BY <2>2 DEF Follows
  <2>4. Reached(w[n], n)
    <3> DEFINE s == w[n - 1]
    <3>1. Follows(s) /\ s[1] = a /\ Len(s) \in Nat BY <2>2, <2>3
    <3>2. Len(s) = n - 1 + 1 \/ heap[s[Len(s)]].next = Null BY <2>2
    <3> HIDE DEF s, Walk
    <3>3. /\ Follows(Onward(s)) /\ Onward(s)[1] = s[1]
          /\ Len(Onward(s)) \in {Len(s), Len(s) + 1}
          /\ Len(Onward(s)) = Len(s) => heap[s[Len(s)]].next = Null /\ Onward(s) = s
      BY <3>1, OnwardFollows
    <3>4. heap[s[Len(s)]].next = Null => Onward(s) = s BY DEF Onward
    <3>5. Reached(Onward(s), n)
      <4>1. CASE Len(Onward(s)) = Len(s) BY <4>1, <3>1, <3>2, <3>3, <1>1
      <4>2. CASE Len(Onward(s)) = Len(s) + 1
        <5>1. heap[s[Len(s)]].next # Null BY <4>2, <3>1, <3>4
        <5> QED BY <5>1, <4>2, <3>1, <3>2, <3>3, <1>1
      <4> QED BY <4>1, <4>2, <3>3
    <3> QED BY <3>5, <2>1 DEF s
  <2> QED BY <2>4
<1>8. Reached(w[N], N)
  <2>1. 0 .. N \subseteq S
    <3> HIDE DEF S, N
    <3> QED BY <1>1, <1>6, <1>7, Induction
  <2>2. N \in S BY <2>1, <1>1
  <2> QED BY <2>2
<1>9. Len(w[N]) <= N /\ Len(w[N]) \in Nat
  <2> DEFINE s == w[N]
  <2>1. Follows(s) BY <1>8
  <2> HIDE DEF s
  <2>2. Len(s) <= N BY <2>1, NotLonger
  <2>3. Len(s) \in Nat BY <2>1 DEF Follows
  <2> QED BY <2>2, <2>3 DEF s
<1> QED BY <1>1, <1>5, <1>8, <1>9

\* No block is between a block and its next.
NoneBetween ==
  \A a, b \in DOMAIN heap : a < b => heap[a].next # Null /\ heap[a].next <= b

\* The walk from a reaches every block behind a: else there is a least one that
\* it does not reach, but it does reach the one before it.
LEMMA FromReachesAll ==
  ASSUME HeapTypes, Links, NoneBetween, NEW a \in DOMAIN heap, NEW b \in DOMAIN heap, a <= b
  PROVE  \E i \in 1 .. Len(From(a)) : From(a)[i] = b
<1> DEFINE s == From(a)
           T == {c \in DOMAIN heap : a <= c /\ \A i \in 1 .. Len(s) : s[i] # c}
<1>1. /\ Follows(s) /\ s[1] = a /\ heap[s[Len(s)]].next = Null
  BY FromFollows
<1> HIDE DEF s
<1>2. Len(s) \in Nat \ {0}
  BY <1>1 DEF Follows
<1>3. SUFFICES ASSUME T # {} PROVE FALSE
  BY DEF s
<1>4. PICK c \in T : \A d \in T : c <= d
  <2>1. T \subseteq Nat BY DEF HeapTypes
  <2> HIDE DEF T
  <2> QED BY <1>3, <2>1, Least
<1>5. c \in DOMAIN heap /\ c \in Nat /\ a \in Nat /\ a <= c /\ c # a
  BY <1>1, <1>2 DEF HeapTypes
<1> DEFINE p == heap[c].prev
<1>6. p \in DOMAIN heap /\ p < c /\ heap[p].next = c /\ p \in Nat
  <2>1. c # MEMORY BY <1>5 DEF MEMORY
  <2> QED BY <2>1, <1>5 DEF Links, HeapTypes
<1> HIDE DEF p
<1>7. a <= p
  <2>1. ~ (p < a) BY <1>5, <1>6 DEF NoneBetween
  <2> QED BY <2>1, <1>5, <1>6
<1>8. PICK i \in 1 .. Len(s) : s[i] = p
  <2>1. p \notin T BY <1>4, <1>5, <1>6
  <2> QED BY <2>1, <1>6, <1>7
<1>9. c # Null
  BY <1>5, AllocatorAssumption
<1>10. i # Len(s)
  BY <1>1, <1>6, <1>8, <1>9
<1>11. i \in 1 .. Len(s) - 1 /\ i + 1 \in 1 .. Len(s)
  BY <1>2, <1>8, <1>10
<1>12. s[i + 1] = c
  BY <1>1, <1>6, <1>8, <1>11 DEF Follows
<1> QED BY <1>4, <1>11, <1>12

\* Links, with no block between two linked ones, are a list of all blocks.
LEMMA LinksMakeTheList ==
  ASSUME HeapTypes, Links, NoneBetween
  PROVE  ListWellFormed
<1>1. /\ Follows(List) /\ List[1] = MEMORY
  BY FromFollows DEF List, HeapTypes
<1>2. \A b \in DOMAIN heap : \E i \in 1 .. Len(List) : List[i] = b
  <2> TAKE b \in DOMAIN heap
  <2>1. MEMORY \in DOMAIN heap /\ MEMORY <= b BY DEF MEMORY, HeapTypes
  <2> QED BY <2>1, FromReachesAll DEF List
<1> DEFINE s == List
<1> HIDE DEF s
<1>3. /\ Follows(s) /\ s[1] = MEMORY /\ Len(s) \in Nat \ {0}
      /\ \A b \in DOMAIN heap : \E i \in 1 .. Len(s) : s[i] = b
      /\ \A i \in 1 .. Len(s) : s[i] \in DOMAIN heap
  BY <1>1, <1>2 DEF Follows, s
<1>4. {s[i] : i \in 1 .. Len(s)} = DOMAIN heap
  BY <1>3
<1>5. \A i \in 1 .. Len(s) : heap[s[i]].prev = IF i = 1 THEN Null ELSE s[i - 1]
  <2> TAKE i \in 1 .. Len(s)
  <2>1. CASE i = 1 BY <2>1, <1>3 DEF Links
  <2>2. CASE i # 1
    <3>1. i - 1 \in 1 .. Len(s) - 1 /\ i - 1 + 1 = i /\ i - 1 \in 1 .. Len(s)
      BY <2>2, <1>3
    <3>2. heap[s[i - 1]].next # Null /\ heap[s[i - 1]].next = s[i]
      BY <3>1, <1>3 DEF Follows
    <3> QED BY <3>1, <3>2, <2>2, <1>3 DEF Links
  <2> QED BY <2>1, <2>2
<1>6. \A i \in 1 .. Len(s) : i < Len(s) => s[i] < s[i + 1]
  <2> TAKE i \in 1 .. Len(s)
  <2> HAVE i < Len(s)
  <2>1. i + 1 \in 1 .. Len(s) /\ i < i + 1 BY <1>3
  <2> QED BY <2>1, <1>3 DEF Follows
<1> QED BY <1>4, <1>5, <1>6 DEF ListWellFormed, HeapTypes, s

\* Min of FiniteSetsExt is the least element.
LEMMA MinIsLeast ==
  ASSUME NEW I, I \subseteq Nat, I # {}
  PROVE  Min(I) \in I /\ \A j \in I : Min(I) <= j
BY Least, Zenon DEF Min

\* The search of malloc() looks at every block, wherever last_allocation is.
LEMMA SearchedAreAll ==
  ASSUME HeapTypes, Links, NoneBetween
  PROVE  /\ SearchOrder \in Seq(DOMAIN heap)
         /\ \A b \in DOMAIN heap : \E i \in 1 .. Len(SearchOrder) : SearchOrder[i] = b
<1> DEFINE s == From(last_allocation)
           r == List
           k == SelectInSeq(List, LAMBDA a : a = last_allocation)
           t == SubSeq(r, 1, k - 1)
<1>1. /\ last_allocation \in DOMAIN heap /\ MEMORY \in DOMAIN heap
      /\ DOMAIN heap \subseteq Nat
  BY DEF HeapTypes
<1>2. Follows(s) /\ Follows(r)
  BY <1>1, FromFollows DEF List
<1>3. \A b \in DOMAIN heap : last_allocation <= b => \E i \in 1 .. Len(s) : s[i] = b
  BY <1>1, FromReachesAll
<1>4. \A b \in DOMAIN heap : \E i \in 1 .. Len(r) : r[i] = b
  <2> TAKE b \in DOMAIN heap
  <2>1. MEMORY <= b BY <1>1 DEF MEMORY
  <2> QED BY <2>1, <1>1, FromReachesAll DEF List
<1>5. k \in 1 .. Len(r) /\ r[k] = last_allocation
  <2> DEFINE I == {i \in 1 .. Len(List) : List[i] = last_allocation}
  <2>1. I # {} /\ I \subseteq Nat BY <1>1, <1>4
  <2>2. k = Min(I) BY <2>1 DEF SelectInSeq
  <2> HIDE DEF I
  <2>3. k \in I BY <2>1, <2>2, MinIsLeast
  <2> QED BY <2>3 DEF I
<1>6. SearchOrder = s \o t
  BY DEF SearchOrder
<1> HIDE DEF s, r, k
<1>7. /\ s \in Seq(DOMAIN heap) /\ r \in Seq(DOMAIN heap)
      /\ Len(s) \in Nat /\ Len(r) \in Nat
      /\ \A i, j \in 1 .. Len(r) : i < j => r[i] < r[j]
  BY <1>2 DEF Follows
<1>8. /\ t \in Seq(DOMAIN heap) /\ Len(t) = k - 1
      /\ \A i \in 1 .. k - 1 : t[i] = r[i]
  BY <1>5, <1>7
<1>9. ASSUME NEW b \in DOMAIN heap, b < last_allocation
      PROVE  \E i \in 1 .. Len(t) : t[i] = b
  <2>1. PICK i \in 1 .. Len(r) : r[i] = b BY <1>4
  <2>2. ~ (k <= i)
    <3>1. ~ (r[k] < r[i]) BY <2>1, <1>1, <1>5, <1>9
    <3>2. i # k BY <2>1, <1>1, <1>5, <1>9
    <3> QED BY <3>1, <3>2, <2>1, <1>5, <1>7
  <2>3. i \in 1 .. k - 1 BY <2>1, <2>2, <1>5, <1>7
  <2> QED BY <2>1, <2>3, <1>8
<1> HIDE DEF t
<1>10. /\ s \o t \in Seq(DOMAIN heap) /\ Len(s \o t) = Len(s) + Len(t) /\ Len(t) \in Nat
       /\ \A i \in 1 .. Len(s) : (s \o t)[i] = s[i]
       /\ \A i \in 1 .. Len(t) : (s \o t)[Len(s) + i] = t[i]
  BY <1>5, <1>7, <1>8
<1>11. ASSUME NEW b \in DOMAIN heap
       PROVE  \E i \in 1 .. Len(s \o t) : (s \o t)[i] = b
  <2>1. CASE last_allocation <= b
    <3>1. PICK i \in 1 .. Len(s) : s[i] = b BY <2>1, <1>3
    <3>2. i \in 1 .. Len(s \o t) BY <1>7, <1>10
    <3> QED BY <3>1, <3>2, <1>10
  <2>2. CASE b < last_allocation
    <3>1. PICK i \in 1 .. Len(t) : t[i] = b BY <2>2, <1>9
    <3>2. Len(s) + i \in 1 .. Len(s \o t) BY <1>7, <1>10
    <3> QED BY <3>1, <3>2, <1>10
  <2> QED BY <2>1, <2>2, <1>1
<1> QED BY <1>6, <1>10, <1>11

\* Pick returns a free block that is large enough, or there is none.
LEMMA PickFits ==
  ASSUME HeapTypes, Links, NoneBetween, NEW size
  PROVE  /\ Pick(size) # Null =>
              /\ Pick(size) \in DOMAIN heap /\ ~heap[Pick(size)].used
              /\ Mask(heap[Pick(size)].size) >= Aligned(size)
         /\ Pick(size) = Null =>
              \A a \in DOMAIN heap :
                heap[a].used \/ ~ (Mask(heap[a].size) >= Aligned(size))
<1> DEFINE s == SearchOrder
           I == {i \in 1 .. Len(s) :
                   ~heap[s[i]].used /\ Mask(heap[s[i]].size) >= Aligned(size)}
<1>1. s \in Seq(DOMAIN heap) /\ \A b \in DOMAIN heap : \E i \in 1 .. Len(s) : s[i] = b
  BY SearchedAreAll
<1>2. Pick(size) = IF (IF I # {} THEN Min(I) ELSE 0) = 0 THEN Null
                   ELSE s[IF I # {} THEN Min(I) ELSE 0]
  BY Zenon DEF Pick, SelectInSeq
<1> HIDE DEF s
<1>3. I \subseteq Nat \ {0} /\ I \subseteq 1 .. Len(s)
  BY <1>1
<1>4. CASE I = {}
  <2>1. Pick(size) = Null BY <1>2, <1>4
  <2> QED BY <2>1, <1>1, <1>4
<1>5. CASE I # {}
  <2>1. Min(I) \in I
    <3> HIDE DEF I
    <3> QED BY <1>3, <1>5, MinIsLeast
  <2>2. Pick(size) = s[Min(I)]
    <3> HIDE DEF I
    <3> QED BY <1>2, <1>3, <1>5, <2>1
  <2>3. s[Min(I)] \in DOMAIN heap
    <3> HIDE DEF I
    <3>1. Min(I) \in 1 .. Len(s) BY <1>3, <2>1
    <3> QED BY <1>1, <3>1
  <2>4. s[Min(I)] # Null
    BY <2>3, AllocatorAssumption DEF HeapTypes
  <2>5. /\ ~heap[s[Min(I)]].used
        /\ Mask(heap[s[Min(I)]].size) >= Aligned(size)
    <3> DEFINE m == Min(I)
    <3>1. m \in I BY <2>1
    <3> HIDE DEF m
    <3>2. ~heap[s[m]].used /\ Mask(heap[s[m]].size) >= Aligned(size) BY <3>1
    <3> QED BY <3>2 DEF m
  <2> QED BY <2>2, <2>3, <2>4, <2>5
<1> QED BY <1>4, <1>5

\* Each block ends before the next one begins, and within the array.
Apart ==
  \A a \in DOMAIN heap :
    /\ a + HEADER + heap[a].size <= MEMORY + MEMORY_SIZE
    /\ \A b \in DOMAIN heap : a < b => a + HEADER + heap[a].size <= b

\* What is invariant of the blocks, whoever uses them.
BlocksInv == HeapTypes /\ Links /\ NoneBetween /\ Apart

\* Mask rounds down.
LEMMA MaskBelow ==
  ASSUME NEW n \in Nat
  PROVE  Mask(n) \in Nat /\ Mask(n) <= n
BY AllocatorAssumption DEF Mask

\* What is added to round up makes a multiple.
LEMMA RoundedUp ==
  ASSUME NEW n \in Nat, NEW k \in Nat \ {0}
  PROVE  (n + k - (n % k)) % k = 0
OBVIOUS

\* Aligned rounds up to a multiple, without wrapping for what may be asked for.
LEMMA AlignedAbove ==
  ASSUME NEW n \in Nat, n <= WORD - ALIGNMENT
  PROVE  Aligned(n) \in Nat /\ n <= Aligned(n) /\ Mask(Aligned(n)) = Aligned(n)
<1> USE AllocatorAssumption
<1> DEFINE r == n % ALIGNMENT
<1>1. r \in 0 .. ALIGNMENT - 1
  OBVIOUS
<1>2. CASE r = 0
  <2>1. Aligned(n) = n BY <1>2 DEF Aligned
  <2> QED BY <1>2, <2>1 DEF Mask
<1>3. CASE r # 0
  <2>1. n + ALIGNMENT - r \in 0 .. WORD - 1 BY <1>1, <1>3
  <2>2. (n + ALIGNMENT - r) % WORD = n + ALIGNMENT - r
    <3> HIDE DEF r
    <3> QED BY <2>1
  <2>3. Aligned(n) = n + ALIGNMENT - r
    BY <2>2, <1>3 DEF Aligned
  <2>4. (n + ALIGNMENT - r) % ALIGNMENT = 0
    BY RoundedUp
  <2>5. Mask(n + ALIGNMENT - r) = n + ALIGNMENT - r
    <3> HIDE DEF r
    <3> QED BY <2>1, <2>4 DEF Mask
  <2> HIDE DEF r
  <2> QED BY <2>1, <2>3, <2>5, <1>1
<1> QED BY <1>2, <1>3

\* Storing prev leaves the other fields.
LEMMA FieldsWithPrev ==
  ASSUME NEW f \in Field, NEW p \in Nat \cup {Null}
  PROVE  /\ [f EXCEPT !.prev = p] \in Field
         /\ [f EXCEPT !.prev = p].next = f.next /\ [f EXCEPT !.prev = p].prev = p
         /\ [f EXCEPT !.prev = p].size = f.size /\ [f EXCEPT !.prev = p].used = f.used
BY DEF Field

\* Marking a block used or free moves nothing.
LEMMA MarkKeepsBlocks ==
  ASSUME BlocksInv, NEW a \in DOMAIN heap, NEW u \in BOOLEAN,
         heap' = [heap EXCEPT ![a].used = u], last_allocation' \in DOMAIN heap
  PROVE  BlocksInv'
<1>1. /\ DOMAIN heap' = DOMAIN heap
      /\ \A b \in DOMAIN heap :
           /\ heap'[b] \in Field
           /\ heap'[b].next = heap[b].next
           /\ heap'[b].prev = heap[b].prev
           /\ heap'[b].size = heap[b].size
  BY DEF BlocksInv, HeapTypes, Field
<1>2. HeapTypes'
  <2>1. heap' \in [DOMAIN heap' -> Field]
    BY <1>1 DEF BlocksInv, HeapTypes
  <2> QED BY <1>1, <2>1 DEF BlocksInv, HeapTypes
<1>3. Links'       BY <1>1 DEF BlocksInv, Links
<1>4. NoneBetween' BY <1>1 DEF BlocksInv, NoneBetween
<1>5. Apart'       BY <1>1 DEF BlocksInv, Apart, MEMORY
<1> QED BY <1>2, <1>3, <1>4, <1>5 DEF BlocksInv

\* A block is split in two that fit in its room.
LEMMA SplitKeepsBlocks ==
  ASSUME BlocksInv, NEW a \in DOMAIN heap, NEW n \in Nat, NEW m \in Nat,
         n + HEADER + m <= heap[a].size,
         heap' = [b \in DOMAIN heap \cup {a + HEADER + n} |->
           CASE b = a -> Block(a + HEADER + n, heap[a].prev, n, TRUE)
             [] b = a + HEADER + n -> Block(heap[a].next, a, m, FALSE)
             [] b = heap[a].next -> [heap[b] EXCEPT !.prev = a + HEADER + n]
             [] OTHER -> heap[b]],
         last_allocation' = a
  PROVE  /\ BlocksInv'
         /\ a + HEADER + n \notin DOMAIN heap
         /\ DOMAIN heap' = DOMAIN heap \cup {a + HEADER + n}
         /\ heap'[a] = Block(a + HEADER + n, heap[a].prev, n, TRUE)
         /\ heap'[a + HEADER + n] = Block(heap[a].next, a, m, FALSE)
         /\ \A b \in DOMAIN heap \ {a} :
              /\ heap'[b].size = heap[b].size /\ heap'[b].used = heap[b].used
              /\ heap'[b].next = heap[b].next
<1> USE AllocatorAssumption
<1> DEFINE new == a + HEADER + n
           z   == heap[a].next
<1>1. /\ a \in Nat /\ new \in Nat /\ a < new /\ heap[a] \in Field
      /\ \A b \in DOMAIN heap : b \in Nat /\ heap[b] \in Field
  BY DEF BlocksInv, HeapTypes
<1>2. \A b \in DOMAIN heap : a < b => new < b /\ new + HEADER + m <= b
  <2> TAKE b \in DOMAIN heap
  <2> HAVE a < b
  <2>1. a + HEADER + heap[a].size <= b BY DEF BlocksInv, Apart
  <2> QED BY <2>1, <1>1 DEF Field
<1>3. new \notin DOMAIN heap
  BY <1>1, <1>2
<1>4. new + HEADER + m <= MEMORY + MEMORY_SIZE
  <2>1. a + HEADER + heap[a].size <= MEMORY + MEMORY_SIZE BY DEF BlocksInv, Apart
  <2> QED BY <2>1, <1>1 DEF Field, MEMORY
<1>5. z # a /\ (z # Null => z \in DOMAIN heap)
  BY <1>1 DEF BlocksInv, Links
<1>6. /\ DOMAIN heap' = DOMAIN heap \cup {new}
      /\ heap'[a] = Block(new, heap[a].prev, n, TRUE)
      /\ heap'[new] = Block(z, a, m, FALSE)
      /\ \A b \in DOMAIN heap \ {a} :
           heap'[b] = IF b = z THEN [heap[b] EXCEPT !.prev = new] ELSE heap[b]
  BY <1>1, <1>3, <1>5
<1> HIDE DEF new
<1>7. /\ heap'[a].next = new /\ heap'[a].prev = heap[a].prev
      /\ heap'[a].size = n
      /\ heap'[new].next = z /\ heap'[new].prev = a
      /\ heap'[new].size = m
      /\ heap'[a] \in Field /\ heap'[new] \in Field
  BY <1>1, <1>6 DEF Block, Field
<1>8. \A b \in DOMAIN heap \ {a} :
        /\ heap'[b].next = heap[b].next
        /\ b = z => heap'[b].prev = new
        /\ b # z => heap'[b].prev = heap[b].prev
        /\ heap'[b].size = heap[b].size /\ heap'[b].used = heap[b].used
        /\ heap'[b] \in Field
  <2> TAKE b \in DOMAIN heap \ {a}
  <2>1. heap[b] \in Field /\ new \in Nat BY <1>1
  <2>2. CASE b = z
    <3>1. heap'[b] = [heap[b] EXCEPT !.prev = new] BY <2>2, <1>6
    <3> HIDE DEF z
    <3>2. /\ [heap[b] EXCEPT !.prev = new] \in Field
          /\ [heap[b] EXCEPT !.prev = new].next = heap[b].next
          /\ [heap[b] EXCEPT !.prev = new].prev = new
          /\ [heap[b] EXCEPT !.prev = new].size = heap[b].size
          /\ [heap[b] EXCEPT !.prev = new].used = heap[b].used
      BY <2>1, FieldsWithPrev
    <3> QED BY <2>2, <3>1, <3>2, Zenon
  <2>3. CASE b # z
    <3>1. heap'[b] = heap[b] BY <2>3, <1>6
    <3> HIDE DEF z
    <3> QED BY <2>1, <2>3, <3>1
  <2> QED BY <2>2, <2>3
<1>0. /\ a # Null /\ new # Null
      /\ heap[a].next = z
      /\ z # Null => z \in DOMAIN heap \ {a} /\ a < z /\ new < z /\ heap[z].prev = a
  <2>1. z # Null => z \in DOMAIN heap /\ a < z /\ heap[z].prev = a
    BY DEF BlocksInv, Links
  <2> QED BY <2>1, <1>1, <1>2
<1> HIDE DEF z
<1>9. HeapTypes'
  <2>1. IsFiniteSet(DOMAIN heap')
    BY <1>6, FS_AddElement DEF BlocksInv, HeapTypes
  <2>2. DOMAIN heap' \subseteq Nat /\ MEMORY \in DOMAIN heap' /\ last_allocation' \in DOMAIN heap'
    BY <1>1, <1>6 DEF BlocksInv, HeapTypes
  <2>3. heap' \in [DOMAIN heap' -> Field]
    BY <1>6, <1>7, <1>8
  <2> QED BY <2>1, <2>2, <2>3 DEF HeapTypes, MEMORY
<1>10. Links'
  <2>1. ASSUME NEW b \in DOMAIN heap', heap'[b].next # Null
        PROVE  /\ heap'[b].next \in DOMAIN heap' /\ b < heap'[b].next
               /\ heap'[heap'[b].next].prev = b
    <3>1. CASE b = a
      BY <3>1, <1>1, <1>6, <1>7
    <3>2. CASE b = new
      <4>1. heap'[b].next = z /\ z # Null BY <3>2, <2>1, <1>7
      <4>2. z \in DOMAIN heap \ {a} /\ new < z BY <4>1, <1>0
      <4>3. heap'[z].prev = new BY <4>2, <1>8
      <4> QED BY <4>1, <4>2, <4>3, <3>2, <1>6
    <3>3. CASE b \in DOMAIN heap \ {a}
      <4> DEFINE c == heap[b].next
      <4>1. heap'[b].next = c BY <3>3, <1>8
      <4>2. c \in DOMAIN heap /\ b < c /\ heap[c].prev = b
        BY <4>1, <3>3, <2>1 DEF BlocksInv, Links
      <4> HIDE DEF c
      <4>3. c # z BY <4>2, <3>3, <1>0, <2>1, <4>1
      <4>4. heap'[c].prev = b BY <4>2, <4>3, <1>7, <1>8
      <4> QED BY <4>1, <4>2, <4>4, <1>6
    <3> QED BY <3>1, <3>2, <3>3, <1>6
  <2>2. ASSUME NEW b \in DOMAIN heap'
        PROVE  heap'[b].prev = Null <=> b = MEMORY
    <3>1. CASE b = a
      <4>1. heap[a].prev = Null <=> a = MEMORY BY DEF BlocksInv, Links
      <4> QED BY <4>1, <3>1, <1>7
    <3>2. CASE b = new
      <4>1. b # MEMORY BY <3>2, <1>1 DEF MEMORY
      <4>2. heap'[b].prev = a BY <3>2, <1>7
      <4> QED BY <4>1, <4>2, <1>0
    <3>3. CASE b \in DOMAIN heap \ {a} /\ b # z
      BY <3>3, <1>8 DEF BlocksInv, Links
    <3>4. CASE b \in DOMAIN heap \ {a} /\ b = z
      <4>1. heap'[b].prev = new BY <3>4, <1>8
      <4>2. heap[b].prev = a BY <3>4, <1>0, <1>1, AllocatorAssumption
      <4>3. b # MEMORY BY <4>2, <3>4, <1>0 DEF BlocksInv, Links
      <4> QED BY <4>1, <4>3, <1>0
    <3> QED BY <3>1, <3>2, <3>3, <3>4, <1>6
  <2>3. ASSUME NEW b \in DOMAIN heap', heap'[b].prev # Null
        PROVE  /\ heap'[b].prev \in DOMAIN heap' /\ heap'[b].prev < b
               /\ heap'[heap'[b].prev].next = b
    <3>1. CASE b = a
      <4> DEFINE p == heap[a].prev
      <4>1. heap'[b].prev = p /\ p # Null BY <3>1, <2>3, <1>7
      <4>2. p \in DOMAIN heap /\ p < a /\ heap[p].next = a
        BY <4>1 DEF BlocksInv, Links
      <4> HIDE DEF p
      <4>3. p # a BY <4>2, <1>1
      <4>4. heap'[p].next = a BY <4>2, <4>3, <1>8
      <4> QED BY <4>1, <4>2, <4>4, <3>1, <1>6
    <3>2. CASE b = new
      <4>1. heap'[b].prev = a /\ heap'[a].next = b BY <3>2, <1>7
      <4> QED BY <4>1, <3>2, <1>1, <1>6
    <3>3. CASE b \in DOMAIN heap \ {a} /\ b # z
      <4> DEFINE p == heap[b].prev
      <4>1. heap'[b].prev = p /\ p # Null BY <3>3, <2>3, <1>8
      <4>2. p \in DOMAIN heap /\ p < b /\ heap[p].next = b
        BY <4>1, <3>3 DEF BlocksInv, Links
      <4> HIDE DEF p
      <4>3. p # a BY <4>2, <3>3, <1>0
      <4>4. heap'[p].next = b BY <4>2, <4>3, <1>8
      <4> QED BY <4>1, <4>2, <4>4, <1>6
    <3>4. CASE b \in DOMAIN heap \ {a} /\ b = z
      <4>1. heap'[b].prev = new /\ new < b BY <3>4, <1>0, <1>1, <1>8
      <4>2. heap'[new].next = b BY <3>4, <1>7
      <4> QED BY <4>1, <4>2, <1>6
    <3> QED BY <3>1, <3>2, <3>3, <3>4, <1>6
  <2> QED BY <2>1, <2>2, <2>3 DEF Links, MEMORY
<1>11. NoneBetween'
  <2> SUFFICES ASSUME NEW b \in DOMAIN heap', NEW c \in DOMAIN heap', b < c
      PROVE  heap'[b].next # Null /\ heap'[b].next <= c
    BY DEF NoneBetween
  <2>0. \A x, y \in DOMAIN heap : x < y => heap[x].next # Null /\ heap[x].next <= y
    BY DEF BlocksInv, NoneBetween
  <2>1. CASE b = a
    <3>1. c = new \/ (c \in DOMAIN heap /\ new < c) BY <2>1, <1>2, <1>6
    <3>2. new <= c BY <3>1, <1>1
    <3> QED BY <3>2, <2>1, <1>0, <1>7
  <2>2. CASE b = new
    <3>1. c \in DOMAIN heap /\ a < c BY <2>2, <1>1, <1>6
    <3>2. z # Null /\ z <= c BY <3>1, <2>0, <1>0
    <3> QED BY <3>2, <2>2, <1>7
  <2>3. CASE b \in DOMAIN heap \ {a} /\ c = new
    <3>1. b < a
      <4>1. ~ (a < b) BY <2>3, <1>1, <1>2
      <4> QED BY <4>1, <2>3, <1>1
    <3>2. heap[b].next # Null /\ heap[b].next <= a
      BY <3>1, <2>3, <2>0
    <3>3. heap[b].next \in Nat BY <3>2, <2>3, <1>1 DEF Field
    <3>4. heap[b].next <= new BY <3>2, <3>3, <1>1
    <3> QED BY <3>2, <3>4, <2>3, <1>8
  <2>4. CASE b \in DOMAIN heap \ {a} /\ c \in DOMAIN heap
    BY <2>4, <2>0, <1>8
  <2> QED BY <2>1, <2>2, <2>3, <2>4, <1>6
<1>12. Apart'
  <2> SUFFICES ASSUME NEW b \in DOMAIN heap'
      PROVE  /\ b + HEADER + heap'[b].size <= MEMORY + MEMORY_SIZE
             /\ \A c \in DOMAIN heap' : b < c => b + HEADER + heap'[b].size <= c
    BY DEF Apart, MEMORY
  <2>1. CASE b = a
    <3>1. b + HEADER + heap'[b].size = new BY <2>1, <1>7 DEF new
    <3>2. new <= MEMORY + MEMORY_SIZE BY <1>1, <1>4 DEF MEMORY
    <3>3. \A c \in DOMAIN heap' : b < c => new <= c BY <2>1, <1>1, <1>2, <1>6
    <3> QED BY <3>1, <3>2, <3>3
  <2>2. CASE b = new
    <3>1. \A c \in DOMAIN heap' : b < c => c \in DOMAIN heap /\ a < c BY <2>2, <1>1, <1>6
    <3> QED BY <3>1, <2>2, <1>2, <1>4, <1>7
  <2>3. CASE b \in DOMAIN heap \ {a}
    <3>1. /\ b + HEADER + heap[b].size <= MEMORY + MEMORY_SIZE
          /\ \A c \in DOMAIN heap : b < c => b + HEADER + heap[b].size <= c
      BY <2>3 DEF BlocksInv, Apart
    <3>2. b < new => b + HEADER + heap[b].size <= new
      <4> HAVE b < new
      <4>1. b < a
        <5>1. ~ (a < b) BY <2>3, <1>1, <1>2
        <5> QED BY <5>1, <2>3, <1>1
      <4>2. b + HEADER + heap[b].size <= a BY <4>1, <3>1
      <4>3. b \in Nat /\ heap[b].size \in Nat BY <2>3, <1>1 DEF Field
      <4> QED BY <4>2, <4>3, <1>1
    <3>3. heap'[b].size = heap[b].size BY <2>3, <1>8
    <3>4. \A c \in DOMAIN heap' : c \in DOMAIN heap \/ c = new BY <1>6
    <3> QED BY <3>1, <3>2, <3>3, <3>4
  <2>4. b = a \/ b = new \/ b \in DOMAIN heap \ {a} BY <1>6
  <2> QED BY <2>1, <2>2, <2>3, <2>4
<1> QED BY <1>3, <1>6, <1>8, <1>9, <1>10, <1>11, <1>12 DEF BlocksInv, new, z

\* The blocks gone are all those between a and z.
Stretch(a, gone, z) ==
  /\ a \in DOMAIN heap /\ gone \subseteq DOMAIN heap
  /\ heap[a].next \in gone
  /\ \A g \in gone : /\ a < g
                     /\ heap[g].prev \in gone \cup {a}
                     /\ heap[g].next \in gone \cup {z}
  /\ z # Null => /\ z \in DOMAIN heap /\ a < z /\ heap[z].prev \in gone
                 /\ \A g \in gone : g < z
  /\ \A b \in DOMAIN heap \ gone : a < b => z # Null /\ z <= b

\* The heap after Merge.
Merged(a, gone, z, n) ==
  [b \in DOMAIN heap \ gone |->
     CASE b = a -> Block(z, heap[a].prev, n, FALSE)
       [] b = z -> [heap[b] EXCEPT !.prev = a]
       [] OTHER -> heap[b]]

\* The room between a and z is that of a piece of n.
Room(a, z, n) ==
  /\ n \in Nat /\ a + HEADER + n <= MEMORY + MEMORY_SIZE
  /\ z # Null => a + HEADER + n <= z

\* What is known of the heap after Merge.
MergeDone(a, gone, z, n) ==
  /\ BlocksInv'
  /\ DOMAIN heap' = DOMAIN heap \ gone
  /\ a \in DOMAIN heap \ gone
  /\ heap'[a] = Block(z, heap[a].prev, n, FALSE)
  /\ \A b \in DOMAIN heap \ (gone \cup {a}) :
       /\ heap'[b].size = heap[b].size /\ heap'[b].used = heap[b].used
       /\ heap'[b].next = heap[b].next

\* Merging the blocks between a and z into a keeps the blocks in order.
LEMMA MergeKeepsBlocks ==
  ASSUME NEW a, NEW gone, NEW z, NEW n,
         BlocksInv, Stretch(a, gone, z), Room(a, z, n),
         heap' = Merged(a, gone, z, n),
         last_allocation' \in DOMAIN heap \ gone
  PROVE  MergeDone(a, gone, z, n)
<1>0. /\ n \in Nat /\ a + HEADER + n <= MEMORY + MEMORY_SIZE
      /\ z # Null => a + HEADER + n <= z
      /\ a \in DOMAIN heap /\ gone \in SUBSET DOMAIN heap /\ z \in Nat \cup {Null}
  BY DEF Room, Stretch, BlocksInv, HeapTypes
<1> USE AllocatorAssumption
<1>1. /\ a \in DOMAIN heap /\ a \in Nat /\ heap[a] \in Field /\ a # Null
      /\ \A b \in DOMAIN heap : b \in Nat /\ heap[b] \in Field /\ b # Null
  BY DEF BlocksInv, HeapTypes, Stretch
<1>2. /\ gone \subseteq DOMAIN heap /\ heap[a].next \in gone
      /\ \A g \in gone : a < g /\ heap[g].prev \in gone \cup {a} /\ heap[g].next \in gone \cup {z}
  BY DEF Stretch
<1>3. z # Null => z \in DOMAIN heap /\ a < z /\ heap[z].prev \in gone /\ \A g \in gone : g < z
  BY DEF Stretch
<1>4. \A b \in DOMAIN heap \ gone : a < b => z # Null /\ z <= b
  BY DEF Stretch
<1>5. a \notin gone /\ z \notin gone /\ a # z
  BY <1>1, <1>2, <1>3
<1>6. /\ DOMAIN heap' = DOMAIN heap \ gone
      /\ heap'[a] = Block(z, heap[a].prev, n, FALSE)
      /\ \A b \in DOMAIN heap \ (gone \cup {a}) :
           heap'[b] = IF b = z THEN [heap[b] EXCEPT !.prev = a] ELSE heap[b]
  BY <1>1, <1>5 DEF Merged
<1>7. /\ heap'[a].next = z /\ heap'[a].prev = heap[a].prev
      /\ heap'[a].size = n /\ heap'[a] \in Field
  <2>1. z \in Nat \cup {Null} /\ heap[a].prev \in Nat \cup {Null} /\ n \in Nat BY <1>0, <1>1 DEF Field
  <2>2. /\ Block(z, heap[a].prev, n, FALSE) \in Field
        /\ Block(z, heap[a].prev, n, FALSE).next = z
        /\ Block(z, heap[a].prev, n, FALSE).prev = heap[a].prev
        /\ Block(z, heap[a].prev, n, FALSE).size = n
    BY <2>1 DEF Block, Field
  <2> QED BY <2>2, <1>6, Zenon
<1>8. \A b \in DOMAIN heap \ (gone \cup {a}) :
        /\ heap'[b].next = heap[b].next
        /\ b = z => heap'[b].prev = a
        /\ b # z => heap'[b].prev = heap[b].prev
        /\ heap'[b].size = heap[b].size /\ heap'[b].used = heap[b].used
        /\ heap'[b] \in Field
  <2> TAKE b \in DOMAIN heap \ (gone \cup {a})
  <2>1. heap[b] \in Field /\ a \in Nat \cup {Null} BY <1>1
  <2>2. CASE b = z
    <3>1. heap'[b] = [heap[b] EXCEPT !.prev = a] BY <2>2, <1>6
    <3>2. /\ [heap[b] EXCEPT !.prev = a] \in Field
          /\ [heap[b] EXCEPT !.prev = a].next = heap[b].next
          /\ [heap[b] EXCEPT !.prev = a].prev = a
          /\ [heap[b] EXCEPT !.prev = a].size = heap[b].size
          /\ [heap[b] EXCEPT !.prev = a].used = heap[b].used
      BY <2>1, FieldsWithPrev
    <3> QED BY <2>2, <3>1, <3>2, Zenon
  <2>3. CASE b # z
    <3>1. heap'[b] = heap[b] BY <2>3, <1>6
    <3> QED BY <2>1, <2>3, <3>1
  <2> QED BY <2>2, <2>3
<1>9. HeapTypes'
  <2>1. IsFiniteSet(DOMAIN heap')
    <3>1. DOMAIN heap' \in SUBSET DOMAIN heap BY <1>6
    <3> QED BY <3>1, FS_Subset DEF BlocksInv, HeapTypes
  <2>2. MEMORY \in DOMAIN heap /\ MEMORY \notin gone
    BY <1>1, <1>2 DEF BlocksInv, HeapTypes, MEMORY
  <2>3. heap' \in [DOMAIN heap' -> Field]
    BY <1>6, <1>7, <1>8 DEF Merged
  <2> QED BY <2>1, <2>2, <2>3, <1>1, <1>6 DEF HeapTypes, MEMORY
<1>10. Links'
  <2>1. ASSUME NEW b \in DOMAIN heap', heap'[b].next # Null
        PROVE  /\ heap'[b].next \in DOMAIN heap' /\ b < heap'[b].next
               /\ heap'[heap'[b].next].prev = b
    <3>1. CASE b = a
      <4>1. heap'[b].next = z /\ z # Null BY <3>1, <2>1, <1>7
      <4>2. z \in DOMAIN heap \ (gone \cup {a}) /\ a < z BY <4>1, <1>3, <1>5
      <4>3. heap'[z].prev = a BY <4>2, <1>8
      <4> QED BY <4>1, <4>2, <4>3, <3>1, <1>6
    <3>2. CASE b \in DOMAIN heap \ (gone \cup {a})
      <4> DEFINE c == heap[b].next
      <4>1. heap'[b].next = c BY <3>2, <1>8
      <4>2. c \in DOMAIN heap /\ b < c /\ heap[c].prev = b
        BY <4>1, <3>2, <2>1 DEF BlocksInv, Links
      <4> HIDE DEF c
      <4>3. c # z /\ c \notin gone
        <5>1. z # Null => heap[z].prev \in gone BY <1>3
        <5> QED BY <5>1, <4>2, <3>2, <1>1, <1>2
      <4>4. heap'[c].prev = b
        <5>1. CASE c = a BY <5>1, <4>2, <1>7
        <5>2. CASE c # a BY <5>2, <4>2, <4>3, <1>8
        <5> QED BY <5>1, <5>2
      <4> QED BY <4>1, <4>2, <4>3, <4>4, <1>6
    <3> QED BY <3>1, <3>2, <1>6
  <2>2. ASSUME NEW b \in DOMAIN heap'
        PROVE  heap'[b].prev = Null <=> b = MEMORY
    <3>1. CASE b = a
      <4>1. heap[a].prev = Null <=> a = MEMORY BY <1>1 DEF BlocksInv, Links
      <4> QED BY <4>1, <3>1, <1>7
    <3>2. CASE b \in DOMAIN heap \ (gone \cup {a}) /\ b # z
      <4>1. heap[b].prev = Null <=> b = MEMORY BY <3>2 DEF BlocksInv, Links
      <4>2. heap'[b].prev = heap[b].prev BY <3>2, <1>8
      <4> QED BY <4>1, <4>2
    <3>3. CASE b \in DOMAIN heap \ (gone \cup {a}) /\ b = z
      <4>1. heap'[b].prev = a BY <3>3, <1>8
      <4>2. b # MEMORY
        <5>1. a < b BY <3>3, <1>1, <1>3
        <5> QED BY <5>1, <1>1 DEF MEMORY
      <4> QED BY <4>1, <4>2, <1>1
    <3> QED BY <3>1, <3>2, <3>3, <1>6
  <2>3. ASSUME NEW b \in DOMAIN heap', heap'[b].prev # Null
        PROVE  /\ heap'[b].prev \in DOMAIN heap' /\ heap'[b].prev < b
               /\ heap'[heap'[b].prev].next = b
    <3>1. CASE b = a
      <4> DEFINE p == heap[a].prev
      <4>1. heap'[b].prev = p /\ p # Null BY <3>1, <2>3, <1>7
      <4>2. p \in DOMAIN heap /\ p < a /\ heap[p].next = a
        BY <4>1, <1>1 DEF BlocksInv, Links
      <4> HIDE DEF p
      <4>3. p # a /\ p \notin gone BY <4>2, <1>1, <1>2
      <4>4. heap'[p].next = a BY <4>2, <4>3, <1>8
      <4> QED BY <4>1, <4>2, <4>3, <4>4, <3>1, <1>6
    <3>2. CASE b \in DOMAIN heap \ (gone \cup {a}) /\ b # z
      <4> DEFINE p == heap[b].prev
      <4>1. heap'[b].prev = p /\ p # Null BY <3>2, <2>3, <1>8
      <4>2. p \in DOMAIN heap /\ p < b /\ heap[p].next = b
        BY <4>1, <3>2 DEF BlocksInv, Links
      <4> HIDE DEF p
      <4>3. p # a /\ p \notin gone BY <4>2, <3>2, <1>2
      <4>4. heap'[p].next = b BY <4>2, <4>3, <1>8
      <4> QED BY <4>1, <4>2, <4>3, <4>4, <1>6
    <3>3. CASE b \in DOMAIN heap \ (gone \cup {a}) /\ b = z
      <4>1. heap'[b].prev = a BY <3>3, <1>8
      <4>2. a < b BY <3>3, <1>1, <1>3
      <4>3. heap'[a].next = b BY <3>3, <1>7
      <4> QED BY <4>1, <4>2, <4>3, <1>1, <1>5, <1>6
    <3> QED BY <3>1, <3>2, <3>3, <1>6
  <2> QED BY <2>1, <2>2, <2>3 DEF Links, MEMORY
<1>11. NoneBetween'
  <2> SUFFICES ASSUME NEW b \in DOMAIN heap', NEW c \in DOMAIN heap', b < c
      PROVE  heap'[b].next # Null /\ heap'[b].next <= c
    BY DEF NoneBetween
  <2>1. CASE b = a
    <3>1. c \in DOMAIN heap \ gone /\ a < c BY <2>1, <1>6
    <3>2. z # Null /\ z <= c BY <3>1, <1>4
    <3> QED BY <3>2, <2>1, <1>7
  <2>2. CASE b # a
    <3>1. b \in DOMAIN heap \ (gone \cup {a}) /\ c \in DOMAIN heap BY <2>2, <1>6
    <3>2. heap[b].next # Null /\ heap[b].next <= c BY <3>1 DEF BlocksInv, NoneBetween
    <3> QED BY <3>1, <3>2, <1>8
  <2> QED BY <2>1, <2>2
<1>12. Apart'
  <2> SUFFICES ASSUME NEW b \in DOMAIN heap'
      PROVE  /\ b + HEADER + heap'[b].size <= MEMORY + MEMORY_SIZE
             /\ \A c \in DOMAIN heap' : b < c => b + HEADER + heap'[b].size <= c
    BY DEF Apart, MEMORY
  <2>1. CASE b = a
    <3>1. heap'[b].size = n BY <2>1, <1>7
    <3>2. ASSUME NEW c \in DOMAIN heap', a < c PROVE a + HEADER + n <= c
      <4>1. z # Null /\ z <= c /\ a + HEADER + n <= z BY <3>2, <1>0, <1>4, <1>6
      <4>2. z \in Nat /\ c \in Nat BY <4>1, <3>2, <1>1, <1>3, <1>6
      <4> QED BY <4>1, <4>2, <1>0, <1>1
    <3> QED BY <3>1, <3>2, <2>1, <1>0
  <2>2. CASE b # a
    <3>1. b \in DOMAIN heap \ (gone \cup {a}) /\ DOMAIN heap' \subseteq DOMAIN heap BY <2>2, <1>6
    <3>2. /\ b + HEADER + heap[b].size <= MEMORY + MEMORY_SIZE
          /\ \A c \in DOMAIN heap : b < c => b + HEADER + heap[b].size <= c
      BY <3>1 DEF BlocksInv, Apart
    <3>3. heap'[b].size = heap[b].size BY <3>1, <1>8
    <3> QED BY <3>1, <3>2, <3>3
  <2> QED BY <2>1, <2>2
<1>13. BlocksInv' BY <1>9, <1>10, <1>11, <1>12 DEF BlocksInv
<1> QED BY <1>1, <1>5, <1>6, <1>8, <1>13 DEF MergeDone

\* The blocks in use are those that somebody owns, and are as long as was asked
\* for.
Owners ==
  /\ DOMAIN owned \subseteq DOMAIN heap
  /\ \A a \in DOMAIN heap : heap[a].used <=> a \in DOMAIN owned
  /\ owned = [a \in DOMAIN owned |-> owned[a]]
  /\ \A a \in DOMAIN owned :
       owned[a] \in Nat \ {0} /\ owned[a] <= Mask(heap[a].size)

\* The inductive invariant.  FreeBlocksMerged and CountersRight are part of it:
\* the first is needed to show that a merge leaves no free neighbour, the second
\* needs Owners.
AllocInv == BlocksInv /\ FreeBlocksMerged /\ Owners /\ CountersRight

\* The block a is handed out; the others stay as they are.
Took(a) ==
  /\ a \in DOMAIN heap \ DOMAIN owned
  /\ DOMAIN owned' = DOMAIN owned \cup {a}
  /\ \A b \in DOMAIN owned : owned'[b] = owned[b] /\ heap'[b].size = heap[b].size

\* The block a is given back.
Gave(a) ==
  /\ a \in DOMAIN owned
  /\ DOMAIN owned' = DOMAIN owned \ {a}
  /\ \A b \in DOMAIN owned' : owned'[b] = owned[b] /\ heap'[b].size = heap[b].size

\* The heap of malloc_init() is one free block.
LEMMA InitInv == Init => AllocInv
<1> USE AllocatorAssumption
<1> SUFFICES ASSUME Init PROVE AllocInv
  OBVIOUS
<1>1. /\ DOMAIN heap = {MEMORY} /\ MEMORY = 0
      /\ heap[MEMORY] = Block(Null, Null, MEMORY_SIZE - HEADER, FALSE)
      /\ DOMAIN owned = {} /\ owned = [a \in {} |-> 0]
      /\ num_blocks = 1 /\ num_allocations = 0 /\ last_allocation = MEMORY
  BY DEF Init, MEMORY
<1>2. /\ heap[MEMORY] \in Field
      /\ heap[MEMORY].next = Null /\ heap[MEMORY].prev = Null
      /\ heap[MEMORY].size = MEMORY_SIZE - HEADER
      /\ ~heap[MEMORY].used
  BY <1>1 DEF Block, Field
<1>3. HeapTypes
  <2>1. heap \in [DOMAIN heap -> Field] BY <1>1, <1>2 DEF Init
  <2>2. IsFiniteSet({MEMORY}) BY FS_Singleton
  <2>3. MEMORY \in Nat BY <1>1
  <2> QED BY <2>1, <2>2, <2>3, <1>1 DEF HeapTypes
<1>4. Links /\ NoneBetween /\ Apart
  BY <1>1, <1>2 DEF Links, NoneBetween, Apart
<1>5. FreeBlocksMerged
  BY <1>1, <1>2 DEF FreeBlocksMerged, IsFree
<1>6. Owners
  BY <1>1, <1>2 DEF Owners
<1>7. CountersRight
  BY <1>1, FS_Singleton, FS_EmptySet DEF CountersRight
<1> QED BY <1>3, <1>4, <1>5, <1>6, <1>7 DEF AllocInv, BlocksInv

\* What a request does to the statistics and to what is owned.
LEMMA CountKeepsOwners ==
  ASSUME AllocInv, BlocksInv', NEW a \in DOMAIN heap, ~heap[a].used,
         NEW size \in Nat \ {0}, NEW bytes, Count(a, size, bytes),
         DOMAIN heap \subseteq DOMAIN heap', heap'[a].used, size <= Mask(heap'[a].size),
         \A b \in DOMAIN heap \ {a} :
           heap'[b].size = heap[b].size /\ heap'[b].used = heap[b].used,
         \A b \in DOMAIN heap' \ DOMAIN heap : ~heap'[b].used
  PROVE  Took(a) /\ Owners' /\ num_allocations' = Cardinality(DOMAIN owned')
<1>1. /\ DOMAIN owned \subseteq DOMAIN heap /\ a \notin DOMAIN owned
      /\ \A b \in DOMAIN heap : heap[b].used <=> b \in DOMAIN owned
      /\ \A b \in DOMAIN owned : owned[b] \in Nat \ {0} /\ owned[b] <= Mask(heap[b].size)
  BY DEF AllocInv, Owners
<1>2. /\ owned' = [b \in DOMAIN owned \cup {a} |-> IF b = a THEN size ELSE owned[b]]
      /\ num_allocations' = num_allocations + 1
  BY DEF Count
<1>3. /\ DOMAIN owned' = DOMAIN owned \cup {a} /\ owned'[a] = size
      /\ \A b \in DOMAIN owned : owned'[b] = owned[b]
  BY <1>1, <1>2
<1>4. owned' = [b \in DOMAIN owned' |-> owned'[b]]
  BY <1>2
<1>5. \A b \in DOMAIN heap' : heap'[b].used <=> b \in DOMAIN owned'
  BY <1>1, <1>3
<1>6. \A b \in DOMAIN owned' : owned'[b] \in Nat \ {0} /\ owned'[b] <= Mask(heap'[b].size)
  BY <1>1, <1>3 DEF Mask
<1>7. Owners'
  BY <1>1, <1>3, <1>4, <1>5, <1>6 DEF Owners, Mask
<1>8. num_allocations' = Cardinality(DOMAIN owned')
  <2>1. IsFiniteSet(DOMAIN owned)
    BY <1>1, FS_Subset DEF AllocInv, BlocksInv, HeapTypes
  <2>2. Cardinality(DOMAIN owned \cup {a}) = Cardinality(DOMAIN owned) + 1
    BY <1>1, <2>1, FS_AddElement
  <2> QED BY <2>2, <1>2, <1>3 DEF AllocInv, CountersRight
<1>9. Took(a) BY <1>1, <1>3 DEF Took
<1> QED BY <1>7, <1>8, <1>9

\* malloc() that gives a block away whole.
LEMMA TakeKeeps ==
  ASSUME AllocInv, NEW a \in DOMAIN heap, ~heap[a].used,
         NEW size \in Nat \ {0}, size <= Mask(heap[a].size),
         NEW bytes, Count(a, size, bytes),
         heap' = [heap EXCEPT ![a].used = TRUE], UNCHANGED num_blocks
  PROVE  AllocInv' /\ Took(a)
<1>1. last_allocation' \in DOMAIN heap BY DEF Count
<1>2. BlocksInv'
  BY <1>1, MarkKeepsBlocks DEF AllocInv
<1>3. /\ DOMAIN heap' = DOMAIN heap /\ heap'[a].used /\ heap'[a].size = heap[a].size
      /\ \A b \in DOMAIN heap : heap'[b].next = heap[b].next
      /\ \A b \in DOMAIN heap \ {a} :
           heap'[b].size = heap[b].size /\ heap'[b].used = heap[b].used
  BY DEF AllocInv, BlocksInv, HeapTypes, Field
<1>4. FreeBlocksMerged'
  BY <1>3 DEF AllocInv, FreeBlocksMerged, IsFree, BlocksInv, Links
<1>5. Took(a) /\ Owners' /\ num_allocations' = Cardinality(DOMAIN owned')
  BY <1>2, <1>3, CountKeepsOwners
<1>6. CountersRight'
  BY <1>3, <1>5 DEF AllocInv, CountersRight
<1> QED BY <1>2, <1>4, <1>5, <1>6 DEF AllocInv

\* malloc() that splits a block.
LEMMA SplitKeeps ==
  ASSUME AllocInv, NEW size \in Nat \ {0}, size <= WORD - ALIGNMENT, MallocSplit(size)
  PROVE  AllocInv' /\ Took(Pick(size))
<1> USE AllocatorAssumption
<1> DEFINE a == Pick(size)
           n == Aligned(size)
           new == a + HEADER + n
           m == Mask(heap[a].size) - HEADER - n
<1>1. a \in DOMAIN heap /\ ~heap[a].used /\ Mask(heap[a].size) >= n
  BY PickFits DEF MallocSplit, AllocInv, BlocksInv
<1>2. n \in Nat /\ size <= n /\ Mask(n) = n
  BY AlignedAbove
<1>3. heap[a].size \in Nat
  BY <1>1 DEF AllocInv, BlocksInv, HeapTypes, Field
<1>4. Mask(heap[a].size) \in Nat /\ Mask(heap[a].size) <= heap[a].size
  BY <1>3, MaskBelow
<1>5. ~ (Mask(heap[a].size) < n + HEADER + ALIGNMENT)
  BY DEF MallocSplit, TooSmallToSplit
<1>6. /\ heap' = [b \in DOMAIN heap \cup {new} |->
           CASE b = a -> Block(new, heap[a].prev, n, TRUE)
             [] b = new -> Block(heap[a].next, a, m, FALSE)
             [] b = heap[a].next -> [heap[b] EXCEPT !.prev = new]
             [] OTHER -> heap[b]]
      /\ Count(a, size, n) /\ num_blocks' = num_blocks + 1
  BY DEF MallocSplit
<1> HIDE DEF a, n
<1>7. m \in Nat /\ n + HEADER + m <= heap[a].size
  BY <1>2, <1>3, <1>4, <1>5
<1> HIDE DEF m
<1>8. last_allocation' = a BY <1>6 DEF Count
<1>9. /\ BlocksInv' /\ new \notin DOMAIN heap /\ DOMAIN heap' = DOMAIN heap \cup {new}
      /\ heap'[a] = Block(new, heap[a].prev, n, TRUE)
      /\ heap'[new] = Block(heap[a].next, a, m, FALSE)
      /\ \A b \in DOMAIN heap \ {a} :
           /\ heap'[b].size = heap[b].size /\ heap'[b].used = heap[b].used
           /\ heap'[b].next = heap[b].next
  BY <1>1, <1>2, <1>6, <1>7, <1>8, SplitKeepsBlocks DEF AllocInv
<1> HIDE DEF new
<1>10. /\ heap'[a].used /\ heap'[a].size = n
       /\ ~heap'[new].used /\ heap'[new].next = heap[a].next
  BY <1>9 DEF Block
<1>11. FreeBlocksMerged'
  <2> SUFFICES ASSUME NEW b \in DOMAIN heap', ~heap'[b].used, heap'[b].next # Null,
                      ~heap'[heap'[b].next].used
               PROVE  FALSE
    BY DEF FreeBlocksMerged, IsFree
  <2>1. \A c \in DOMAIN heap : ~heap[c].used => ~IsFree(heap[c].next)
    BY DEF AllocInv, FreeBlocksMerged, IsFree, BlocksInv, HeapTypes
  <2>2. \A c \in DOMAIN heap : heap[c].next # Null => heap[c].next \in DOMAIN heap /\ heap[c].next # c
    BY DEF AllocInv, BlocksInv, Links, HeapTypes
  <2>3. CASE b = new
    <3>1. /\ heap[a].next \in DOMAIN heap \ {a}
          /\ heap'[heap[a].next].used = heap[heap[a].next].used
      BY <2>2, <2>3, <1>1, <1>9, <1>10
    <3> QED BY <3>1, <2>1, <2>3, <1>1, <1>10 DEF IsFree
  <2>4. CASE b # new
    <3>1. b \in DOMAIN heap \ {a} BY <2>4, <1>9, <1>10
    <3>2. heap[b].next = heap'[b].next /\ ~heap[b].used BY <3>1, <1>9
    <3>3. heap[b].next \in DOMAIN heap BY <3>1, <3>2, <2>2
    <3>4. heap[b].next # a BY <3>2, <1>10
    <3>5. ~heap[heap[b].next].used BY <3>2, <3>3, <3>4, <1>9
    <3> QED BY <3>1, <3>2, <3>5, <2>1 DEF IsFree
  <2> QED BY <2>3, <2>4
<1>12. Took(a) /\ Owners' /\ num_allocations' = Cardinality(DOMAIN owned')
  <2>1. size <= Mask(heap'[a].size) BY <1>2, <1>10
  <2>2. \A b \in DOMAIN heap' \ DOMAIN heap : ~heap'[b].used BY <1>9, <1>10
  <2>3. DOMAIN heap \subseteq DOMAIN heap' BY <1>9
  <2>4. \A b \in DOMAIN heap \ {a} :
          heap'[b].size = heap[b].size /\ heap'[b].used = heap[b].used
    BY <1>9
  <2>5. BlocksInv' /\ heap'[a].used /\ Count(a, size, n) BY <1>6, <1>9, <1>10
  <2> QED BY <2>1, <2>2, <2>3, <2>4, <2>5, <1>1, CountKeepsOwners
<1>13. CountersRight'
  <2>1. Cardinality(DOMAIN heap \cup {new}) = Cardinality(DOMAIN heap) + 1
    BY <1>9, FS_AddElement DEF AllocInv, BlocksInv, HeapTypes
  <2> QED BY <2>1, <1>6, <1>9, <1>12 DEF AllocInv, CountersRight
<1> QED BY <1>9, <1>11, <1>12, <1>13 DEF AllocInv, a

\* What free() does to the statistics and to what is owned.
LEMMA UncountKeepsOwners ==
  ASSUME AllocInv, NEW a \in DOMAIN owned, Uncount(a),
         DOMAIN heap' \subseteq DOMAIN heap, DOMAIN owned \ {a} \subseteq DOMAIN heap',
         a \in DOMAIN heap' => ~heap'[a].used,
         \A b \in DOMAIN heap' \ {a} : heap'[b].used <=> heap[b].used,
         \A b \in DOMAIN owned \ {a} : heap'[b].size = heap[b].size
  PROVE  Gave(a) /\ Owners' /\ num_allocations' = Cardinality(DOMAIN owned')
<1>1. /\ DOMAIN owned \subseteq DOMAIN heap
      /\ \A b \in DOMAIN heap : heap[b].used <=> b \in DOMAIN owned
      /\ \A b \in DOMAIN owned : owned[b] \in Nat \ {0} /\ owned[b] <= Mask(heap[b].size)
  BY DEF AllocInv, Owners
<1>2. /\ owned' = [b \in DOMAIN owned \ {a} |-> owned[b]]
      /\ num_allocations' = num_allocations - 1
  BY DEF Uncount
<1>3. /\ DOMAIN owned' = DOMAIN owned \ {a}
      /\ \A b \in DOMAIN owned' : owned'[b] = owned[b]
      /\ owned' = [b \in DOMAIN owned' |-> owned'[b]]
  BY <1>2
<1>4. \A b \in DOMAIN heap' : heap'[b].used <=> b \in DOMAIN owned'
  <2> TAKE b \in DOMAIN heap'
  <2>1. CASE b = a BY <2>1, <1>3
  <2>2. CASE b # a
    <3>1. (heap'[b].used <=> heap[b].used) /\ b \in DOMAIN heap BY <2>2
    <3>2. b \in DOMAIN owned' <=> b \in DOMAIN owned BY <2>2, <1>3
    <3> QED BY <3>1, <3>2, <1>1
  <2> QED BY <2>1, <2>2
<1>5. \A b \in DOMAIN owned' : owned'[b] \in Nat \ {0} /\ owned'[b] <= Mask(heap'[b].size)
  BY <1>1, <1>3 DEF Mask
<1>6. Owners'
  BY <1>3, <1>4, <1>5 DEF Owners, Mask
<1>7. num_allocations' = Cardinality(DOMAIN owned')
  <2>1. IsFiniteSet(DOMAIN owned)
    BY <1>1, FS_Subset DEF AllocInv, BlocksInv, HeapTypes
  <2>2. Cardinality(DOMAIN owned \ {a}) = Cardinality(DOMAIN owned) - 1
    BY <2>1, FS_RemoveElement
  <2> QED BY <2>2, <1>2, <1>3 DEF AllocInv, CountersRight
<1>8. Gave(a) BY <1>3 DEF Gave
<1> QED BY <1>6, <1>7, <1>8

\* free() of a block without free neighbours.
LEMMA AloneKeeps ==
  ASSUME AllocInv, NEW a \in DOMAIN owned, FreeAlone(a)
  PROVE  AllocInv' /\ Gave(a)
<1>1. a \in DOMAIN heap /\ heap[a].used /\ DOMAIN owned \subseteq DOMAIN heap
  BY DEF AllocInv, Owners
<1>2. /\ heap' = [heap EXCEPT ![a].used = FALSE] /\ Uncount(a)
      /\ last_allocation' = last_allocation /\ num_blocks' = num_blocks
      /\ ~IsFree(heap[a].prev) /\ ~IsFree(heap[a].next)
  BY DEF FreeAlone
<1>3. BlocksInv'
  <2>1. last_allocation' \in DOMAIN heap BY <1>2 DEF AllocInv, BlocksInv, HeapTypes
  <2> QED BY <2>1, <1>1, <1>2, MarkKeepsBlocks DEF AllocInv
<1>4. /\ DOMAIN heap' = DOMAIN heap /\ ~heap'[a].used
      /\ \A b \in DOMAIN heap : heap'[b].next = heap[b].next /\ heap'[b].size = heap[b].size
      /\ \A b \in DOMAIN heap \ {a} : heap'[b].used <=> heap[b].used
  BY <1>1, <1>2 DEF AllocInv, BlocksInv, HeapTypes, Field
<1>5. FreeBlocksMerged'
  <2> SUFFICES ASSUME NEW b \in DOMAIN heap', ~heap'[b].used, heap'[b].next # Null,
                      ~heap'[heap'[b].next].used
               PROVE  FALSE
    BY DEF FreeBlocksMerged, IsFree
  <2> DEFINE c == heap[b].next
  <2>1. c # Null /\ c \in DOMAIN heap /\ c # b /\ heap[c].prev = b /\ b # Null
    BY <1>4, AllocatorAssumption DEF AllocInv, BlocksInv, Links, HeapTypes
  <2>2. ~heap'[c].used BY <1>4
  <2> HIDE DEF c
  <2>3. CASE b = a
    <3>1. ~heap[c].used /\ c = heap[a].next BY <2>1, <2>2, <2>3, <1>4 DEF c
    <3> QED BY <3>1, <2>1, <1>2 DEF IsFree
  <2>4. CASE c = a
    <3>1. ~heap[b].used /\ b = heap[a].prev BY <2>1, <2>4, <1>4
    <3> QED BY <3>1, <2>1, <1>2 DEF IsFree
  <2>5. CASE b # a /\ c # a
    <3>1. ~heap[b].used /\ ~heap[c].used BY <2>1, <2>2, <2>5, <1>4
    <3> QED BY <3>1, <2>1, <1>4 DEF AllocInv, FreeBlocksMerged, IsFree, c
  <2> QED BY <2>3, <2>4, <2>5
<1>6. Gave(a) /\ Owners' /\ num_allocations' = Cardinality(DOMAIN owned')
  BY <1>1, <1>2, <1>4, UncountKeepsOwners
<1>7. CountersRight'
  BY <1>2, <1>4, <1>6 DEF AllocInv, CountersRight
<1> QED BY <1>3, <1>5, <1>6, <1>7 DEF AllocInv

\* Merging the block x that is freed with its free neighbours.
LEMMA MergeKeeps ==
  ASSUME AllocInv, NEW x \in DOMAIN owned, NEW a, NEW gone, NEW z, NEW n,
         Stretch(a, gone, z), Merge(a, gone, z, n), Uncount(x),
         Room(a, z, n),
         \A b \in gone \cup {a} : b # x => ~heap[b].used, x \in gone \cup {a},
         ~IsFree(heap[a].prev), ~IsFree(z)
  PROVE  AllocInv' /\ Gave(x)
<1>1. /\ a \in DOMAIN heap /\ a \notin gone /\ gone \subseteq DOMAIN heap
      /\ DOMAIN owned \subseteq DOMAIN heap
      /\ \A b \in DOMAIN heap : heap[b].used <=> b \in DOMAIN owned
  BY DEF Stretch, AllocInv, BlocksInv, HeapTypes, Owners
<1>2. /\ heap' = Merged(a, gone, z, n)
      /\ last_allocation' = IF last_allocation \in gone THEN a ELSE last_allocation
      /\ num_blocks' = num_blocks - Cardinality(gone)
  BY DEF Merge, Merged
<1>3. last_allocation' \in DOMAIN heap \ gone
  BY <1>1, <1>2 DEF AllocInv, BlocksInv, HeapTypes
<1>4. /\ BlocksInv' /\ DOMAIN heap' = DOMAIN heap \ gone
      /\ heap'[a] = Block(z, heap[a].prev, n, FALSE)
      /\ \A b \in DOMAIN heap \ (gone \cup {a}) :
           /\ heap'[b].size = heap[b].size /\ heap'[b].used = heap[b].used
           /\ heap'[b].next = heap[b].next
  <2>1. BlocksInv BY DEF AllocInv
  <2>2. heap' = Merged(a, gone, z, n) BY <1>2
  <2>3. MergeDone(a, gone, z, n)
    BY <2>1, <2>2, <1>3, MergeKeepsBlocks
  <2> QED BY <2>3 DEF MergeDone
<1>5. heap'[a].next = z /\ ~heap'[a].used
  BY <1>4 DEF Block
<1>6. FreeBlocksMerged'
  <2> SUFFICES ASSUME NEW b \in DOMAIN heap', ~heap'[b].used, heap'[b].next # Null,
                      ~heap'[heap'[b].next].used
               PROVE  FALSE
    BY DEF FreeBlocksMerged, IsFree
  <2>1. heap'[b].next \in DOMAIN heap' /\ b < heap'[b].next /\ b \in Nat
    BY <1>4 DEF BlocksInv, Links, HeapTypes
  <2>2. CASE b = a
    <3>0. heap'[b].next = z BY <2>2, <1>5
    <3>1. z \in DOMAIN heap \ (gone \cup {a}) /\ z # Null BY <3>0, <2>1, <2>2, <1>4
    <3>2. ~heap[z].used BY <3>1, <2>2, <1>4, <1>5
    <3> QED BY <3>1, <3>2 DEF IsFree
  <2>3. CASE b # a
    <3> DEFINE c == heap[b].next
    <3>1. b \in DOMAIN heap \ (gone \cup {a}) /\ heap'[b].next = c BY <2>3, <1>4
    <3>2. ~heap[b].used /\ c # Null /\ c \in DOMAIN heap \ gone BY <3>1, <2>1, <1>4
    <3>3. c # a
      <4>1. b # Null /\ heap[c].prev = b
        BY <3>1, <3>2, AllocatorAssumption DEF AllocInv, BlocksInv, Links, HeapTypes
      <4> QED BY <4>1, <3>2 DEF IsFree
    <3>4. ~heap[c].used BY <3>1, <3>2, <3>3, <1>4
    <3>5. b # Null BY <3>1, AllocatorAssumption DEF AllocInv, BlocksInv, HeapTypes
    <3> QED BY <3>1, <3>2, <3>4, <3>5 DEF AllocInv, FreeBlocksMerged, IsFree
  <2> QED BY <2>2, <2>3
<1>7. Gave(x) /\ Owners' /\ num_allocations' = Cardinality(DOMAIN owned')
  <2>1. \A b \in gone \cup {a} : b # x => b \notin DOMAIN owned BY <1>1
  <2>2. DOMAIN heap' \subseteq DOMAIN heap /\ DOMAIN owned \ {x} \subseteq DOMAIN heap'
    BY <2>1, <1>1, <1>4
  <2>3. x \in DOMAIN heap' => ~heap'[x].used BY <1>4, <1>5
  <2>4. \A b \in DOMAIN heap' \ {x} : heap'[b].used <=> heap[b].used
    <3> TAKE b \in DOMAIN heap' \ {x}
    <3>1. CASE b = a
      <4>1. ~heap[a].used /\ ~heap'[a].used BY <3>1, <1>5
      <4> QED BY <4>1, <3>1
    <3>2. CASE b # a BY <3>2, <1>4
    <3> QED BY <3>1, <3>2
  <2>5. \A b \in DOMAIN owned \ {x} : heap'[b].size = heap[b].size
    BY <2>1, <2>2, <1>1, <1>4
  <2> QED BY <2>2, <2>3, <2>4, <2>5, UncountKeepsOwners
<1>8. CountersRight'
  <2>1. Cardinality(DOMAIN heap \ gone) = Cardinality(DOMAIN heap) - Cardinality(gone)
    <3>1. IsFiniteSet(DOMAIN heap) /\ DOMAIN heap \cap gone = gone
      BY <1>1 DEF AllocInv, BlocksInv, HeapTypes
    <3> QED BY <3>1, FS_Difference
  <2> QED BY <2>1, <1>2, <1>4, <1>7 DEF AllocInv, CountersRight
<1> QED BY <1>4, <1>6, <1>7, <1>8 DEF AllocInv

\* The block behind a block.
LEMMA NextOf ==
  ASSUME BlocksInv, NEW a \in DOMAIN heap, NEW n, n = heap[a].next, n # Null
  PROVE  /\ n \in DOMAIN heap /\ a < n /\ heap[n].prev = a
         /\ a + HEADER + heap[a].size <= n
         /\ \A b \in DOMAIN heap : a < b => n <= b
<1>1. n \in DOMAIN heap /\ a < n /\ heap[n].prev = a
  BY DEF BlocksInv, Links
<1>2. a + HEADER + heap[a].size <= n
  BY <1>1 DEF BlocksInv, Apart
<1>3. \A b \in DOMAIN heap : a < b => n <= b
  BY DEF BlocksInv, NoneBetween
<1> QED BY <1>1, <1>2, <1>3

\* The block before a block.
LEMMA PrevOf ==
  ASSUME BlocksInv, NEW a \in DOMAIN heap, NEW p, p = heap[a].prev, p # Null
  PROVE  /\ p \in DOMAIN heap /\ p < a /\ heap[p].next = a /\ a # Null
         /\ p + HEADER + heap[p].size <= a
         /\ \A b \in DOMAIN heap : p < b => a <= b
<1>1. p \in DOMAIN heap /\ p < a /\ heap[p].next = a
  BY DEF BlocksInv, Links
<1>2. p + HEADER + heap[p].size <= a
  BY <1>1 DEF BlocksInv, Apart
<1>3. a # Null
  BY AllocatorAssumption DEF BlocksInv, HeapTypes
<1>4. \A b \in DOMAIN heap : p < b => a <= b
  BY <1>1 DEF BlocksInv, NoneBetween
<1> QED BY <1>1, <1>2, <1>3, <1>4

\* A block is a number, as are its size and the part of it that is used.
LEMMA SizeOf ==
  ASSUME BlocksInv, NEW a \in DOMAIN heap
  PROVE  /\ a \in Nat /\ a # Null /\ heap[a].size \in Nat
         /\ Mask(heap[a].size) \in Nat /\ Mask(heap[a].size) <= heap[a].size
         /\ a + HEADER + heap[a].size <= MEMORY + MEMORY_SIZE
<1>1. a \in Nat /\ a # Null /\ heap[a].size \in Nat
  BY AllocatorAssumption DEF BlocksInv, HeapTypes, Field
<1>2. a + HEADER + heap[a].size <= MEMORY + MEMORY_SIZE
  BY DEF BlocksInv, Apart
<1> QED BY <1>1, <1>2, MaskBelow

\* The block behind a is a stretch of blocks to merge.
LEMMA StretchOfOne ==
  ASSUME BlocksInv, NEW a \in DOMAIN heap, NEW g, g = heap[a].next, g # Null,
         NEW z, z = heap[g].next
  PROVE  Stretch(a, {g}, z)
<1>1. /\ g \in DOMAIN heap /\ a < g /\ heap[g].prev = a
      /\ \A b \in DOMAIN heap : a < b => g <= b
  BY NextOf
<1>2. \A b \in DOMAIN heap : b \in Nat
  BY DEF BlocksInv, HeapTypes
<1>3. z # Null => /\ z \in DOMAIN heap /\ g < z /\ heap[z].prev = g
                  /\ \A b \in DOMAIN heap : g < b => z <= b
  BY <1>1, NextOf
<1>4. \A b \in DOMAIN heap \ {g} : a < b => z # Null /\ z <= b
  <2> TAKE b \in DOMAIN heap \ {g}
  <2> HAVE a < b
  <2>1. g < b BY <1>1, <1>2
  <2>2. z # Null BY <2>1, <1>1 DEF BlocksInv, NoneBetween
  <2> QED BY <2>1, <2>2, <1>3
<1> QED BY <1>1, <1>2, <1>3, <1>4 DEF Stretch

\* And so are the two blocks behind p.
LEMMA StretchOfTwo ==
  ASSUME BlocksInv, NEW p \in DOMAIN heap, NEW a, a = heap[p].next, a # Null,
         NEW n, n = heap[a].next, n # Null, NEW z, z = heap[n].next
  PROVE  Stretch(p, {a, n}, z)
<1>1. /\ a \in DOMAIN heap /\ p < a /\ heap[a].prev = p
      /\ \A b \in DOMAIN heap : p < b => a <= b
  BY NextOf
<1>2. /\ n \in DOMAIN heap /\ a < n /\ heap[n].prev = a
      /\ \A b \in DOMAIN heap : a < b => n <= b
  BY <1>1, NextOf
<1>3. \A b \in DOMAIN heap : b \in Nat
  BY DEF BlocksInv, HeapTypes
<1>4. z # Null => /\ z \in DOMAIN heap /\ n < z /\ heap[z].prev = n
                  /\ \A b \in DOMAIN heap : n < b => z <= b
  BY <1>2, NextOf
<1>5. \A b \in DOMAIN heap \ {a, n} : p < b => z # Null /\ z <= b
  <2> TAKE b \in DOMAIN heap \ {a, n}
  <2> HAVE p < b
  <2>1. a < b BY <1>1, <1>3
  <2>2. n < b BY <2>1, <1>2, <1>3
  <2>3. z # Null BY <2>2, <1>2 DEF BlocksInv, NoneBetween
  <2> QED BY <2>2, <2>3, <1>4
<1>6. p < n BY <1>1, <1>2, <1>3
<1>7. z # Null => p < z /\ a < z BY <1>1, <1>2, <1>3, <1>4
<1> QED BY <1>1, <1>2, <1>4, <1>5, <1>6, <1>7 DEF Stretch

\* free() of a block between two free ones.
LEMMA BetweenKeeps ==
  ASSUME AllocInv, NEW a \in DOMAIN owned, FreeBetween(a)
  PROVE  AllocInv' /\ Gave(a)
<1> DEFINE p == heap[a].prev
           n == heap[a].next
           z == heap[n].next
           m == heap[p].size + Mask(heap[a].size) + Mask(heap[n].size) + 2 * HEADER
<1>1. BlocksInv /\ a \in DOMAIN heap
  BY DEF AllocInv, Owners
<1>2. /\ p # Null /\ ~heap[p].used /\ n # Null /\ ~heap[n].used
      /\ Merge(p, {a, n}, z, m) /\ Uncount(a)
  BY DEF FreeBetween, IsFree
<1>3. p \in DOMAIN heap /\ p < a /\ heap[p].next = a /\ a # Null /\ p + HEADER + heap[p].size <= a
  BY <1>1, <1>2, PrevOf
<1>4. n \in DOMAIN heap /\ a < n /\ a + HEADER + heap[a].size <= n
  BY <1>1, <1>2, NextOf
<1>5. z # Null => n + HEADER + heap[n].size <= z
  BY <1>1, <1>4, NextOf
<1>6. Stretch(p, {a, n}, z)
  BY <1>1, <1>2, <1>3, StretchOfTwo
<1>7. Room(p, z, m)
  <2>1. /\ p \in Nat /\ heap[p].size \in Nat
        /\ a \in Nat /\ heap[a].size \in Nat /\ Mask(heap[a].size) \in Nat
        /\ Mask(heap[a].size) <= heap[a].size
        /\ n \in Nat /\ heap[n].size \in Nat /\ Mask(heap[n].size) \in Nat
        /\ Mask(heap[n].size) <= heap[n].size
        /\ n + HEADER + heap[n].size <= MEMORY + MEMORY_SIZE
    BY <1>1, <1>3, <1>4, SizeOf
  <2>2. z # Null => z \in Nat BY <1>1, <1>4 DEF BlocksInv, HeapTypes, Field
  <2>3. HEADER \in Nat /\ MEMORY + MEMORY_SIZE \in Nat BY AllocatorAssumption DEF MEMORY
  <2>4. m = heap[p].size + Mask(heap[a].size) + Mask(heap[n].size) + HEADER + HEADER
    BY <2>1, <2>3
  <2> HIDE DEF p, n, z, m
  <2> QED BY <2>1, <2>2, <2>3, <2>4, <1>3, <1>4, <1>5 DEF Room
<1>8. ~IsFree(heap[p].prev)
  <2> SUFFICES ASSUME IsFree(heap[p].prev) PROVE FALSE
    OBVIOUS
  <2>1. heap[p].prev \in DOMAIN heap /\ heap[heap[p].prev].next = p
    BY <1>1, <1>3, PrevOf DEF IsFree
  <2>2. ~IsFree(p) BY <2>1 DEF AllocInv, FreeBlocksMerged
  <2> QED BY <2>2, <1>2 DEF IsFree
<1>9. ~IsFree(z)
  BY <1>2, <1>4 DEF IsFree, AllocInv, FreeBlocksMerged
<1>10. /\ \A b \in {a, n} \cup {p} : b # a => ~heap[b].used
       /\ a \in {a, n} \cup {p}
  BY <1>2
<1> HIDE DEF p, n, z, m
<1> QED BY <1>2, <1>6, <1>7, <1>8, <1>9, <1>10, MergeKeeps

\* free() of a block behind a free one.
LEMMA AfterFreeKeeps ==
  ASSUME AllocInv, NEW a \in DOMAIN owned, FreeAfterFree(a)
  PROVE  AllocInv' /\ Gave(a)
<1> DEFINE p == heap[a].prev
           z == heap[a].next
           m == heap[p].size + Mask(heap[a].size) + HEADER
<1>1. BlocksInv /\ a \in DOMAIN heap
  BY DEF AllocInv, Owners
<1>2. /\ p # Null /\ ~heap[p].used /\ ~IsFree(z)
      /\ Merge(p, {a}, z, m) /\ Uncount(a)
  BY DEF FreeAfterFree, IsFree
<1>3. p \in DOMAIN heap /\ p < a /\ heap[p].next = a /\ a # Null /\ p + HEADER + heap[p].size <= a
  BY <1>1, <1>2, PrevOf
<1>4. z # Null => a + HEADER + heap[a].size <= z
  BY <1>1, NextOf
<1>5. Stretch(p, {a}, z)
  BY <1>1, <1>3, StretchOfOne
<1>6. Room(p, z, m)
  <2>1. /\ p \in Nat /\ heap[p].size \in Nat
        /\ a \in Nat /\ heap[a].size \in Nat /\ Mask(heap[a].size) \in Nat
        /\ Mask(heap[a].size) <= heap[a].size
        /\ a + HEADER + heap[a].size <= MEMORY + MEMORY_SIZE
    BY <1>1, <1>3, SizeOf
  <2>2. z # Null => z \in Nat BY <1>1 DEF BlocksInv, HeapTypes, Field
  <2>3. HEADER \in Nat /\ MEMORY + MEMORY_SIZE \in Nat BY AllocatorAssumption DEF MEMORY
  <2>4. m = heap[p].size + Mask(heap[a].size) + HEADER OBVIOUS
  <2> HIDE DEF p, z, m
  <2> QED BY <2>1, <2>2, <2>3, <2>4, <1>3, <1>4 DEF Room
<1>7. ~IsFree(heap[p].prev)
  <2> SUFFICES ASSUME IsFree(heap[p].prev) PROVE FALSE
    OBVIOUS
  <2>1. heap[p].prev \in DOMAIN heap /\ heap[heap[p].prev].next = p
    BY <1>1, <1>3, PrevOf DEF IsFree
  <2>2. ~IsFree(p) BY <2>1 DEF AllocInv, FreeBlocksMerged
  <2> QED BY <2>2, <1>2 DEF IsFree
<1>8. /\ \A b \in {a} \cup {p} : b # a => ~heap[b].used
      /\ a \in {a} \cup {p}
  BY <1>2
<1> HIDE DEF p, z, m
<1> QED BY <1>2, <1>5, <1>6, <1>7, <1>8, MergeKeeps

\* free() of a block before a free one.
LEMMA BeforeFreeKeeps ==
  ASSUME AllocInv, NEW a \in DOMAIN owned, FreeBeforeFree(a)
  PROVE  AllocInv' /\ Gave(a)
<1> DEFINE n == heap[a].next
           z == heap[n].next
           m == heap[a].size + Mask(heap[n].size) + HEADER
<1>1. BlocksInv /\ a \in DOMAIN heap
  BY DEF AllocInv, Owners
<1>2. /\ n # Null /\ ~heap[n].used /\ ~IsFree(heap[a].prev)
      /\ Merge(a, {n}, z, m) /\ Uncount(a)
  BY DEF FreeBeforeFree, IsFree
<1>3. n \in DOMAIN heap /\ a < n /\ a + HEADER + heap[a].size <= n
  BY <1>1, <1>2, NextOf
<1>4. z # Null => n + HEADER + heap[n].size <= z
  BY <1>1, <1>3, NextOf
<1>5. Stretch(a, {n}, z)
  BY <1>1, <1>2, StretchOfOne
<1>6. Room(a, z, m)
  <2>1. /\ a \in Nat /\ heap[a].size \in Nat
        /\ n \in Nat /\ heap[n].size \in Nat /\ Mask(heap[n].size) \in Nat
        /\ Mask(heap[n].size) <= heap[n].size
        /\ n + HEADER + heap[n].size <= MEMORY + MEMORY_SIZE
    BY <1>1, <1>3, SizeOf
  <2>2. z # Null => z \in Nat BY <1>1, <1>3 DEF BlocksInv, HeapTypes, Field
  <2>3. HEADER \in Nat /\ MEMORY + MEMORY_SIZE \in Nat BY AllocatorAssumption DEF MEMORY
  <2>4. m = heap[a].size + Mask(heap[n].size) + HEADER OBVIOUS
  <2> HIDE DEF n, z, m
  <2> QED BY <2>1, <2>2, <2>3, <2>4, <1>3, <1>4 DEF Room
<1>7. ~IsFree(z)
  BY <1>2, <1>3 DEF IsFree, AllocInv, FreeBlocksMerged
<1>8. /\ \A b \in {n} \cup {a} : b # a => ~heap[b].used
      /\ a \in {n} \cup {a}
  BY <1>2
<1> HIDE DEF n, z, m
<1> QED BY <1>2, <1>5, <1>6, <1>7, <1>8, MergeKeeps

\* malloc() and, for its product, calloc(): nothing changes, or a block is handed
\* out.
LEMMA MallocKeeps ==
  ASSUME AllocInv, NEW size \in Nat, size <= WORD - ALIGNMENT, Malloc(size)
  PROVE  UNCHANGED vars \/ (AllocInv' /\ \E a : Took(a))
<1>1. CASE MallocFails(size)
  BY <1>1 DEF MallocFails
<1>2. ASSUME size # 0, Pick(size) # Null
      PROVE  /\ Pick(size) \in DOMAIN heap /\ ~heap[Pick(size)].used
             /\ size \in Nat \ {0} /\ size <= Mask(heap[Pick(size)].size)
  <2>1. /\ Pick(size) \in DOMAIN heap /\ ~heap[Pick(size)].used
        /\ Mask(heap[Pick(size)].size) >= Aligned(size)
    BY <1>2, PickFits DEF AllocInv, BlocksInv
  <2>2. Aligned(size) \in Nat /\ size <= Aligned(size)
    BY AlignedAbove
  <2>3. Mask(heap[Pick(size)].size) \in Nat
    BY <2>1, MaskBelow DEF AllocInv, BlocksInv, HeapTypes, Field
  <2> QED BY <1>2, <2>1, <2>2, <2>3
<1>3. ASSUME NEW bytes, size # 0, Pick(size) # Null, Count(Pick(size), size, bytes),
             heap' = [heap EXCEPT ![Pick(size)].used = TRUE], UNCHANGED num_blocks
      PROVE  AllocInv' /\ \E a : Took(a)
  <2>1. /\ Pick(size) \in DOMAIN heap /\ ~heap[Pick(size)].used
        /\ size \in Nat \ {0} /\ size <= Mask(heap[Pick(size)].size)
    BY <1>2, <1>3
  <2>2. AllocInv' /\ Took(Pick(size))
    BY <2>1, <1>3, TakeKeeps
  <2> QED BY <2>2
<1>4. CASE MallocExact(size)
  BY <1>3, <1>4 DEF MallocExact
<1>5. CASE MallocWhole(size)
  BY <1>3, <1>5 DEF MallocWhole
<1>6. CASE MallocSplit(size)
  <2>1. size \in Nat \ {0} BY <1>6 DEF MallocSplit
  <2>2. AllocInv' /\ Took(Pick(size)) BY <2>1, <1>6, SplitKeeps
  <2> QED BY <2>2
<1> QED BY <1>1, <1>4, <1>5, <1>6 DEF Malloc

\* What a step does: nothing, or one block is handed out, or one is given back.
LEMMA StepKeeps ==
  ASSUME AllocInv, [Next]_vars
  PROVE  AllocInv' /\ (UNCHANGED vars \/ (\E a : Took(a)) \/ (\E a : Gave(a)))
<1> USE AllocatorAssumption
<1>1. ASSUME UNCHANGED vars PROVE AllocInv'
  BY <1>1 DEF AllocInv, BlocksInv, HeapTypes, Links, NoneBetween, Apart,
       FreeBlocksMerged, IsFree, Owners, CountersRight, Mask, MEMORY, vars
<1>2. ASSUME NEW size \in Requests, Malloc(size)
      PROVE  UNCHANGED vars \/ (AllocInv' /\ \E a : Took(a))
  <2>1. size \in Nat /\ size <= WORD - ALIGNMENT
    OBVIOUS
  <2> QED BY <2>1, <1>2, MallocKeeps
<1>3. ASSUME NEW num \in Counts, NEW size \in Requests, Calloc(num, size)
      PROVE  UNCHANGED vars \/ (AllocInv' /\ \E a : Took(a))
  <2>1. CASE num * size >= WORD
    BY <2>1, <1>3 DEF Calloc
  <2>2. CASE ~ (num * size >= WORD)
    <3>1. num \in Nat /\ size \in Nat /\ num * size \in Nat OBVIOUS
    <3>2. num * size < WORD BY <2>2, <3>1
    <3>3. num * size <= WORD - ALIGNMENT BY <3>2
    <3>4. Malloc(num * size) BY <2>2, <1>3 DEF Calloc
    <3> QED BY <3>1, <3>3, <3>4, MallocKeeps
  <2> QED BY <2>1, <2>2
<1>4. ASSUME NEW a \in DOMAIN owned, Free(a)
      PROVE  AllocInv' /\ Gave(a)
  BY <1>4, BetweenKeeps, AfterFreeKeeps, BeforeFreeKeeps, AloneKeeps DEF Free
<1> QED BY <1>1, <1>2, <1>3, <1>4 DEF Next

\* The invariant holds in every state, for every size of the array, header,
\* alignment and word, whatever is asked for and freed, in any order.
THEOREM AllocatorInvariant == Spec => []AllocInv
<1>1. AllocInv /\ [Next]_vars => AllocInv'
  BY StepKeeps
<1> QED BY <1>1, InitInv, PTL DEF Spec

\* Two free blocks never touch, however the calls of malloc() and free() follow
\* each other.
THEOREM FreeBlocksAlwaysMerged == Spec => []FreeBlocksMerged
<1>1. AllocInv => FreeBlocksMerged BY DEF AllocInv
<1> QED BY <1>1, AllocatorInvariant, PTL

\* The statistics count the blocks and the pieces in use.
THEOREM CountersAlwaysRight == Spec => []CountersRight
<1>1. AllocInv => CountersRight BY DEF AllocInv
<1> QED BY <1>1, AllocatorInvariant, PTL

\* The linked list always holds every block, in the order of addresses, and the
\* next search starts within it.
THEOREM ListStaysWellFormed == Spec => []ListWellFormed
<1>1. AllocInv => ListWellFormed BY LinksMakeTheList DEF AllocInv, BlocksInv
<1> QED BY <1>1, AllocatorInvariant, PTL

-----------------------------------------------------------------------------
\* The piece that is handed out with the block a.
Piece(a) == [asked |-> owned[a], room |-> Mask(heap[a].size)]

\* The pieces are those of the blocks that are owned.
LEMMA PiecesOfBlocks ==
  ASSUME AllocInv
  PROVE  /\ DOMAIN Pieces = {a + HEADER : a \in DOMAIN owned}
         /\ \A a \in DOMAIN owned : a \in Nat /\ Pieces[a + HEADER] = Piece(a)
         /\ Pieces = [ptr \in DOMAIN Pieces |-> Pieces[ptr]]
<1>1. \A a \in DOMAIN owned : a \in Nat /\ (a + HEADER) - HEADER = a
  BY AllocatorAssumption DEF AllocInv, Owners, BlocksInv, HeapTypes
<1>2. DOMAIN Pieces = {a + HEADER : a \in DOMAIN owned}
  BY DEF Pieces
<1>3. ASSUME NEW a \in DOMAIN owned PROVE Pieces[a + HEADER] = Piece(a)
  <2>1. a + HEADER \in {b + HEADER : b \in DOMAIN owned} OBVIOUS
  <2> DEFINE ptr == a + HEADER
  <2>2. ptr - HEADER = a BY <1>1
  <2>3. Pieces[ptr] = [asked |-> owned[ptr - HEADER], room |-> Mask(heap[ptr - HEADER].size)]
    BY <2>1 DEF Pieces
  <2> HIDE DEF ptr
  <2>4. Pieces[ptr] = Piece(a) BY <2>2, <2>3 DEF Piece
  <2> QED BY <2>4 DEF ptr
<1>4. Pieces = [ptr \in DOMAIN Pieces |-> Pieces[ptr]]
  BY DEF Pieces
<1> QED BY <1>1, <1>2, <1>3, <1>4

\* The same of the pieces after a step.
LEMMA PiecesOfBlocksThen ==
  ASSUME AllocInv'
  PROVE  /\ DOMAIN Pieces' = {a + HEADER : a \in DOMAIN owned'}
         /\ \A a \in DOMAIN owned' : a \in Nat /\ Pieces'[a + HEADER] = Piece(a)'
         /\ Pieces' = [ptr \in DOMAIN Pieces' |-> Pieces'[ptr]]
<1>1. \A a \in DOMAIN owned' : a \in Nat /\ (a + HEADER) - HEADER = a
  BY AllocatorAssumption DEF AllocInv, Owners, BlocksInv, HeapTypes
<1>2. DOMAIN Pieces' = {a + HEADER : a \in DOMAIN owned'}
  BY DEF Pieces
<1>3. ASSUME NEW a \in DOMAIN owned' PROVE Pieces'[a + HEADER] = Piece(a)'
  <2>1. a + HEADER \in {b + HEADER : b \in DOMAIN owned'} OBVIOUS
  <2> DEFINE ptr == a + HEADER
  <2>2. ptr - HEADER = a BY <1>1
  <2>3. Pieces'[ptr] = [asked |-> owned'[ptr - HEADER], room |-> Mask(heap'[ptr - HEADER].size)]
    BY <2>1 DEF Pieces, Mask
  <2> HIDE DEF ptr
  <2>4. Pieces'[ptr] = Piece(a)' BY <2>2, <2>3 DEF Piece, Mask
  <2> QED BY <2>4 DEF ptr
<1>4. Pieces' = [ptr \in DOMAIN Pieces' |-> Pieces'[ptr]]
  BY DEF Pieces
<1> QED BY <1>1, <1>2, <1>3, <1>4

\* A block handed out is a piece that overlaps no other: Malloc of Heap.
LEMMA TakenPiece ==
  ASSUME AllocInv, AllocInv', NEW a, Took(a)
  PROVE  HeapOfPieces!Next
<1> USE AllocatorAssumption
<1> DEFINE ptr == a + HEADER
<1>1. /\ DOMAIN Pieces = {b + HEADER : b \in DOMAIN owned}
      /\ \A b \in DOMAIN owned : b \in Nat /\ Pieces[b + HEADER] = Piece(b)
  BY PiecesOfBlocks
<1>2. /\ DOMAIN Pieces' = {b + HEADER : b \in DOMAIN owned'}
      /\ \A b \in DOMAIN owned' : b \in Nat /\ Pieces'[b + HEADER] = Piece(b)'
  BY PiecesOfBlocksThen
<1>3. /\ a \notin DOMAIN owned /\ DOMAIN owned' = DOMAIN owned \cup {a}
      /\ \A b \in DOMAIN owned : owned'[b] = owned[b] /\ heap'[b].size = heap[b].size
  BY DEF Took
<1>4. a \in Nat /\ ptr - HEADER = a
  BY <1>2, <1>3
<1>5. ptr \notin DOMAIN Pieces /\ DOMAIN Pieces' = DOMAIN Pieces \cup {ptr}
  <2>1. \A b \in DOMAIN owned : b + HEADER # ptr BY <1>1, <1>3, <1>4
  <2> QED BY <2>1, <1>1, <1>2, <1>3
<1>6. \A b \in DOMAIN owned : Pieces'[b + HEADER] = Pieces[b + HEADER]
  <2> TAKE b \in DOMAIN owned
  <2>1. Piece(b)' = Piece(b) BY <1>3 DEF Piece, Mask
  <2>2. b \in DOMAIN owned' BY <1>3
  <2> QED BY <2>1, <2>2, <1>1, <1>2, Zenon
<1>7. ASSUME NEW b \in DOMAIN owned'
      PROVE  /\ b \in DOMAIN heap' /\ b \in Nat
             /\ Pieces'[b + HEADER].room \in Nat /\ Pieces'[b + HEADER].room <= heap'[b].size
             /\ Pieces'[b + HEADER].asked \in Nat \ {0}
             /\ Pieces'[b + HEADER].asked <= Pieces'[b + HEADER].room
             /\ b + HEADER + heap'[b].size <= MEMORY + MEMORY_SIZE
             /\ \A c \in DOMAIN heap' : b < c => b + HEADER + heap'[b].size <= c
             /\ heap'[b].size \in Nat
  <2>1. Pieces'[b + HEADER].room = Mask(heap'[b].size) /\ Pieces'[b + HEADER].asked = owned'[b]
    <3>1. Pieces'[b + HEADER] = Piece(b)' BY <1>2
    <3>2. Piece(b)'.room = Mask(heap'[b].size) /\ Piece(b)'.asked = owned'[b]
      BY DEF Piece, Mask
    <3> QED BY <3>1, <3>2, Zenon
  <2>2. b \in DOMAIN heap' /\ owned'[b] \in Nat \ {0} /\ owned'[b] <= Mask(heap'[b].size)
    BY DEF AllocInv, Owners, Mask
  <2>3. heap'[b].size \in Nat
    BY <2>2 DEF AllocInv, BlocksInv, HeapTypes, Field
  <2>4. Mask(heap'[b].size) \in Nat /\ Mask(heap'[b].size) <= heap'[b].size
    BY <2>3, MaskBelow
  <2>5. /\ b + HEADER + heap'[b].size <= MEMORY + MEMORY_SIZE
        /\ \A c \in DOMAIN heap' : b < c => b + HEADER + heap'[b].size <= c
    BY <2>2 DEF AllocInv, BlocksInv, Apart, MEMORY
  <2> QED BY <2>1, <2>2, <2>3, <2>4, <2>5, <1>2
<1>8. ASSUME NEW b \in DOMAIN owned, NEW q, q = b + HEADER
      PROVE  q + Pieces[q].room <= ptr - HEADER \/ ptr + Pieces'[ptr].room <= q - HEADER
  <2>1. a \in DOMAIN owned' /\ b \in DOMAIN owned' /\ a # b BY <1>3
  <2>2. Pieces[q].room = Pieces'[b + HEADER].room BY <1>6, <1>8
  <2>3. /\ b \in DOMAIN heap' /\ b \in Nat /\ heap'[b].size \in Nat
        /\ Pieces[q].room \in Nat /\ Pieces[q].room <= heap'[b].size
        /\ b < a => b + HEADER + heap'[b].size <= a
    BY <2>1, <2>2, <1>7
  <2>4. /\ a \in DOMAIN heap' /\ heap'[a].size \in Nat
        /\ Pieces'[ptr].room \in Nat /\ Pieces'[ptr].room <= heap'[a].size
        /\ a < b => a + HEADER + heap'[a].size <= b
    BY <2>1, <2>3, <1>7
  <2>5. q - HEADER = b BY <2>3, <1>8
  <2>6. HEADER \in Nat OBVIOUS
  <2>7. ptr = a + HEADER OBVIOUS
  <2> HIDE DEF ptr
  <2>8. CASE b < a
    <3>1. q + Pieces[q].room <= a BY <2>3, <2>6, <2>8, <1>4, <1>8
    <3> QED BY <3>1, <1>4
  <2>9. CASE a < b
    <3>1. ptr + Pieces'[ptr].room <= b BY <2>3, <2>4, <2>6, <2>7, <2>9, <1>4
    <3> QED BY <3>1, <2>5
  <2> QED BY <2>1, <2>3, <2>8, <2>9, <1>4
<1>9. /\ MEMORY <= ptr - HEADER /\ ptr + Pieces'[ptr].room <= MEMORY + MEMORY_SIZE
      /\ Pieces'[ptr].asked > 0 /\ Pieces'[ptr].room >= Pieces'[ptr].asked
  <2>1. /\ Pieces'[ptr].room \in Nat /\ Pieces'[ptr].room <= heap'[a].size
        /\ Pieces'[ptr].asked \in Nat \ {0}
        /\ Pieces'[ptr].asked <= Pieces'[ptr].room
        /\ a + HEADER + heap'[a].size <= MEMORY + MEMORY_SIZE
        /\ heap'[a].size \in Nat
    BY <1>3, <1>7
  <2>2. HEADER \in Nat /\ MEMORY = 0 /\ MEMORY_SIZE \in Nat /\ ptr = a + HEADER BY DEF MEMORY
  <2> HIDE DEF ptr
  <2> QED BY <2>1, <2>2, <1>4
<1> HIDE DEF ptr
<1>10. \A q \in DOMAIN Pieces :
         /\ Pieces'[q] = Pieces[q]
         /\ q + Pieces[q].room <= ptr - HEADER \/ ptr + Pieces'[ptr].room <= q - HEADER
  <2> TAKE q \in DOMAIN Pieces
  <2>1. PICK b \in DOMAIN owned : q = b + HEADER BY <1>1
  <2> QED BY <2>1, <1>6, <1>8
<1>11. HeapOfPieces!Malloc(ptr)
  BY <1>5, <1>9, <1>10 DEF HeapOfPieces!Malloc, HeapOfPieces!Ends
<1> QED BY <1>5, <1>11 DEF HeapOfPieces!Next

\* A block given back is a piece less: Free of Heap.
LEMMA GivenPiece ==
  ASSUME AllocInv, AllocInv', NEW a, Gave(a)
  PROVE  HeapOfPieces!Next
<1> USE AllocatorAssumption
<1> DEFINE ptr == a + HEADER
<1>1. /\ DOMAIN Pieces = {b + HEADER : b \in DOMAIN owned}
      /\ \A b \in DOMAIN owned : b \in Nat /\ Pieces[b + HEADER] = Piece(b)
  BY PiecesOfBlocks
<1>2. /\ DOMAIN Pieces' = {b + HEADER : b \in DOMAIN owned'}
      /\ \A b \in DOMAIN owned' : b \in Nat /\ Pieces'[b + HEADER] = Piece(b)'
      /\ Pieces' = [q \in DOMAIN Pieces' |-> Pieces'[q]]
  BY PiecesOfBlocksThen
<1>3. /\ a \in DOMAIN owned /\ DOMAIN owned' = DOMAIN owned \ {a}
      /\ \A b \in DOMAIN owned' : owned'[b] = owned[b] /\ heap'[b].size = heap[b].size
  BY DEF Gave
<1>4. ptr \in DOMAIN Pieces /\ DOMAIN Pieces' = DOMAIN Pieces \ {ptr}
  <2>1. \A b \in DOMAIN owned : b # a => b + HEADER # ptr BY <1>1, <1>3
  <2> QED BY <2>1, <1>1, <1>2, <1>3
<1>5. \A b \in DOMAIN owned' : Pieces'[b + HEADER] = Pieces[b + HEADER]
  <2> TAKE b \in DOMAIN owned'
  <2>1. Piece(b)' = Piece(b) BY <1>3 DEF Piece, Mask
  <2>2. b \in DOMAIN owned BY <1>3
  <2> QED BY <2>1, <2>2, <1>1, <1>2, Zenon
<1>6. \A q \in DOMAIN Pieces' : Pieces'[q] = Pieces[q]
  BY <1>2, <1>5
<1> HIDE DEF ptr
<1>7. Pieces' = [q \in DOMAIN Pieces \ {ptr} |-> Pieces[q]]
  BY <1>2, <1>4, <1>6
<1>8. HeapOfPieces!Free(ptr)
  BY <1>4, <1>7 DEF HeapOfPieces!Free
<1> QED BY <1>4, <1>8 DEF HeapOfPieces!Next

\* The allocator implements Heap: pieces are as long as was asked for and never
\* overlap, and malloc() and free() are the only steps the callers see.
THEOREM ImplementsHeap == Spec => HeapSpec
<1>1. Init => HeapOfPieces!Init
  <2> SUFFICES ASSUME Init PROVE Pieces = [ptr \in {} |-> 0]
    BY DEF HeapOfPieces!Init
  <2>1. {a + HEADER : a \in DOMAIN owned} = {} BY DEF Init
  <2> QED BY <2>1 DEF Pieces
<1>2. AllocInv /\ AllocInv' /\ [Next]_vars => [HeapOfPieces!Next]_Pieces
  <2> SUFFICES ASSUME AllocInv, AllocInv', [Next]_vars
               PROVE  HeapOfPieces!Next \/ Pieces' = Pieces
    OBVIOUS
  <2>1. CASE UNCHANGED vars
    BY <2>1 DEF vars, Pieces, Mask
  <2> QED BY <2>1, StepKeeps, TakenPiece, GivenPiece
<1> QED BY <1>1, <1>2, AllocatorInvariant, PTL DEF Spec, HeapSpec, HeapOfPieces!Spec

\* malloc() returns a null pointer only if no free block is large enough: the
\* next-fit search overlooks none.
THEOREM RefusesOnlyForWantOfRoom == Spec => []RefusesOnlyWhenNoneFits
<1>1. AllocInv => RefusesOnlyWhenNoneFits
  <2> SUFFICES ASSUME AllocInv, NEW size \in Requests \ {0}, Pick(size) = Null,
                      NEW a \in DOMAIN heap, IsFree(a)
               PROVE  Mask(heap[a].size) < Aligned(size)
    BY DEF RefusesOnlyWhenNoneFits
  <2>1. ~ (Mask(heap[a].size) >= Aligned(size))
    BY PickFits DEF AllocInv, BlocksInv, IsFree
  <2>2. Mask(heap[a].size) \in Nat
    BY SizeOf DEF AllocInv
  <2>3. size \in Nat /\ size <= WORD - ALIGNMENT
    BY AllocatorAssumption
  <2>4. Aligned(size) \in Nat
    BY <2>3, AlignedAbove
  <2> QED BY <2>1, <2>2, <2>4
<1> QED BY <1>1, AllocatorInvariant, PTL

\* Once everything is freed the heap is one block again, whatever was split and
\* in whatever order it was freed.
THEOREM AllFreedLeavesOne == Spec => []AllFreedIsOneBlock
<1>1. AllocInv => AllFreedIsOneBlock
  <2> SUFFICES ASSUME AllocInv, num_allocations = 0 PROVE num_blocks = 1
    BY DEF AllFreedIsOneBlock
  <2>1. /\ BlocksInv /\ DOMAIN owned \subseteq DOMAIN heap
        /\ \A a \in DOMAIN heap : heap[a].used <=> a \in DOMAIN owned
        /\ IsFiniteSet(DOMAIN heap) /\ MEMORY \in DOMAIN heap /\ DOMAIN heap \subseteq Nat
    BY DEF AllocInv, Owners, BlocksInv, HeapTypes
  <2>2. DOMAIN owned = {}
    BY <2>1, FS_Subset, FS_EmptySet DEF AllocInv, CountersRight
  <2>3. heap[MEMORY].next = Null
    <3> SUFFICES ASSUME heap[MEMORY].next # Null PROVE FALSE
      OBVIOUS
    <3>1. heap[MEMORY].next \in DOMAIN heap BY <2>1 DEF BlocksInv, Links
    <3>2. IsFree(MEMORY) BY <2>1, <2>2, AllocatorAssumption DEF IsFree
    <3>3. IsFree(heap[MEMORY].next) BY <3>1, <2>1, <2>2 DEF IsFree
    <3> QED BY <3>2, <3>3, <2>1 DEF AllocInv, FreeBlocksMerged
  <2>4. DOMAIN heap = {MEMORY}
    <3> SUFFICES ASSUME NEW b \in DOMAIN heap PROVE ~ (MEMORY < b)
      BY <2>1 DEF MEMORY
    <3> QED BY <2>1, <2>3 DEF BlocksInv, NoneBetween
  <2> QED BY <2>4, FS_Singleton DEF AllocInv, CountersRight
<1> QED BY <1>1, AllocatorInvariant, PTL
=============================================================================
