--------------------------- MODULE IntrusiveQueue ---------------------------
(***************************************************************************)
(* kernel::queue<T> of include/lib/queue.hpp: a singly linked FIFO whose   *)
(* links live inside the queued elements (queue_mixin::next), as the       *)
(* scheduler uses it (Threads).  EventLoops takes the operations on yield  *)
(* queues apart into single accesses to memory.                            *)
(*                                                                         *)
(* A queue value is a record: the two pointers of the queue object and the *)
(* next pointer of every element that could be put into it.  All operators *)
(* are pure; the modules that own a queue decide which steps are atomic.   *)
(***************************************************************************)
EXTENDS Naturals, Sequences

CONSTANT Null                          \* nullptr

Link(S)  == S \cup {Null}
Queue(S) == [head : Link(S), tail : Link(S), next : [S -> Link(S)]]

EmptyQueue(S) == [head |-> Null, tail |-> Null, next |-> [n \in S |-> Null]]

-----------------------------------------------------------------------------
(* Operations.                                                             *)

Peek(q) == q.head

(* add() panics on an element that still carries a link.                   *)
AddPanics(q, y) == q.next[y] # Null

(* The first store of add(): behind the old tail t, or into head.          *)
LinkLast(q, t, y) ==
  IF t # Null THEN [q EXCEPT !.next = [@ EXCEPT ![t] = y]]
              ELSE [q EXCEPT !.head = y]

(* The second store of add().                                              *)
SetTail(q, y) == [q EXCEPT !.tail = y]

\* A plausible slip: the new element is linked but tail is left behind.
AddForgetsTail(q, y) == IF q.tail # Null THEN LinkLast(q, q.tail, y)
                        ELSE SetTail(LinkLast(q, q.tail, y), y)

Add(q, y) == SetTail(LinkLast(q, q.tail, y), y)

(* remove() returns Peek(q) and leaves Remove(q).                          *)
Remove(q) ==
  IF q.head = Null THEN q
  ELSE [head |-> q.next[q.head],
        tail |-> IF q.next[q.head] = Null THEN Null ELSE q.tail,
        next |-> [q.next EXCEPT ![q.head] = Null]]

-----------------------------------------------------------------------------
(* What a queue value means.                                               *)

Elements(s) == {s[i] : i \in 1 .. Len(s)}

(* q is a correct linked representation of the sequence s of elements of   *)
(* S: no element twice, head and tail at the ends, every link to the       *)
(* successor, and no link left in an element that is not queued (which is  *)
(* what lets it be added again).                                           *)
Represents(q, s, S) ==
  /\ q \in Queue(S)
  /\ s \in Seq(S)
  /\ \A i, j \in 1 .. Len(s) : s[i] = s[j] => i = j
  /\ q.head = IF s = <<>> THEN Null ELSE s[1]
  /\ q.tail = IF s = <<>> THEN Null ELSE s[Len(s)]
  /\ \A i \in 1 .. Len(s) :
       q.next[s[i]] = IF i < Len(s) THEN s[i + 1] ELSE Null
  /\ \A n \in S \ Elements(s) : q.next[n] = Null
=============================================================================
