------------------------------ MODULE EventFifo -----------------------------
(***************************************************************************)
(* What the event queue of an event loop promises to those who fire events *)
(* and to the coroutines that wait for them: first in, first out, nothing  *)
(* lost or invented, and an event is refused only while the queue is full. *)
(***************************************************************************)
EXTENDS Sequences, Naturals

CONSTANTS Event,           \* the events that can be fired
          Capacity,        \* how many of them can wait
          Nothing          \* no event was read yet

VARIABLES fifo,            \* the waiting events
          got              \* the event read last

fifoVars == <<fifo, got>>

Init == fifo = <<>> /\ got = Nothing

Fire == /\ Len(fifo) < Capacity
        /\ \E e \in Event : fifo' = Append(fifo, e)
        /\ UNCHANGED got

Read == /\ fifo # <<>>
        /\ got' = Head(fifo)
        /\ fifo' = Tail(fifo)

Next == Fire \/ Read

Spec == Init /\ [][Next]_fifoVars
=============================================================================
