------------------------------ MODULE RoundRobin ----------------------------
(***************************************************************************)
(* What the thread scheduler of kernel/threads.cpp promises, with no       *)
(* thread control blocks, registers or linked lists: one thread runs, the  *)
(* others wait in a line, a switch sends the running thread to the end of  *)
(* the line and runs the thread at its front, and the thread that started  *)
(* the kernel never ends.                                                  *)
(***************************************************************************)
EXTENDS Sequences, Naturals

CONSTANTS Thread,          \* the thread control blocks
          Main             \* the thread that runs start_kernel

VARIABLES current,         \* the running thread
          line             \* the waiting threads, longest wait first

rrVars == <<current, line>>

Waiting == {line[i] : i \in 1 .. Len(line)}

Init == current = Main /\ line = <<>>

Spawn == \E t \in Thread \ (Waiting \cup {current}) :
           /\ line' = Append(line, t)
           /\ UNCHANGED current

Switch == /\ line # <<>>
          /\ current' = Head(line)
          /\ line' = Append(Tail(line), current)

Exit == /\ current # Main
        /\ line # <<>>
        /\ current' = Head(line)
        /\ line' = Tail(line)

Next == Spawn \/ Switch \/ Exit

Safety == Init /\ [][Next]_rrVars

Spec == Safety /\ WF_rrVars(Switch)
=============================================================================
