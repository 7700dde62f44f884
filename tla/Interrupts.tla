------------------------------ MODULE Interrupts ----------------------------
(***************************************************************************)
(* How a thread gets into an interrupt or exception handler and back:      *)
(* handle_interrupt() of arch/arm/interrupts.cpp, the handlers that it     *)
(* dispatches to, and the program counters that threads.cpp saves and      *)
(* restores in between.  The processor's own part, the link register that  *)
(* each kind of exception leaves, is external.                             *)
(*                                                                         *)
(* Every address is computed as in the code; the rest of a context is the  *)
(* business of Threads.  Threads are in ready order as in RoundRobin.      *)
(***************************************************************************)
EXTENDS Integers, Sequences, FiniteSets, SequencesExt

CONSTANTS Thread,           \* threads that were created, besides Main
          Main,
          Code,             \* what the instructions of a thread do
          R0                \* what r0 may hold when nobody loaded it

Kinds == {"plain", "undefined_instruction", "prefetch_abort", "data_abort",
          "svc_yield", "svc_terminate", "svc_other"}

EventLoop == -100           \* the address of run_main_event_loop()

(* The calls register_svc() was told of, by threads::init(); nullptr       *)
(* everywhere else.                                                        *)
svc_handlers == [n \in 0 .. 255 |->
  CASE n = 4 -> "terminate_thread"
    [] n = 5 -> "yield_thread"
    [] OTHER -> "nullptr"]

(* Main ends in its event loop, other threads in terminate().  A number    *)
(* beyond the table would be read from the memory behind it.               *)
ASSUME InterruptsAssumption ==
  /\ R0 \subseteq DOMAIN svc_handlers
  /\ IsFiniteSet(Thread) /\ Main \notin Thread
  /\ \A t \in Thread \cup {Main} :
       /\ Code[t] \in Seq(Kinds) /\ Code[t] # <<>>
       /\ Last(Code[t]) = IF t = Main THEN "plain" ELSE "svc_terminate"
       /\ \A k \in 1 .. Len(Code[t]) - 1 : Code[t][k] # "svc_terminate"

VARIABLES running,          \* thread_running
          ready,            \* thread_ready_queue
          saved,            \* registers.pc of each thread control block
          pc,               \* the program counter of the processor
          type,             \* interrupt_type, or "none" in a thread
          frame,            \* registers->pc, on the stack of the handler
          done              \* history: instructions each thread is done with

vars == <<running, ready, saved, pc, type, frame, done>>

Init == /\ running = Main
        /\ ready \in SetToSeqs(Thread)
        /\ saved = [t \in Thread \cup {Main} |-> 0]
        /\ pc = 0
        /\ type = "none" /\ frame = 0
        /\ done = [t \in Thread \cup {Main} |-> 0]

-----------------------------------------------------------------------------
(* The processor, and the trampolines that make the frame.                 *)

Instruction == IF pc = EventLoop THEN "plain" ELSE Code[running][pc \div 4 + 1]
Loops == pc = EventLoop \/ pc \div 4 + 1 = Len(Code[running])

(* The link register, relative to the instruction that caused the          *)
(* exception or, for an irq, was about to be executed.                     *)
Link == [irq |-> 4, data_abort |-> 8, undefined_instruction |-> 4,
         prefetch_abort |-> 4, software_interrupt |-> 4]

Execute ==
  /\ type = "none" /\ Instruction = "plain"
  /\ IF Loops THEN UNCHANGED <<pc, done>>
     ELSE pc' = pc + 4 /\ done' = [done EXCEPT ![running] = @ + 1]
  /\ UNCHANGED <<running, ready, saved, type, frame>>

TypeOf(kind) ==
  IF kind \in {"svc_yield", "svc_terminate", "svc_other"}
  THEN "software_interrupt" ELSE kind

Enter(t) ==
  /\ type' = t
  /\ frame' = pc + Link[t]
  /\ UNCHANGED <<running, ready, saved, pc, done>>

(* The numbers that the code in front of a call leaves in r0: yield() and  *)
(* terminate() load theirs, the syscall command of the shell loads none.   *)
Number(kind) == CASE kind = "svc_yield"     -> {5}
                  [] kind = "svc_terminate" -> {4}
                  [] kind = "svc_other"     -> R0

Exception == type = "none" /\ Instruction # "plain" /\ Enter(TypeOf(Instruction))
Irq       == type = "none" /\ Enter("irq")

-----------------------------------------------------------------------------
(* handle_interrupt(): the address of the instruction at fault or, for an  *)
(* irq, of the last one that was finished.                                 *)

\* A plausible slip: an irq is taken for an exception.
BackTooLittle == [irq |-> 4, data_abort |-> 8, undefined_instruction |-> 4,
                  prefetch_abort |-> 4, software_interrupt |-> 4]

Back == [irq |-> 8, data_abort |-> 8, undefined_instruction |-> 4,
         prefetch_abort |-> 4, software_interrupt |-> 4]

address == frame - Back[type]

(* The second switch, with the address that the handler leaves, and the    *)
(* return to the thread.                                                   *)
Resume(a, result) ==
  /\ pc' = CASE result = "next"       -> a + 4
             [] result = "repeat"     -> a
             [] result = "event_loop" -> EventLoop
  /\ type' = "none"
  /\ UNCHANGED frame

Done == done' = [done EXCEPT ![running] = @ + 1]

(* handle_svc(): the handler that the number in r0 selects.                *)
handle_svc(handler) ==
  /\ type = "software_interrupt"
  /\ \E n \in Number(Instruction) : svc_handlers[n] = handler

(* handle_exception(): the user answers n, r or e.                         *)
handle_exception ==
  /\ \/ type \in {"undefined_instruction", "prefetch_abort", "data_abort"}
     \/ handle_svc("nullptr")
  /\ \/ Resume(address, "next") /\ Done
     \/ Resume(address, "repeat") /\ UNCHANGED done
     \/ Resume(address, "event_loop") /\ UNCHANGED done
  /\ UNCHANGED <<running, ready, saved>>

\* A plausible slip: the context is taken to point to the next instruction.
SaveWithoutFour(a) ==
  IF ready = <<>> THEN Resume(a, "next") /\ UNCHANGED <<running, ready, saved>>
  ELSE /\ saved' = [saved EXCEPT ![running] = a]
       /\ running' = Head(ready)
       /\ ready' = Append(Tail(ready), running)
       /\ Resume(saved[Head(ready)] - 4, "next")

(* yield_thread(), save_registers() and restore_registers().               *)
yield_thread(a) ==
  IF ready = <<>> THEN Resume(a, "next") /\ UNCHANGED <<running, ready, saved>>
  ELSE /\ saved' = [saved EXCEPT ![running] = a + 4]
       /\ running' = Head(ready)
       /\ ready' = Append(Tail(ready), running)
       /\ Resume(saved[Head(ready)] - 4, "next")

TimerIrq == type = "irq" /\ yield_thread(address) /\ UNCHANGED done

OtherIrq == /\ type = "irq"
            /\ Resume(address, "next")
            /\ UNCHANGED <<running, ready, saved, done>>

SvcYield == /\ handle_svc("yield_thread")
            /\ yield_thread(address)
            /\ Done

(* With no thread ready the system panics, which ends the model.           *)
SvcTerminate == /\ handle_svc("terminate_thread")
                /\ ready # <<>>
                /\ running' = Head(ready)
                /\ ready' = Tail(ready)
                /\ Resume(saved[Head(ready)] - 4, "next")
                /\ UNCHANGED <<saved, done>>

Next == \/ Execute \/ Exception \/ Irq
        \/ handle_exception \/ TimerIrq \/ OtherIrq \/ SvcYield \/ SvcTerminate

Spec == Init /\ [][Next]_vars

-----------------------------------------------------------------------------
(* Properties.                                                             *)

Alive == {running} \cup {ready[k] : k \in 1 .. Len(ready)}

(* Where thread t goes on when it has the processor next.                  *)
Continuation(t) == IF t = running THEN pc ELSE saved[t]

\* Every thread goes on behind the instructions it is done with, whatever
\* interrupts, exceptions and other threads came between: none is skipped and
\* none executed twice, unless the user asked for it at the prompt.  The one
\* exception is a thread that the user sent into the event loop.
NoInstructionLostOrRepeated ==
  \A t \in Alive : Continuation(t) \in {4 * done[t], EventLoop}

\* The prompt reports the address of the instruction at fault: "{} an
\* Adresse: {:#010x}"; an interrupt that strikes between two instructions has
\* that of the last one finished.
AddressIsAtFault ==
  type # "none" => address = IF type = "irq" THEN pc - 4 ELSE pc
=============================================================================
