-------------------------- MODULE InterruptsProofs --------------------------
(***************************************************************************)
(* Proofs about Interrupts, for any number of threads and whatever their   *)
(* instructions do: through every handler and every switch of threads each *)
(* thread goes on behind the instructions it is done with, and the address *)
(* that a handler computes is that of the instruction at fault.            *)
(***************************************************************************)
EXTENDS Interrupts, FiniteSetTheorems, TLAPS

T == Thread \cup {Main}

InterruptTypes ==
  /\ running \in T /\ ready \in Seq(T)
  /\ saved \in [T -> Int] /\ pc \in Int
  /\ type \in {"none"} \cup DOMAIN Link
  /\ frame \in Int
  /\ done \in [T -> Nat]

(* A thread is in one place only: a switch would save over the context of  *)
(* a thread that is there twice.                                           *)
PlaceInv ==
  /\ \A k \in 1 .. Len(ready) : ready[k] # running
  /\ \A j, k \in 1 .. Len(ready) : j # k => ready[j] # ready[k]

(* No thread gets behind its last instruction.                             *)
DoneInv == \A t \in T : done[t] < Len(Code[t])

(* A handler has the frame of the instruction that raised its exception.   *)
FrameInv ==
  /\ type # "none" => frame = pc + Link[type]
  /\ type \notin {"none", "irq"} => Instruction # "plain" /\ type = TypeOf(Instruction)

(* The inductive invariant.                                                *)
InterruptInv ==
  /\ InterruptTypes /\ PlaceInv /\ DoneInv /\ FrameInv
  /\ NoInstructionLostOrRepeated

-----------------------------------------------------------------------------
(* Instructions.                                                           *)

\* The handlers of the numbers that calls leave in r0.
LEMMA Handlers ==
  /\ svc_handlers[4] = "terminate_thread" /\ svc_handlers[5] = "yield_thread"
  /\ \A n \in Number("svc_yield") : n = 5
  /\ \A n \in Number("svc_terminate") : n = 4
BY DEF svc_handlers, Number

\* What is added to the address of an instruction and subtracted again.
LEMMA LinkAndBack ==
  ASSUME NEW k \in DOMAIN Link
  PROVE  Link[k] \in Int /\ Back[k] \in Int /\ Link[k] - Back[k] = IF k = "irq" THEN 0 - 4 ELSE 0
BY DEF Link, Back

\* Exceptions have types that handle_interrupt() knows.
LEMMA TypesKnown ==
  /\ "irq" \in DOMAIN Link /\ "software_interrupt" \in DOMAIN Link
  /\ \A kind \in Kinds \ {"plain"} : TypeOf(kind) \in DOMAIN Link \ {"irq"}
BY DEF Link, TypeOf, Kinds

\* A thread that is not in the event loop is at the instruction behind those it
\* is done with, and at the last one it cannot go on.
LEMMA AtInstruction ==
  ASSUME InterruptInv, pc # EventLoop
  PROVE  LET n == done[running] + 1
             code == Code[running]
         IN  /\ pc = 4 * done[running] /\ n \in 1 .. Len(code)
             /\ Instruction = code[n] /\ Instruction \in Kinds
             /\ Loops <=> n = Len(code)
             /\ Instruction \notin {"plain", "svc_terminate"} => n < Len(code)
<1> DEFINE n == done[running] + 1
           code == Code[running]
<1>1. /\ running \in T /\ done[running] \in Nat /\ done[running] < Len(code)
      /\ code \in Seq(Kinds) /\ code # <<>>
      /\ Last(code) \in {"plain", "svc_terminate"}
  BY InterruptsAssumption DEF InterruptInv, InterruptTypes, DoneInv, T
<1>2. pc = 4 * done[running]
  BY DEF InterruptInv, NoInstructionLostOrRepeated, Alive, Continuation
<1> HIDE DEF code
<1>3. pc \div 4 = done[running] /\ n \in 1 .. Len(code)
  BY <1>1, <1>2
<1>4. Instruction = code[n] /\ (Loops <=> n = Len(code))
  BY <1>3 DEF Instruction, Loops, code
<1>5. code[n] \in Kinds
  BY <1>1, <1>3
<1>6. code[n] \notin {"plain", "svc_terminate"} => n < Len(code)
  BY <1>1, <1>3 DEF Last
<1> QED BY <1>2, <1>3, <1>4, <1>5, <1>6 DEF code

\* In the handler of an exception the thread is not in the event loop, and the
\* address is where it is; in that of an irq it is one instruction before.
LEMMA InHandler ==
  ASSUME InterruptInv, type # "none"
  PROVE  /\ address = IF type = "irq" THEN pc - 4 ELSE pc
         /\ type # "irq" => pc # EventLoop
<1>1. type \in DOMAIN Link /\ frame = pc + Link[type] /\ pc \in Int
  BY DEF InterruptInv, InterruptTypes, FrameInv
<1>2. /\ Link[type] \in Int /\ Back[type] \in Int
      /\ Link[type] - Back[type] = IF type = "irq" THEN 0 - 4 ELSE 0
  BY <1>1, LinkAndBack
<1>3. address = IF type = "irq" THEN pc - 4 ELSE pc
  BY <1>1, <1>2 DEF address
<1>4. type # "irq" => pc # EventLoop
  BY DEF InterruptInv, FrameInv, Instruction
<1> QED BY <1>3, <1>4

\* A handler other than that of terminate() is not called at the last
\* instruction of a thread.
LEMMA NotAtTheEnd ==
  ASSUME InterruptInv, type \notin {"none", "irq"},
         type = "software_interrupt" =>
           \E h \in {"yield_thread", "nullptr"} : handle_svc(h)
  PROVE  /\ pc = 4 * done[running]
         /\ done[running] + 1 < Len(Code[running])
<1>1. pc # EventLoop
  BY InHandler
<1>2. Instruction # "plain" /\ type = TypeOf(Instruction)
  BY DEF InterruptInv, FrameInv
<1>3. Instruction # "svc_terminate"
  <2> SUFFICES ASSUME Instruction = "svc_terminate" PROVE FALSE
    OBVIOUS
  <2>1. type = "software_interrupt"
    BY <1>2 DEF TypeOf
  <2> QED BY <2>1, Handlers DEF handle_svc
<1> QED BY <1>1, <1>2, <1>3, AtInstruction

-----------------------------------------------------------------------------
(* Switches.                                                               *)

\* The running thread goes on at pc' with done' instructions behind it, and
\* nothing else changes.
LEMMA SameThread ==
  ASSUME InterruptInv, UNCHANGED <<running, ready, saved, frame>>,
         done' \in [T -> Nat], \A t \in T \ {running} : done'[t] = done[t],
         done'[running] < Len(Code[running]),
         pc' \in {4 * done'[running], EventLoop},
         type' \in {"none"} \cup DOMAIN Link, FrameInv'
  PROVE  InterruptInv'
<1>1. InterruptTypes'
  BY DEF InterruptInv, InterruptTypes, EventLoop
<1>2. PlaceInv' /\ DoneInv'
  BY DEF InterruptInv, PlaceInv, DoneInv
<1>3. NoInstructionLostOrRepeated'
  <2> SUFFICES ASSUME NEW t \in Alive'
               PROVE  Continuation(t)' \in {4 * done'[t], EventLoop}
    BY DEF NoInstructionLostOrRepeated
  <2>1. t \in Alive /\ t \in T
    BY DEF Alive, InterruptInv, InterruptTypes
  <2>2. CASE t = running
    BY <2>2 DEF Continuation
  <2>3. CASE t # running
    BY <2>1, <2>3 DEF Continuation, InterruptInv, NoInstructionLostOrRepeated
  <2> QED BY <2>2, <2>3
<1> QED BY <1>1, <1>2, <1>3 DEF InterruptInv

\* A switch from a thread, saved to go on at next, to the first one that is
\* ready.
LEMMA SwitchThreads ==
  ASSUME InterruptInv, ready # <<>>, NEW next \in Int,
         saved' = [saved EXCEPT ![running] = next],
         running' = Head(ready), ready' = Append(Tail(ready), running),
         pc' = saved[Head(ready)], type' = "none", UNCHANGED frame,
         done' \in [T -> Nat], \A t \in T \ {running} : done'[t] = done[t],
         done'[running] < Len(Code[running]),
         next \in {4 * done'[running], EventLoop}
  PROVE  InterruptInv'
<1> DEFINE n == Len(ready)
<1>1. /\ running \in T /\ ready \in Seq(T) /\ n \in Nat \ {0}
      /\ saved \in [T -> Int] /\ PlaceInv /\ Head(ready) = ready[1]
  BY DEF InterruptInv, InterruptTypes
<1>2. Head(ready) \in T /\ Head(ready) # running
  BY <1>1 DEF PlaceInv
<1>3. /\ Len(ready') = n
      /\ \A k \in 1 .. n : ready'[k] = IF k = n THEN running ELSE ready[k + 1]
  BY <1>1
<1>4. InterruptTypes'
  <2>1. ready' \in Seq(T)
    BY <1>1
  <2>2. saved' \in [T -> Int] /\ pc' \in Int
    BY <1>1, <1>2
  <2> QED BY <1>2, <2>1, <2>2 DEF InterruptInv, InterruptTypes
<1>5. PlaceInv'
  <2>a. /\ \A k \in 1 .. n : ready[k] # running
        /\ \A j, k \in 1 .. n : j # k => ready[j] # ready[k]
    BY <1>1 DEF PlaceInv
  <2>b. running' = ready[1] /\ running # ready[1] /\ n \in Nat \ {0}
    BY <1>1, <1>2
  <2> HIDE DEF n
  <2>1. \A k \in 1 .. n : ready'[k] # running'
    <3> SUFFICES ASSUME NEW k \in 1 .. n PROVE ready'[k] # ready[1]
      BY <2>b
    <3>1. CASE k = n   BY <1>3, <2>b, <3>1
    <3>2. CASE k # n
      <4>1. k + 1 \in 1 .. n /\ k + 1 # 1 /\ 1 \in 1 .. n
        BY <2>b, <3>2
      <4> QED BY <1>3, <2>a, <3>2, <4>1
    <3> QED BY <3>1, <3>2
  <2>2. \A j, k \in 1 .. n : j # k => ready'[j] # ready'[k]
    <3> SUFFICES ASSUME NEW j \in 1 .. n, NEW k \in 1 .. n, j # k
                 PROVE  ready'[j] # ready'[k]
      OBVIOUS
    <3>1. /\ j # n => j + 1 \in 1 .. n
          /\ k # n => k + 1 \in 1 .. n
          /\ j + 1 # k + 1
      BY <2>b
    <3>2. CASE j # n /\ k # n  BY <1>3, <2>a, <3>1, <3>2
    <3>3. CASE j = n           BY <1>3, <2>a, <3>1, <3>3
    <3>4. CASE k = n           BY <1>3, <2>a, <3>1, <3>4
    <3> QED BY <3>2, <3>3, <3>4
  <2> QED BY <1>3, <2>1, <2>2 DEF PlaceInv
<1>6. DoneInv' /\ FrameInv'
  BY DEF InterruptInv, DoneInv, FrameInv
<1>7. NoInstructionLostOrRepeated'
  <2> SUFFICES ASSUME NEW t \in Alive'
               PROVE  Continuation(t)' \in {4 * done'[t], EventLoop}
    BY DEF NoInstructionLostOrRepeated
  <2>1. t \in Alive /\ t \in T
    <3>1. t = Head(ready) \/ \E k \in 1 .. n : t = ready'[k]
      BY <1>3 DEF Alive
    <3>2. Head(ready) \in Alive
      BY <1>1 DEF Alive
    <3>3. \A k \in 1 .. n : ready'[k] \in Alive
      <4> SUFFICES ASSUME NEW k \in 1 .. n PROVE ready'[k] \in Alive
        OBVIOUS
      <4>1. k # n => k + 1 \in 1 .. n
        BY <1>1
      <4> QED BY <1>3, <4>1 DEF Alive
    <3>4. Alive \subseteq T
      BY <1>1 DEF Alive
    <3> QED BY <3>1, <3>2, <3>3, <3>4
  <2>2. CASE t = running
    <3>1. Continuation(t)' = next
      BY <1>1, <1>2, <2>2 DEF Continuation
    <3> QED BY <2>2, <3>1
  <2>3. CASE t # running
    <3>1. Continuation(t)' = saved[t]
      BY <1>1, <2>1, <2>3 DEF Continuation
    <3>2. saved[t] \in {4 * done[t], EventLoop}
      BY <2>1, <2>3 DEF Continuation, InterruptInv, NoInstructionLostOrRepeated
    <3> QED BY <2>1, <2>3, <3>1, <3>2
  <2> QED BY <2>2, <2>3
<1> QED BY <1>4, <1>5, <1>6, <1>7 DEF InterruptInv

\* yield_thread() with address a: the running thread will go on behind it.
LEMMA YieldStep ==
  ASSUME InterruptInv, NEW a \in Int, yield_thread(a),
         done' \in [T -> Nat], \A t \in T \ {running} : done'[t] = done[t],
         done'[running] < Len(Code[running]),
         a + 4 \in {4 * done'[running], EventLoop}
  PROVE  InterruptInv'
<1>1. CASE ready = <<>>
  <2>1. /\ pc' = a + 4 /\ type' = "none" /\ UNCHANGED frame
        /\ UNCHANGED <<running, ready, saved>>
    BY <1>1 DEF yield_thread, Resume
  <2>2. FrameInv'
    BY <2>1 DEF FrameInv
  <2> QED BY <2>1, <2>2, SameThread
<1>2. CASE ready # <<>>
  <2>1. /\ saved' = [saved EXCEPT ![running] = a + 4]
        /\ running' = Head(ready) /\ ready' = Append(Tail(ready), running)
        /\ pc' = saved[Head(ready)] - 4 + 4 /\ type' = "none" /\ UNCHANGED frame
    BY <1>2 DEF yield_thread, Resume
  <2>2. saved[Head(ready)] \in Int
    BY <1>2 DEF InterruptInv, InterruptTypes
  <2>3. pc' = saved[Head(ready)]
    BY <2>1, <2>2
  <2>4. a + 4 \in Int
    OBVIOUS
  <2> QED BY <1>2, <2>1, <2>3, <2>4, SwitchThreads
<1> QED BY <1>1, <1>2

-----------------------------------------------------------------------------
(* The steps.                                                              *)

\* An instruction is executed that is not the last one.
LEMMA ExecuteStep ==
  ASSUME InterruptInv, Execute
  PROVE  InterruptInv'
<1>1. type = "none" /\ Instruction = "plain" /\ UNCHANGED <<running, ready, saved, type, frame>>
  BY DEF Execute
<1>2. FrameInv'
  BY <1>1 DEF FrameInv
<1>3. /\ running \in T /\ done \in [T -> Nat] /\ done[running] < Len(Code[running])
      /\ pc \in {4 * done[running], EventLoop} /\ type \in {"none"} \cup DOMAIN Link
  BY DEF InterruptInv, InterruptTypes, DoneInv, NoInstructionLostOrRepeated, Alive, Continuation
<1>4. CASE Loops
  <2>1. UNCHANGED <<pc, done>>
    BY <1>4 DEF Execute
  <2> QED BY <1>1, <1>2, <1>3, <2>1, SameThread
<1>5. CASE ~Loops
  <2>1. pc' = pc + 4 /\ done' = [done EXCEPT ![running] = @ + 1]
    BY <1>5 DEF Execute
  <2>2. pc # EventLoop
    BY <1>5 DEF Loops
  <2>3. /\ pc = 4 * done[running]
        /\ done[running] + 1 \in 1 .. Len(Code[running])
        /\ done[running] + 1 # Len(Code[running])
    BY <1>5, <2>2, AtInstruction
  <2>4. /\ done' \in [T -> Nat] /\ \A t \in T \ {running} : done'[t] = done[t]
        /\ done'[running] = done[running] + 1
    BY <1>3, <2>1
  <2>5. Len(Code[running]) \in Nat
    BY <1>3, InterruptsAssumption DEF T
  <2>6. done'[running] < Len(Code[running]) /\ pc' = 4 * done'[running]
    BY <1>3, <2>1, <2>3, <2>4, <2>5
  <2> QED BY <1>1, <1>2, <1>3, <2>4, <2>6, SameThread
<1> QED BY <1>4, <1>5

\* A handler is entered.
LEMMA EnterStep ==
  ASSUME InterruptInv, NEW k \in DOMAIN Link, Enter(k),
         k # "irq" => Instruction # "plain" /\ k = TypeOf(Instruction)
  PROVE  InterruptInv'
<1>1. type' = k /\ frame' = pc + Link[k] /\ UNCHANGED <<running, ready, saved, pc, done>>
  BY DEF Enter
<1>2. InterruptTypes'
  <2>1. Link[k] \in Int
    BY LinkAndBack
  <2> QED BY <1>1, <2>1 DEF InterruptInv, InterruptTypes
<1>3. PlaceInv' /\ DoneInv'
  BY <1>1 DEF InterruptInv, PlaceInv, DoneInv
<1>4. FrameInv'
  BY <1>1 DEF FrameInv, Instruction
<1>5. NoInstructionLostOrRepeated'
  BY <1>1 DEF InterruptInv, NoInstructionLostOrRepeated, Alive, Continuation
<1> QED BY <1>2, <1>3, <1>4, <1>5 DEF InterruptInv

\* The user answers the prompt.
LEMMA PromptStep ==
  ASSUME InterruptInv, handle_exception
  PROVE  InterruptInv'
<1>1. /\ type \notin {"none", "irq"}
      /\ type = "software_interrupt" => handle_svc("nullptr")
      /\ UNCHANGED <<running, ready, saved, frame>> /\ type' = "none"
  BY DEF handle_exception, handle_svc, Resume
<1>2. address = pc /\ pc = 4 * done[running] /\ done[running] + 1 < Len(Code[running])
  BY <1>1, InHandler, NotAtTheEnd
<1>3. running \in T /\ done \in [T -> Nat] /\ pc \in Int /\ Len(Code[running]) \in Nat
  BY InterruptsAssumption DEF InterruptInv, InterruptTypes, T
<1>4. FrameInv'
  BY <1>1 DEF FrameInv
<1>5. CASE pc' = address + 4 /\ Done
  <2>1. /\ done' \in [T -> Nat] /\ \A t \in T \ {running} : done'[t] = done[t]
        /\ done'[running] = done[running] + 1
    BY <1>3, <1>5 DEF Done
  <2>2. pc' = 4 * done'[running] /\ done'[running] < Len(Code[running])
    BY <1>2, <1>3, <1>5, <2>1
  <2> QED BY <1>1, <1>4, <2>1, <2>2, SameThread
<1>6. CASE pc' \in {address, EventLoop} /\ UNCHANGED done
  <2>1. done'[running] < Len(Code[running]) /\ pc' \in {4 * done'[running], EventLoop}
    BY <1>2, <1>3, <1>6
  <2> QED BY <1>1, <1>3, <1>4, <1>6, <2>1, SameThread
<1> QED BY <1>5, <1>6 DEF handle_exception, Resume

\* The handler of an irq returns.
LEMMA IrqStep ==
  ASSUME InterruptInv, TimerIrq \/ OtherIrq
  PROVE  InterruptInv'
<1>1. type = "irq" /\ UNCHANGED done
  BY DEF TimerIrq, OtherIrq
<1>2. /\ running \in T /\ done \in [T -> Nat] /\ done[running] < Len(Code[running])
      /\ pc \in {4 * done[running], EventLoop} /\ pc \in Int
  BY DEF InterruptInv, InterruptTypes, DoneInv, NoInstructionLostOrRepeated, Alive, Continuation
<1>3. address = pc - 4
  BY <1>1, InHandler
<1>4. address \in Int /\ address + 4 = pc
  BY <1>2, <1>3
<1>5. CASE TimerIrq
  <2>1. yield_thread(address)
    BY <1>5 DEF TimerIrq
  <2> HIDE DEF address
  <2> QED BY <1>1, <1>2, <1>4, <2>1, YieldStep
<1>6. CASE OtherIrq
  <2>1. /\ pc' = address + 4 /\ type' = "none"
        /\ UNCHANGED <<running, ready, saved, frame>>
    BY <1>6 DEF OtherIrq, Resume
  <2>2. FrameInv'
    BY <2>1 DEF FrameInv
  <2> QED BY <1>1, <1>2, <1>4, <2>1, <2>2, SameThread
<1> QED BY <1>5, <1>6

\* yield().
LEMMA SvcYieldStep ==
  ASSUME InterruptInv, SvcYield
  PROVE  InterruptInv'
<1>1. type = "software_interrupt" /\ handle_svc("yield_thread") /\ yield_thread(address) /\ Done
  BY DEF SvcYield, handle_svc
<1>2. address = pc /\ pc = 4 * done[running] /\ done[running] + 1 < Len(Code[running])
  BY <1>1, InHandler, NotAtTheEnd
<1>3. running \in T /\ done \in [T -> Nat] /\ pc \in Int /\ Len(Code[running]) \in Nat
  BY InterruptsAssumption DEF InterruptInv, InterruptTypes, T
<1>4. /\ done' \in [T -> Nat] /\ \A t \in T \ {running} : done'[t] = done[t]
      /\ done'[running] = done[running] + 1
  BY <1>1, <1>3 DEF Done
<1>5. done'[running] < Len(Code[running]) /\ pc + 4 = 4 * done'[running]
  BY <1>2, <1>3, <1>4
<1>6. yield_thread(pc)
  BY <1>1, <1>2
<1> QED BY <1>3, <1>4, <1>5, <1>6, YieldStep

\* terminate(): the first ready thread has the processor.
LEMMA SvcTerminateStep ==
  ASSUME InterruptInv, SvcTerminate
  PROVE  InterruptInv'
<1> DEFINE n == Len(ready)
<1>0. /\ ready # <<>> /\ running' = Head(ready) /\ ready' = Tail(ready)
      /\ pc' = saved[Head(ready)] - 4 + 4 /\ type' = "none"
      /\ UNCHANGED <<saved, done, frame>>
  BY DEF SvcTerminate, Resume
<1>1. /\ ready \in Seq(T) /\ n \in Nat \ {0} /\ saved \in [T -> Int] /\ Head(ready) = ready[1]
      /\ ready[1] \in T
  BY <1>0 DEF InterruptInv, InterruptTypes
<1>2. pc' = saved[ready[1]]
  <2>1. saved[ready[1]] \in Int
    BY <1>1
  <2> QED BY <1>0, <1>1, <2>1
<1>3. /\ Len(ready') = n - 1 /\ ready' \in Seq(T)
      /\ \A k \in 1 .. n - 1 : ready'[k] = ready[k + 1]
  BY <1>0, <1>1
<1>4. \A k \in 1 .. n - 1 : k + 1 \in 1 .. n /\ k + 1 # 1 /\ 1 \in 1 .. n
  BY <1>1
<1>5. InterruptTypes'
  BY <1>0, <1>1, <1>2, <1>3 DEF InterruptInv, InterruptTypes
<1>6. PlaceInv'
  <2>1. \A j, k \in 1 .. n : j # k => ready[j] # ready[k]
    BY DEF InterruptInv, PlaceInv
  <2> HIDE DEF n
  <2>2. \A k \in 1 .. n - 1 : ready'[k] # ready[1]
    BY <1>3, <1>4, <2>1
  <2>3. \A j, k \in 1 .. n - 1 : j # k => ready'[j] # ready'[k]
    <3> SUFFICES ASSUME NEW j \in 1 .. n - 1, NEW k \in 1 .. n - 1, j # k
                 PROVE  ready'[j] # ready'[k]
      OBVIOUS
    <3>1. j + 1 # k + 1
      BY <1>1
    <3> QED BY <1>3, <1>4, <2>1, <3>1
  <2> QED BY <1>0, <1>1, <1>3, <2>2, <2>3 DEF PlaceInv
<1>7. DoneInv' /\ FrameInv'
  BY <1>0 DEF InterruptInv, DoneInv, FrameInv
<1>8. NoInstructionLostOrRepeated'
  <2> SUFFICES ASSUME NEW t \in Alive'
               PROVE  Continuation(t)' \in {4 * done[t], EventLoop}
    BY <1>0 DEF NoInstructionLostOrRepeated
  <2>1. t = ready[1] \/ \E k \in 1 .. n - 1 : t = ready[k + 1]
    BY <1>0, <1>1, <1>3 DEF Alive
  <2>2. PICK k \in 1 .. n : t = ready[k]
    BY <1>1, <1>4, <2>1
  <2>3. t \in Alive /\ t # running
    BY <2>2 DEF Alive, InterruptInv, PlaceInv
  <2>4. Continuation(t)' = saved[t]
    BY <1>0, <1>1, <1>2 DEF Continuation
  <2>5. Continuation(t) = saved[t]
    BY <2>3 DEF Continuation
  <2>6. Continuation(t) \in {4 * done[t], EventLoop}
    BY <2>3 DEF InterruptInv, NoInstructionLostOrRepeated
  <2> QED BY <2>4, <2>5, <2>6
<1> QED BY <1>5, <1>6, <1>7, <1>8 DEF InterruptInv

\* Every step keeps the invariant.
LEMMA InterruptNext == InterruptInv /\ [Next]_vars => InterruptInv'
<1> SUFFICES ASSUME InterruptInv, [Next]_vars PROVE InterruptInv'
  OBVIOUS
<1>1. CASE UNCHANGED vars
  BY <1>1 DEF vars, InterruptInv, InterruptTypes, PlaceInv, DoneInv, FrameInv, Instruction,
              NoInstructionLostOrRepeated, Alive, Continuation
<1>2. CASE Execute
  BY <1>2, ExecuteStep
<1>3. CASE Exception
  <2>1. Instruction # "plain" /\ Enter(TypeOf(Instruction))
    BY <1>3 DEF Exception
  <2>2. Instruction \in Kinds
    BY <2>1, AtInstruction DEF Instruction
  <2>3. TypeOf(Instruction) \in DOMAIN Link
    BY <2>1, <2>2, TypesKnown
  <2> QED BY <2>1, <2>3, EnterStep
<1>4. CASE Irq
  BY <1>4, EnterStep, TypesKnown DEF Irq
<1>5. CASE handle_exception
  BY <1>5, PromptStep
<1>6. CASE TimerIrq \/ OtherIrq
  BY <1>6, IrqStep
<1>7. CASE SvcYield
  BY <1>7, SvcYieldStep
<1>8. CASE SvcTerminate
  BY <1>8, SvcTerminateStep
<1> QED BY <1>1, <1>2, <1>3, <1>4, <1>5, <1>6, <1>7, <1>8 DEF Next

\* The initial states satisfy the invariant: every created thread is ready once.
LEMMA InterruptInit == Init => InterruptInv
<1> SUFFICES ASSUME Init PROVE InterruptInv
  OBVIOUS
<1> DEFINE n == Cardinality(Thread)
<1>1. n \in Nat
  BY InterruptsAssumption, FS_CardinalityType
<1>2. /\ ready \in [1 .. n -> Thread]
      /\ \A j, k \in 1 .. n : j # k => ready[j] # ready[k]
  BY DEF Init, SetToSeqs
<1>3. ready \in Seq(T) /\ Len(ready) = n
  <2> HIDE DEF n
  <2>1. ready \in Seq(Thread) /\ Len(ready) = n
    BY <1>1, <1>2
  <2> QED BY <2>1 DEF T
<1>4. InterruptTypes
  BY <1>3 DEF Init, InterruptTypes, T
<1>5. PlaceInv
  BY <1>2, <1>3, InterruptsAssumption DEF Init, PlaceInv
<1>6. DoneInv
  <2>1. \A t \in T : Len(Code[t]) \in Nat /\ Len(Code[t]) # 0
    BY InterruptsAssumption DEF T
  <2>2. \A t \in T : done[t] = 0
    BY DEF Init, T
  <2> QED BY <2>1, <2>2 DEF DoneInv
<1>7. FrameInv
  BY DEF Init, FrameInv
<1>8. NoInstructionLostOrRepeated
  <2>1. Alive \subseteq T
    BY <1>2, <1>3 DEF Init, Alive, T
  <2> QED BY <2>1 DEF Init, NoInstructionLostOrRepeated, Continuation, T
<1> QED BY <1>4, <1>5, <1>6, <1>7, <1>8 DEF InterruptInv

-----------------------------------------------------------------------------
\* The inductive invariant of interrupts, exceptions and switches of threads.
THEOREM InterruptInvariant == Spec => []InterruptInv
BY InterruptInit, InterruptNext, PTL DEF Spec

\* Every thread goes on behind the instructions it is done with.
THEOREM NothingLostOrRepeated == Spec => []NoInstructionLostOrRepeated
<1>1. InterruptInv => NoInstructionLostOrRepeated
  BY DEF InterruptInv
<1> QED BY <1>1, InterruptInvariant, PTL

\* handle_interrupt() computes the address of the instruction at fault.
THEOREM AddressIsAlwaysAtFault == Spec => []AddressIsAtFault
<1>1. InterruptInv => AddressIsAtFault
  BY InHandler DEF AddressIsAtFault
<1> QED BY <1>1, InterruptInvariant, PTL
=============================================================================
