------------------------------ MODULE Threads -------------------------------
(***************************************************************************)
(* The thread scheduler of kernel/threads.cpp on its one core.             *)
(*                                                                         *)
(* Interrupt and svc handlers run with interrupts masked, so each of them  *)
(* is one action: Tick (the timer), Yield (svc 5) and Terminate (svc 4).   *)
(* create() runs in the calling thread with interrupts enabled and is one  *)
(* action per shared memory access; a tick may come between any two of     *)
(* them unless the environment assumption ~TickInCreate excludes it.       *)
(***************************************************************************)
EXTENDS IntrusiveQueue, Integers

CONSTANTS ThreadCount,      \* config::thread_count
          MaxThreadId,      \* the largest unsigned int
          Creators,         \* the threads whose code calls create()
          TickInCreate      \* may the timer interrupt a create()?

Slot == 0 .. ThreadCount - 1           \* indices into threads[]
Main == 0                              \* the thread of start_kernel

ASSUME ThreadsAssumption ==
  /\ ThreadCount \in Nat \ {0}
  /\ MaxThreadId \in Nat \ {0}
  /\ Creators \subseteq Slot
  /\ TickInCreate \in BOOLEAN
  /\ Null \notin Slot

VARIABLES state,            \* thread_control_block::state
          registers,        \* thread_control_block::registers
          running,          \* thread_running
          ready,            \* thread_ready_queue, and every next pointer
          thread_id,        \* the counter of the same name
          live,             \* the registers of the processor
          panicked,         \* panic() was called
          order             \* history: the waiting threads in FIFO order

vars == <<state, registers, running, ready, thread_id, live, panicked, order>>

-----------------------------------------------------------------------------
State == {"empty", "ready", "running"}

(* Program points of a thread, as far as this module tells them apart.     *)
Point == {"run", "init", "take_id", "store_id", "add", "link", "set_tail"}

(* What save_registers() stores: the stack, the program point and the      *)
(* local variables of create().                                            *)
Context == [stack : Slot, pc : Point, block : Link(Slot), tail : Link(Slot),
            id : 0 .. MaxThreadId]

(* A thread that starts at its entry point, on its own stack.              *)
Fresh(t) == [stack |-> t, pc |-> "run", block |-> Null, tail |-> Null, id |-> 0]

\* A plausible slip: an index off by one, so two threads share a stack.
SharedStack(t) == Fresh(IF t > 1 THEN t - 1 ELSE t)

StartContext(t) == Fresh(t)

Init ==
  /\ state = [t \in Slot |-> IF t = Main THEN "running" ELSE "empty"]
  /\ registers = [t \in Slot |-> Fresh(t)]
  /\ running = Main
  /\ ready = EmptyQueue(Slot)
  /\ thread_id = 1
  /\ live = Fresh(Main)
  /\ panicked = FALSE
  /\ order = <<>>

-----------------------------------------------------------------------------
(* yield_thread(): the current thread goes behind the ready queue and the  *)
(* queue's first thread runs.  A panic is the end of the system, so what   *)
(* the handler stored before it panicked is left out.                      *)

StayOnCpu == Peek(ready) = Null /\ UNCHANGED vars

\* A plausible slip: the next thread is taken before the current is queued.
SwitchInFront ==
  /\ Peek(ready) # Null
  /\ ~AddPanics(ready, running)
  /\ LET next == Peek(ready) IN
     /\ state' = [state EXCEPT ![running] = "ready", ![next] = "running"]
     /\ registers' = [registers EXCEPT ![running] = live]
     /\ live' = registers[next]
     /\ running' = next
     /\ ready' = [Remove(ready) EXCEPT !.head = running,
                    !.next = [@ EXCEPT ![running] = Remove(ready).head],
                    !.tail = IF Remove(ready).head = Null THEN running ELSE @]
  /\ order' = Tail(Append(order, running))
  /\ UNCHANGED <<thread_id, panicked>>

SwitchThread ==
  /\ Peek(ready) # Null
  /\ panicked' = AddPanics(ready, running)
  /\ IF panicked'
     THEN UNCHANGED <<state, registers, live, running, ready, order>>
     ELSE LET queued == Add(ready, running)
              next   == Peek(queued)
          IN /\ state' = [state EXCEPT ![running] = "ready", ![next] = "running"]
             /\ registers' = [registers EXCEPT ![running] = live]
             /\ live' = IF next = running THEN live ELSE registers[next]
             /\ running' = next
             /\ ready' = Remove(queued)
             /\ order' = Tail(Append(order, running))
  /\ UNCHANGED thread_id

YieldThread == StayOnCpu \/ SwitchThread

Tick == /\ ~panicked
        /\ TickInCreate \/ live.pc = "run"
        /\ YieldThread

Yield == /\ ~panicked
         /\ live.pc = "run"
         /\ YieldThread

-----------------------------------------------------------------------------
(* terminate_thread(): start_kernel never returns, so Main does not end.   *)

WantsToEnd == ~panicked /\ live.stack # Main /\ live.pc = "run"

\* A plausible slip: the ended thread is put back as if it had yielded.
TerminateRequeues ==
  /\ WantsToEnd
  /\ Peek(ready) # Null
  /\ LET next == Peek(ready) IN
     /\ state' = [state EXCEPT ![running] = "empty", ![next] = "running"]
     /\ live' = registers[next]
     /\ running' = next
  /\ ready' = Remove(Add(ready, running))
  /\ order' = IF order = <<>> THEN <<>> ELSE Tail(order)
  /\ UNCHANGED <<registers, thread_id, panicked>>

(* thread_continue_next() panics when it finds no thread to run.           *)
Terminate ==
  /\ WantsToEnd
  /\ panicked' = (Peek(ready) = Null)
  /\ IF panicked'
     THEN /\ state' = [state EXCEPT ![running] = "empty"]
          /\ UNCHANGED <<running, ready, live, order>>
     ELSE /\ state' = [state EXCEPT ![running] = "empty", ![Peek(ready)] = "running"]
          /\ live' = registers[Peek(ready)]
          /\ running' = Peek(ready)
          /\ ready' = Remove(ready)
          /\ order' = IF order = <<>> THEN <<>> ELSE Tail(order)
  /\ UNCHANGED <<registers, thread_id>>

-----------------------------------------------------------------------------
(* create(): prepare_thread() then start_thread().                         *)

EmptySlots == {t \in Slot : state[t] = "empty"}

(* The scan of threads[] is one step: while a creator scans, other threads *)
(* can only free slots, which at worst makes it choose a higher one.       *)
CreateScan ==
  /\ ~panicked
  /\ live.pc = "run" /\ live.stack \in Creators
  /\ thread_id # MaxThreadId
  /\ \E t \in EmptySlots :
       /\ \A u \in EmptySlots : t <= u
       /\ live' = [live EXCEPT !.pc = "init", !.block = t]
  /\ UNCHANGED <<state, registers, running, ready, thread_id, panicked, order>>

At(point) == ~panicked /\ live.pc = point

(* *block = thread_control_block(...), which also clears next.             *)
CreateInit ==
  /\ At("init")
  /\ registers' = [registers EXCEPT ![live.block] = StartContext(live.block)]
  /\ state' = [state EXCEPT ![live.block] = "ready"]
  /\ ready' = [ready EXCEPT !.next = [@ EXCEPT ![live.block] = Null]]
  /\ live' = [live EXCEPT !.pc = "take_id"]
  /\ UNCHANGED <<running, thread_id, panicked, order>>

(* thread_id++ is a load and a store.                                      *)
CreateTakeId ==
  /\ At("take_id")
  /\ live' = [live EXCEPT !.pc = "store_id", !.id = thread_id]
  /\ UNCHANGED <<state, registers, running, ready, thread_id, panicked, order>>

CreateStoreId ==
  /\ At("store_id")
  /\ thread_id' = (live.id + 1) % (MaxThreadId + 1)
  /\ live' = [live EXCEPT !.pc = "add"]
  /\ UNCHANGED <<state, registers, running, ready, panicked, order>>

(* thread_ready_queue.add(block), one store at a time.                     *)
CreateLoadTail ==
  /\ At("add")
  /\ panicked' = AddPanics(ready, live.block)
  /\ live' = [live EXCEPT !.pc = "link", !.tail = ready.tail]
  /\ UNCHANGED <<state, registers, running, ready, thread_id, order>>

CreateLink ==
  /\ At("link")
  /\ ready' = LinkLast(ready, live.tail, live.block)
  /\ live' = [live EXCEPT !.pc = "set_tail"]
  /\ UNCHANGED <<state, registers, running, thread_id, panicked, order>>

CreateSetTail ==
  /\ At("set_tail")
  /\ ready' = SetTail(ready, live.block)
  /\ order' = Append(order, live.block)
  /\ live' = [live EXCEPT !.pc = "run", !.block = Null, !.tail = Null, !.id = 0]
  /\ UNCHANGED <<state, registers, running, thread_id, panicked>>

CreateStep == \/ CreateInit \/ CreateTakeId \/ CreateStoreId
              \/ CreateLoadTail \/ CreateLink \/ CreateSetTail

Next == \/ Tick \/ Yield \/ Terminate
        \/ CreateScan \/ CreateStep

(* The timer is re-armed by its own interrupt, so ticks never cease, and a *)
(* processor that is not interrupted goes on with create().                *)
Spec == Init /\ [][Next]_vars /\ WF_vars(Tick) /\ WF_vars(CreateStep)

-----------------------------------------------------------------------------
(* Properties.                                                             *)

\* Types of the variables.
TypeOK ==
  /\ state \in [Slot -> State]
  /\ registers \in [Slot -> Context]
  /\ running \in Slot
  /\ ready \in Queue(Slot)
  /\ thread_id \in 0 .. MaxThreadId
  /\ live \in Context
  /\ panicked \in BOOLEAN
  /\ order \in Seq(Slot)

\* Whatever order threads yield, end, are preempted and create others in,
\* the processor executes the thread that thread_running names and every
\* saved context is that of its own thread: no thread ever resumes on the
\* stack of another one.
ContextsKept ==
  /\ live.stack = running
  /\ \A t \in Slot : registers[t].stack = t

\* Exactly the thread that thread_running names is marked running.
OneRunning == ~panicked => \A t \in Slot : state[t] = "running" <=> t = running

Creating == live.pc \notin {"run", "init"}

\* The linked ready queue is the FIFO of the waiting threads, with every
\* link and both ends right; between the two stores of add() it is one
\* store away from it.
QueueIsOrder ==
  IF live.pc = "set_tail"
  THEN Represents(SetTail(ready, live.block), Append(order, live.block), Slot)
  ELSE Represents(ready, order, Slot)

\* The states in the control blocks and the ready queue tell the same story:
\* the waiting threads are those marked ready, but for the one that create()
\* has marked and not queued yet, and the running thread is not among them.
StatesMatchQueue ==
  \A t \in Slot :
    state[t] = "ready" <=> t \in Elements(order) \/ (Creating /\ t = live.block)

\* The panics of the queue and of thread_continue_next() do not happen:
\* main never ends, so a terminating thread always finds one to run.
NoPanic == ~panicked

\* What a creator holds between the steps of create(): a slot that is still
\* empty when it is initialised and not queued until add(), the tail of the
\* queue as it is, and no other thread stopped inside create().
CreatorHolds ==
  /\ \A t \in Slot : registers[t].pc = "run"
  /\ live.pc # "run" => live.block \in Slot
  /\ live.pc = "init" => state[live.block] = "empty"
  /\ Creating => live.block \notin Elements(order)
  /\ live.pc = "link" => live.tail = ready.tail

\* The thread of start_kernel never leaves the scheduler: it runs or it waits.
MainIsScheduled == running = Main \/ Main \in Elements(order)

\* The inductive invariant of the scheduler.
SchedulerInv ==
  /\ TypeOK
  /\ ContextsKept
  /\ \A t \in Slot : state[t] = "running" <=> t = running
  /\ QueueIsOrder
  /\ StatesMatchQueue
  /\ CreatorHolds
  /\ MainIsScheduled
  /\ NoPanic

\* A thread that is ready eventually runs: nobody is starved or forgotten.
ReadyThreadRuns ==
  \A t \in Slot : (state[t] = "ready") ~> (running = t)

\* The scheduler implements RoundRobin.
RR == INSTANCE RoundRobin WITH Thread <- Slot, Main <- Main,
                               current <- running, line <- order
RoundRobinSpec == RR!Spec
=============================================================================
