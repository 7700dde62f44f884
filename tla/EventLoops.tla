----------------------------- MODULE EventLoops -----------------------------
(***************************************************************************)
(* The two event loops of the kernel, each run by a thread of its own, and *)
(* the four coroutines that start_kernel() submits to them: step(),        *)
(* process_events(), the awaiters of include/kernel/events.hpp, the yield  *)
(* queues and move_to_event_loop().  A fifth coroutine, "line", is         *)
(* terminal(), which the coroutine named terminal calls for each line.     *)
(*                                                                         *)
(* The timer switches threads anywhere, so a step of this module is one    *)
(* access to memory that both threads use, and either thread may take the  *)
(* next one.  What a thread has loaded is in its registers.  The rings of  *)
(* events are sequences (EventRing), and a coroutine is the list of the    *)
(* things it waits for; what it prints and computes is left out.           *)
(*                                                                         *)
(* Nothing in the code keeps the two threads out of each other's way.  The *)
(* history variable met records in which ways they have met, and the       *)
(* properties say what each meeting may spoil.                             *)
(***************************************************************************)
EXTENDS Integers, FiniteSets, Sequences

CONSTANTS Null,             \* nullptr
          MaxEvents,        \* bound on the events that wait in a loop
          TickPeriod        \* the 10 of event_loop::step

Loop == {"main", "test"}
Type == {"tick", "serial_rx", "system_timer"}
Coroutine == {"test", "debug", "terminal", "timer", "line"}

ASSUME LoopsAssumption ==
  /\ MaxEvents \in Nat \ {0} /\ TickPeriod \in Nat \ {0}
  /\ Null \notin Coroutine \cup Loop \cup Type

VARIABLES panicked,         \* the panic that stopped the kernel, Null before
          boot,             \* coroutines still to be submitted
          thread,           \* of each loop: where it is, and its registers
          met,              \* history: how the two threads have met
          counter,          \* event_loop::counter, modulo TickPeriod
          events,           \* event_loop::event_queue
          slot,             \* event_loop::event_awaiters
          await_next,       \* awaiter::next, of the awaiter in each coroutine
          head, tail,       \* event_loop::yield_queue
          yield_next,       \* queue_mixin::next, of the yield in each
          current,          \* event_loop::current_coroutine
          frame, parent, event_loop,    \* of each coroutine: Coroutines
          at                \* the next thing that each coroutine does

INSTANCE Coroutines

ring      == <<counter, events>>
awaiters  == <<slot, await_next>>
queues    == <<head, tail, yield_next>>
promises  == <<frame, parent, event_loop>>
vars == <<panicked, boot, thread, met, ring, awaiters, queues, current, promises, at>>

-----------------------------------------------------------------------------
(* What the coroutines of start_kernel() do.                               *)

Await(type) == [op |-> "await", arg |-> type]
MoveTo(loop) == [op |-> "yield", arg |-> loop]
YieldHere   == [op |-> "yield", arg |-> Null]
Call(c)     == [op |-> "call", arg |-> c]
Return      == [op |-> "return", arg |-> Null]

Script ==
  [test     |-> <<YieldHere, MoveTo("main"), Await("system_timer"),
                  MoveTo("test"), Return>>,
   debug    |-> <<Await("serial_rx")>>,
   terminal |-> <<Call("line"), MoveTo("test"), Await("tick"), MoveTo("main")>>,
   line     |-> <<Await("serial_rx"), Await("serial_rx"), Return>>,
   timer    |-> <<Await("system_timer")>>]

(* A line has two characters or more, enough to tell those that arrive in  *)
(* one step from those that do not; the terminal moves when the line is    *)
(* "move"; the others repeat, or end with Return.                          *)
After(c) ==
  CASE c = "line" /\ at[c] = 2     -> {2, 3}
    [] c = "terminal" /\ at[c] = 1 -> {1, 2}
    [] OTHER -> {IF at[c] = Len(Script[c]) THEN 1 ELSE at[c] + 1}

Op(c) == Script[c][at[c]]

\* Where coroutine c continues once it is resumed again.
Advance(c) == \E n \in After(c) : at' = [at EXCEPT ![c] = n]

(* The order of the calls of submit_coroutine(), and the loops they are    *)
(* for.  The thread of the test loop starts after the first.               *)
Submissions == <<"test", "debug", "terminal", "timer">>
SubmittedTo(c) == IF c = "test" THEN "test" ELSE "main"

(* A thread: the point it is at, the coroutine that it executes, those     *)
(* that it has still to resume, the point at which it goes on after them,  *)
(* and what it has loaded.                                                 *)
Idle(point) == [pc |-> point, active |-> Null, todo |-> <<>>, return |-> "step",
                loop |-> Null, target |-> Null, type |-> Null, other |-> Null]

Init ==
  /\ panicked = Null
  /\ boot = Submissions
  /\ thread = [l \in Loop |-> Idle(IF l = "main" THEN "boot" ELSE "step")]
  /\ met = {}
  /\ counter = [l \in Loop |-> 0]
  /\ events = [l \in Loop |-> <<>>]
  /\ slot = [l \in Loop |-> [t \in Type |-> Null]]
  /\ await_next = [c \in Coroutine |-> Null]
  /\ head = [l \in Loop |-> Null] /\ tail = [l \in Loop |-> Null]
  /\ yield_next = [c \in Coroutine |-> Null]
  /\ current = [l \in Loop |-> Null]
  /\ frame = [c \in Coroutine |-> "none"]
  /\ parent = [c \in Coroutine |-> Null]
  /\ event_loop = [c \in Coroutine |-> Null]
  /\ at = [c \in Coroutine |-> 1]

-----------------------------------------------------------------------------
(* How the two threads can meet.                                           *)

Other(l) == CHOOSE k \in Loop : k # l

(* Thread l is within add() to the queue of loop k: it has loaded tail and *)
(* not yet stored it.                                                      *)
Adding(l, k) == thread[l].pc \in {"link", "set_tail"} /\ thread[l].target = k

(* Thread l is within remove() of its own queue.                           *)
Removing(l) == thread[l].pc \in {"take_next", "take_head", "take_tail", "take_link"}

(* Thread l has queued coroutine c elsewhere and not yet set its loop.     *)
Leaving(l, c) ==
  /\ thread[l].pc \in {"set_tail", "clear_current", "set_loop"}
  /\ thread[l].active = c /\ thread[l].loop # thread[l].target

(* Thread l has loaded the event loop of coroutine c, or executes c.       *)
Resuming(l, c) ==
  \/ thread[l].pc = "resume" /\ Head(thread[l].todo) = c
  \/ thread[l].active = c

(* "overlap": one thread is within add() to the queue of the other, which  *)
(*   is within remove() or add() of the same.                              *)
(* "early": a coroutine is resumed before it has been moved altogether.    *)
(* "reuse": one thread has destroyed a frame that it is about to read,     *)
(*   while the other allocates one.                                        *)
Overlap == \E l \in Loop : LET k == Other(l) IN Adding(l, k) /\ (Removing(k) \/ Adding(k, k))
Early == \E l \in Loop, c \in Coroutine : Leaving(l, c) /\ Resuming(Other(l), c)
Reuse == \E l \in Loop : LET k == Other(l) IN
           thread[l].pc = "final" /\ thread[k].pc = "coroutine" /\ Op(thread[k].active).op = "call"

Meetings == {m \in {"overlap", "early", "reuse"} :
               \/ m = "overlap" /\ Overlap
               \/ m = "early" /\ Early
               \/ m = "reuse" /\ Reuse}

Apart == met = {}

-----------------------------------------------------------------------------
(* The steps of a thread.                                                  *)

TestThreadStarted ==
  Len(boot) < 4 /\ (Len(boot) = 3 => thread["main"].pc = "boot")

At(l, point) ==
  /\ panicked = Null /\ thread[l].pc = point
  /\ l = "test" => TestThreadStarted

PanicIf(condition, panic) == panicked' = IF condition THEN panic ELSE panicked

Goto(l, point) == thread' = [thread EXCEPT ![l].pc = point]

(* The coroutine that thread l executes suspends.                          *)
Suspend(l) ==
  LET t == thread[l] IN
  thread' = [thread EXCEPT ![l] =
    IF t.todo = <<>> THEN Idle(t.return)
    ELSE [Idle("complete") EXCEPT !.todo = t.todo, !.return = t.return]]

(* A store to current_coroutine of the loop that the thread has loaded.    *)
StoreCurrent(l, c) ==
  current' = IF thread[l].loop = Null THEN current ELSE [current EXCEPT ![thread[l].loop] = c]

(* The timer and serial port interrupts fire events in the main loop.      *)
Interrupt(type) ==
  /\ panicked = Null
  /\ Len(events["main"]) < MaxEvents
  /\ events' = [events EXCEPT !["main"] = Append(@, type)]
  /\ UNCHANGED <<panicked, boot, thread, met, counter, awaiters, queues, current, promises, at>>

-----------------------------------------------------------------------------
(* submit_coroutine(), called by start_kernel() in the main thread.        *)

Submit(l) ==
  /\ l = "main" /\ At(l, "boot") /\ boot # <<>>
  /\ LET c == Head(boot) IN
     /\ Create(c, SubmittedTo(c))
     /\ current' = [current EXCEPT ![SubmittedTo(c)] = c]
     /\ thread' = [thread EXCEPT ![l] =
                     [Idle("coroutine") EXCEPT !.active = c, !.return = "submitted"]]
  /\ boot' = Tail(boot)
  /\ UNCHANGED <<panicked, ring, awaiters, queues, at>>

(* The coroutine object that was submitted goes out of scope.              *)
Submitted(l) ==
  /\ At(l, "submitted")
  /\ Destructor(Submissions[4 - Len(boot)])
  /\ thread' = [thread EXCEPT ![l] = Idle("boot")]
  /\ UNCHANGED <<panicked, boot, ring, awaiters, queues, current, at>>

EnterMainLoop(l) ==
  /\ At(l, "boot") /\ boot = <<>>
  /\ Goto(l, "step")
  /\ UNCHANGED <<panicked, boot, ring, awaiters, queues, current, promises, at>>

-----------------------------------------------------------------------------
(* step() and the events of process_events().                              *)

\* A plausible slip: only the main loop gets ticks.
StepTicksMain(l) ==
  /\ At(l, "step")
  /\ events' = IF l = "main" /\ counter[l] = 0 /\ Len(events[l]) < MaxEvents
               THEN [events EXCEPT ![l] = Append(@, "tick")] ELSE events
  /\ Goto(l, "events")
  /\ UNCHANGED <<panicked, boot, counter, awaiters, queues, current, promises, at>>

Step(l) ==
  /\ At(l, "step")
  /\ events' = IF counter[l] = 0 /\ Len(events[l]) < MaxEvents
               THEN [events EXCEPT ![l] = Append(@, "tick")] ELSE events
  /\ Goto(l, "events")
  /\ UNCHANGED <<panicked, boot, counter, awaiters, queues, current, promises, at>>

NoEvent(l) ==
  /\ At(l, "events") /\ events[l] = <<>>
  /\ Goto(l, "yields")
  /\ UNCHANGED <<panicked, boot, ring, awaiters, queues, current, promises, at>>

TakeEvent(l) ==
  /\ At(l, "events") /\ events[l] # <<>>
  /\ thread' = [thread EXCEPT ![l].pc = "load_slot", ![l].type = Head(events[l])]
  /\ events' = [events EXCEPT ![l] = Tail(@)]
  /\ UNCHANGED <<panicked, boot, counter, awaiters, queues, current, promises, at>>

LoadSlot(l) ==
  /\ At(l, "load_slot")
  /\ LET a == slot[l][thread[l].type] IN
     thread' = [thread EXCEPT ![l] =
       IF a = Null THEN Idle("yields")
       ELSE [@ EXCEPT !.pc = "clear_slot", !.todo = <<a>>]]
  /\ UNCHANGED <<panicked, boot, ring, awaiters, queues, current, promises, at>>

\* A plausible slip: the slot still names the awaiter that is completed.
KeepSlot(l) ==
  /\ At(l, "clear_slot")
  /\ thread' = [thread EXCEPT ![l] =
                  [Idle("complete_next") EXCEPT !.todo = thread[l].todo, !.return = "yields"]]
  /\ UNCHANGED <<panicked, boot, ring, awaiters, queues, current, promises, at>>

ClearSlot(l) ==
  /\ At(l, "clear_slot")
  /\ slot' = [slot EXCEPT ![l][thread[l].type] = Null]
  /\ thread' = [thread EXCEPT ![l] =
                  [Idle("complete_next") EXCEPT !.todo = thread[l].todo, !.return = "yields"]]
  /\ UNCHANGED <<panicked, boot, ring, await_next, queues, current, promises, at>>

(* awaiter::complete() recurses to the end of its list before it resumes   *)
(* anything, so the awaiter registered first is resumed first.             *)
CompleteNext(l) ==
  /\ At(l, "complete_next")
  /\ LET next == await_next[Head(thread[l].todo)] IN
     thread' = IF next = Null THEN [thread EXCEPT ![l].pc = "complete"]
               ELSE [thread EXCEPT ![l].todo = <<next>> \o @]
  /\ UNCHANGED <<panicked, boot, ring, awaiters, queues, current, promises, at>>

(* complete() of an awaiter or a yield, which sets current_coroutine of    *)
(* the loop that its coroutine is on.                                      *)
LoadLoop(l) ==
  /\ At(l, "complete")
  /\ LET loop == event_loop[Head(thread[l].todo)] IN
     /\ PanicIf(loop = Null, "no_loop")
     /\ thread' = [thread EXCEPT ![l].pc = "resume", ![l].loop = loop]
  /\ UNCHANGED <<boot, ring, awaiters, queues, current, promises, at>>

Resume(l) ==
  /\ At(l, "resume")
  /\ LET c == Head(thread[l].todo) IN
     /\ StoreCurrent(l, c)
     /\ thread' = [thread EXCEPT ![l].pc = "coroutine", ![l].active = c,
                                 ![l].todo = Tail(@), ![l].loop = Null]
  /\ UNCHANGED <<panicked, boot, ring, awaiters, queues, promises, at>>

-----------------------------------------------------------------------------
(* The yields of process_events(): queue::remove(), one access at a time.  *)

NoYield(l) ==
  /\ At(l, "yields") /\ head[l] = Null
  /\ thread' = [thread EXCEPT ![l] = Idle("check")]
  /\ UNCHANGED <<panicked, boot, ring, awaiters, queues, current, promises, at>>

LoadHead(l) ==
  /\ At(l, "yields") /\ head[l] # Null
  /\ thread' = [thread EXCEPT ![l].pc = "take_next", ![l].todo = <<head[l]>>,
                              ![l].return = "check"]
  /\ UNCHANGED <<panicked, boot, ring, awaiters, queues, current, promises, at>>

LoadNext(l) ==
  /\ At(l, "take_next")
  /\ thread' = [thread EXCEPT ![l].pc = "take_head",
                              ![l].other = yield_next[Head(thread[l].todo)]]
  /\ UNCHANGED <<panicked, boot, ring, awaiters, queues, current, promises, at>>

StoreHead(l) ==
  /\ At(l, "take_head")
  /\ head' = [head EXCEPT ![l] = thread[l].other]
  /\ Goto(l, IF thread[l].other = Null THEN "take_tail" ELSE "take_link")
  /\ UNCHANGED <<panicked, boot, ring, awaiters, tail, yield_next, current, promises, at>>

\* A plausible slip: the queue is empty and its tail is not.
KeepTail(l) ==
  /\ At(l, "take_tail")
  /\ Goto(l, "take_link")
  /\ UNCHANGED <<panicked, boot, ring, awaiters, queues, current, promises, at>>

ClearTail(l) ==
  /\ At(l, "take_tail")
  /\ tail' = [tail EXCEPT ![l] = Null]
  /\ Goto(l, "take_link")
  /\ UNCHANGED <<panicked, boot, ring, awaiters, head, yield_next, current, promises, at>>

ClearNext(l) ==
  /\ At(l, "take_link")
  /\ yield_next' = [yield_next EXCEPT ![Head(thread[l].todo)] = Null]
  /\ thread' = [thread EXCEPT ![l].pc = "complete", ![l].other = Null]
  /\ UNCHANGED <<panicked, boot, ring, awaiters, head, tail, current, promises, at>>

YieldsLeft(l) ==
  /\ At(l, "check") /\ head[l] # Null
  /\ PanicIf(TRUE, "yields_left")
  /\ UNCHANGED <<boot, thread, ring, awaiters, queues, current, promises, at>>

(* The end of step().  threads::yield() in run() is one switch more.       *)
EndStep(l) ==
  /\ At(l, "check") /\ head[l] = Null
  /\ counter' = [counter EXCEPT ![l] = (@ + 1) % TickPeriod]
  /\ thread' = [thread EXCEPT ![l] = Idle("step")]
  /\ UNCHANGED <<panicked, boot, events, awaiters, queues, current, promises, at>>

-----------------------------------------------------------------------------
(* awaiter::await_suspend() and register_event_handler().  From the store  *)
(* to the slot on, an event may resume the coroutine.                      *)

Does(l, op) == At(l, "coroutine") /\ Op(thread[l].active).op = op

AwaitEvent(l) ==
  /\ Does(l, "await")
  /\ LET loop == event_loop[thread[l].active] IN
     /\ PanicIf(loop = Null, "no_loop")
     /\ thread' = [thread EXCEPT ![l].pc = "register", ![l].loop = loop]
  /\ await_next' = [await_next EXCEPT ![thread[l].active] = Null]
  /\ UNCHANGED <<boot, ring, slot, queues, current, promises, at>>

LoadOld(l) ==
  /\ At(l, "register")
  /\ thread' = [thread EXCEPT ![l].pc = "store_slot",
                              ![l].other = slot[thread[l].loop][Op(thread[l].active).arg]]
  /\ UNCHANGED <<panicked, boot, ring, awaiters, queues, current, promises, at>>

StoreSlot(l) ==
  /\ At(l, "store_slot")
  /\ LET c == thread[l].active IN
     /\ slot' = [slot EXCEPT ![thread[l].loop][Op(c).arg] = c]
     /\ Advance(c)
  /\ Goto(l, "store_next")
  /\ UNCHANGED <<panicked, boot, ring, await_next, queues, current, promises>>

StoreNext(l) ==
  /\ At(l, "store_next")
  /\ await_next' = [await_next EXCEPT ![thread[l].active] = thread[l].other]
  /\ thread' = [thread EXCEPT ![l].pc = "waiting", ![l].other = Null]
  /\ UNCHANGED <<panicked, boot, ring, slot, queues, current, promises, at>>

Waiting(l) ==
  /\ At(l, "waiting")
  /\ StoreCurrent(l, Null)
  /\ Suspend(l)
  /\ UNCHANGED <<panicked, boot, ring, awaiters, queues, promises, at>>

-----------------------------------------------------------------------------
(* yield::await_suspend() and queue::add().  The yield is a new object,    *)
(* so that its link is null.  Once it is linked, the thread of the target  *)
(* loop may resume the coroutine.                                          *)

YieldTo(l) ==
  /\ Does(l, "yield")
  /\ LET c      == thread[l].active
         origin == event_loop[c]
         target == IF Op(c).arg = Null THEN origin ELSE Op(c).arg
     IN /\ PanicIf(target = Null, "no_loop")
        /\ thread' = [thread EXCEPT ![l].pc = "add", ![l].loop = origin, ![l].target = target]
        /\ yield_next' = [yield_next EXCEPT ![c] = Null]
  /\ UNCHANGED <<boot, ring, awaiters, head, tail, current, promises, at>>

LoadTail(l) ==
  /\ At(l, "add")
  /\ PanicIf(yield_next[thread[l].active] # Null, "linked")
  /\ thread' = [thread EXCEPT ![l].pc = "link", ![l].other = tail[thread[l].target]]
  /\ UNCHANGED <<boot, ring, awaiters, queues, current, promises, at>>

YieldLink(l) ==
  /\ At(l, "link")
  /\ LET c == thread[l].active
         t == thread[l].other
     IN /\ head' = IF t = Null THEN [head EXCEPT ![thread[l].target] = c] ELSE head
        /\ yield_next' = IF t = Null THEN yield_next ELSE [yield_next EXCEPT ![t] = c]
        /\ Advance(c)
  /\ thread' = [thread EXCEPT ![l].pc = "set_tail", ![l].other = Null]
  /\ UNCHANGED <<panicked, boot, ring, awaiters, tail, current, promises>>

YieldSetTail(l) ==
  /\ At(l, "set_tail")
  /\ tail' = [tail EXCEPT ![thread[l].target] = thread[l].active]
  /\ Goto(l, "clear_current")
  /\ UNCHANGED <<panicked, boot, ring, awaiters, head, yield_next, current, promises, at>>

\* A plausible slip: the origin keeps naming the coroutine that left.
YieldKeepsCurrent(l) ==
  /\ At(l, "clear_current")
  /\ Goto(l, "set_loop")
  /\ UNCHANGED <<panicked, boot, ring, awaiters, queues, current, promises, at>>

YieldClearCurrent(l) ==
  /\ At(l, "clear_current")
  /\ StoreCurrent(l, Null)
  /\ Goto(l, "set_loop")
  /\ UNCHANGED <<panicked, boot, ring, awaiters, queues, promises, at>>

(* The code skips the store when it would change nothing.                  *)
YieldSetLoop(l) ==
  /\ At(l, "set_loop")
  /\ IF thread[l].loop = thread[l].target THEN UNCHANGED promises
     ELSE SetEventLoop(thread[l].active, thread[l].target)
  /\ Suspend(l)
  /\ UNCHANGED <<panicked, boot, ring, awaiters, queues, current, at>>

-----------------------------------------------------------------------------
(* Calls and returns of coroutines.                                        *)

(* co_await of a coroutine: control goes to it without a suspension.       *)
CallNested(l) ==
  /\ Does(l, "call")
  /\ LET caller == thread[l].active
         callee == Op(caller).arg
     IN /\ CallCoroutine(caller, callee)
        /\ thread' = [thread EXCEPT ![l].pc = "called", ![l].active = callee,
                                    ![l].loop = event_loop[caller]]
        /\ at' = [at EXCEPT ![callee] = 1]
  /\ UNCHANGED <<panicked, boot, ring, awaiters, queues, current>>

Called(l) ==
  /\ At(l, "called")
  /\ StoreCurrent(l, thread[l].active)
  /\ thread' = [thread EXCEPT ![l].pc = "coroutine", ![l].loop = Null]
  /\ UNCHANGED <<panicked, boot, ring, awaiters, queues, promises, at>>

(* co_return of a top level coroutine.                                     *)
Finish(l) ==
  /\ Does(l, "return")
  /\ FinalDestroy(thread[l].active)
  /\ Goto(l, "final")
  /\ UNCHANGED <<panicked, boot, ring, awaiters, queues, current, at>>

(* The promise is read in either case.                                     *)
FinalLoad(l) ==
  /\ \/ Does(l, "return") /\ parent[thread[l].active] # Null
     \/ At(l, "final")
  /\ thread' = [thread EXCEPT ![l].pc = "leave", ![l].loop = event_loop[thread[l].active]]
  /\ UNCHANGED <<panicked, boot, ring, awaiters, queues, current, promises, at>>

Leave(l) ==
  /\ At(l, "leave")
  /\ LET c == thread[l].active IN
     /\ StoreCurrent(l, parent[c])
     /\ FinalLeave(c)
     /\ IF parent[c] = Null THEN Suspend(l)
        ELSE thread' = [thread EXCEPT ![l].pc = "resumed", ![l].active = parent[c],
                                      ![l].loop = Null]
  /\ UNCHANGED <<panicked, boot, ring, awaiters, queues, at>>

(* The caller takes the result, and the object that it awaited is gone.    *)
CallerContinues(l) ==
  /\ At(l, "resumed")
  /\ Destructor(Op(thread[l].active).arg)
  /\ Advance(thread[l].active)
  /\ Goto(l, "coroutine")
  /\ UNCHANGED <<panicked, boot, ring, awaiters, queues, current>>

ThreadStep(l) ==
  /\ \/ Submit(l) \/ Submitted(l) \/ EnterMainLoop(l)
     \/ Step(l) \/ NoEvent(l) \/ TakeEvent(l) \/ LoadSlot(l) \/ ClearSlot(l)
     \/ CompleteNext(l) \/ LoadLoop(l) \/ Resume(l)
     \/ NoYield(l) \/ LoadHead(l) \/ LoadNext(l) \/ StoreHead(l) \/ ClearTail(l)
     \/ ClearNext(l) \/ YieldsLeft(l) \/ EndStep(l)
     \/ AwaitEvent(l) \/ LoadOld(l) \/ StoreSlot(l) \/ StoreNext(l) \/ Waiting(l)
     \/ YieldTo(l) \/ LoadTail(l) \/ YieldLink(l) \/ YieldSetTail(l)
     \/ YieldClearCurrent(l) \/ YieldSetLoop(l)
     \/ CallNested(l) \/ Called(l) \/ Finish(l) \/ FinalLoad(l) \/ Leave(l)
     \/ CallerContinues(l)
  /\ met' = met \cup Meetings'

Next == \/ \E l \in Loop : ThreadStep(l)
        \/ \E type \in {"serial_rx", "system_timer"} : Interrupt(type)

(* The timer gives every ready thread the processor, time and again        *)
(* (ReadyThreadRuns of Threads).                                           *)
Spec == Init /\ [][Next]_vars /\ \A l \in Loop : WF_vars(ThreadStep(l))

-----------------------------------------------------------------------------
(* Properties.                                                             *)

(* The coroutines that the links next lead to from first.                  *)
Reached(first, next) ==
  LET walk[i \in 0 .. Cardinality(Coroutine) - 1] ==
        IF i = 0 THEN first
        ELSE IF walk[i - 1] = Null THEN Null ELSE next[walk[i - 1]]
  IN {walk[i] : i \in DOMAIN walk} \ {Null}

Queued(l, c) == c \in Reached(head[l], yield_next)
Registered(l, type, c) == c \in Reached(slot[l][type], await_next)

(* Thread l executes c: from its resumption until somebody else may resume *)
(* it, or until it has returned.                                           *)
Running(l, c) ==
  /\ thread[l].active = c
  /\ thread[l].pc \in {"coroutine", "register", "store_slot", "add", "link", "called",
                       "leave", "resumed"}
  /\ frame[c] = "live"

(* Thread l has taken c from a list, to resume it: an element of the queue *)
(* when head is stored, an awaiter when its slot is cleared.               *)
Taken(l, c) ==
  LET t == thread[l] IN
  /\ t.pc \notin {"clear_slot", "take_next", "take_head"}
  /\ \/ \E i \in 1 .. Len(t.todo) : t.todo[i] = c
     \/ t.pc = "complete_next" /\ c \in Reached(Head(t.todo), await_next)
     \/ t.pc = "store_next" /\ c \in Reached(t.other, await_next)

(* The places in which coroutine c is to be found.                         *)
Places(c) ==
  LET Sum(a, b) == Cardinality(a) + Cardinality(b) IN
  Sum({l \in Loop : Running(l, c)}, {l \in Loop : Taken(l, c)})
    + Sum({l \in Loop : Queued(l, c)},
          {p \in Loop \X Type : Registered(p[1], p[2], c)})

Calls(c) == {d \in Coroutine : parent[d] = c /\ frame[d] = "live"}

\* Until the threads meet, every coroutine that has a frame and has not
\* returned is in exactly one place: running, about to be resumed, waiting for
\* one event of one loop, queued in one loop, or waiting for the one coroutine
\* that it called.  None is forgotten, and none is resumed after its frame is
\* freed (process_events() and the two await_suspend()s of events.hpp).
CoroutineInOnePlace ==
  Apart => \A c \in Coroutine :
    Places(c) + Cardinality(Calls(c)) = IF frame[c] = "live" THEN 1 ELSE 0

\* "The coroutine will automatically be destroyed once it exits": until the
\* threads meet, the frame of one that was called is freed before its caller
\* goes on, and a promise that is gone is nobody's parent and on no loop.
FramesAreFreed ==
  Apart => \A c \in Coroutine :
    /\ frame[c] = "done" =>
         \E l \in Loop : thread[l].pc = "resumed" /\ thread[l].active = parent[c]
    /\ parent[c] # Null => frame[parent[c]] = "live"
    /\ event_loop[c] # Null =>
         \/ frame[c] \in {"live", "done"}
         \/ \E l \in Loop : thread[l].pc \in {"final", "leave"} /\ thread[l].active = c

\* "Moved to test event loop {}" (start.cpp:293): a coroutine that a loop
\* resumes is on that loop.
ResumedOnItsLoop ==
  \A l \in Loop :
    thread[l].pc = "coroutine" /\ thread[l].return # "submitted" =>
      event_loop[thread[l].active] = l

\* Until the threads meet, current_coroutine, which the exception handler
\* reports, names a coroutine only while a thread executes it.
CurrentIsExecuting ==
  Apart => \A l \in Loop : current[l] # Null =>
    \E k \in Loop :
      LET c == thread[k].active IN
      \/ c = current[l]
      \/ thread[k].pc = "called" /\ parent[c] = current[l]

\* Until the threads meet, a coroutine that is resumed, waits or yields has an
\* event loop, and add() accepts every yield: the panics of events.hpp and of
\* queue.hpp do not happen.
LoopsAreKnown == Apart => panicked \notin {"no_loop", "linked"}

\* "Yield queue not empty after processing all yields" is never reported.
AllYieldsProcessed == panicked # "yields_left"

(* The coroutines that yield, and those that wait for a tick.              *)
Yielders == {c \in Coroutine : \E i \in 1 .. Len(Script[c]) : Script[c][i].op = "yield"}
TickWaiters == {c \in Coroutine : \E i \in 1 .. Len(Script[c]) : Script[c][i] = Await("tick")}

(* Coroutine c has just been linked into the queue of loop l.              *)
Linked(l, c) ==
  \E k \in Loop :
    thread[k].pc = "set_tail" /\ thread[k].target = l /\ thread[k].active = c

\* A coroutine that yields, or moves to another loop, is resumed by the thread
\* of that loop, unless the threads meet or the kernel panics (events.cpp:64).
YieldedCoroutineRuns ==
  \A l \in Loop, c \in Yielders : Linked(l, c) ~> Running(l, c) \/ ~Apart \/ panicked # Null

\* A coroutine that waits for the next tick of a loop is resumed by its thread,
\* unless the threads meet or the kernel panics (events.cpp:43-61).
TickWakesWaiter ==
  \A l \in Loop, c \in TickWaiters :
    Registered(l, "tick", c) ~> Running(l, c) \/ ~Apart \/ panicked # Null
=============================================================================
