# cpp-toy-os in TLA+

cpp-toy-os is a small kernel for the Raspberry Pi 2: one core, a round-robin
thread scheduler, event loops that run C++ coroutines, a memory allocator, a
serial port and a shell. This directory holds TLA+ models of its logic, the TLC
configurations that check them and TLAPS proofs about the scheduler, thread
objects, interrupts, the event ring, the allocator, the serial port, the timers,
line reading and the numbers that are printed and read. Paths below are relative to `src/`.

## 1. Inventory

| Part | Code | State | Operations | What makes it correct |
|---|---|---|---|---|
| Intrusive queue | `include/lib/queue.hpp` | head, tail, a `next` in each element | peek, remove, add | it is a FIFO; a removed element can be added again |
| Thread scheduler | `kernel/threads.cpp` | `threads[32]`, `thread_running`, the ready queue, `thread_id` | create, yield, terminate, timer tick | one thread runs, each keeps its stack and context, none is lost or starved |
| Thread objects | `include/kernel/threads.hpp` | handle, done (in the object), detached (on the stack of the thread) | constructor, move, join, detach, destructor | join waits for the end; no side writes into memory the other gave up |
| Event ring | `kernel/events.cpp` 49-82 | `event_queue[1024]`, `read_pos`, `write_pos` | fire_event, process_events | a FIFO; refused only when full |
| Event loops | `kernel/events.cpp`, `include/kernel/events.hpp` | awaiters per event type, yield queue, `current_coroutine`, counter | submit, run, step, await, yield, move | every coroutine is in one place, on its loop, and resumed |
| Coroutine promises | `include/kernel/coroutine.hpp` | parent, event loop, frame from malloc | call, return, destroy | a frame is freed once and not used afterwards |
| Allocator | `kernel/memory.cpp` | list of blocks in one array, `last_allocation`, statistics | malloc, calloc, free | blocks are disjoint, merged and counted |
| Interrupts, supervisor calls, exceptions | `arch/arm/interrupts.cpp`, `kernel/supervisor.cpp`, `kernel/exceptions.cpp` | handler tables, the frame on the stack | handle_interrupt, handle_svc, handle_exception | every thread goes on at the right instruction |
| Serial port | `drivers/serial.cpp` | registers of the PL011 | begin, put, get, handle_interrupt | every byte is read once, the handler never waits for one |
| Timers, interrupt controller | `drivers/timer.cpp`, `drivers/interrupt_controller.cpp` | compare registers, functions to call, pending and enabled sources | setup, reset, enable, check | ticks never cease and never come early |
| Line reading | `kernel/start.cpp` 34-77, `include/kernel/async.hpp` | buffer, index | one key per resumption | the command is what the screen shows |
| Numbers | `lib/format.cpp`, `include/lib/string.hpp` | none | print, parse | what is printed can be read; widths hold |
| Format strings | `include/lib/format.hpp`, `lib/format.cpp` 14-83 | the position in the format | kprint, read_options | a placeholder means what its flags say; text is put out as it is |
| Start-up and shell | `kernel/start.cpp` 79-344 | four coroutines, one extra thread | set up devices, submit, commands | sources are served only when they are set up |
| GPIO, watchdog, cpu registers, streams, C library, image | the rest | registers or none | | |

How they interact. Two threads run in the finished system: main runs the main
event loop, a detached thread runs the `test` loop. Interrupt and svc handlers
run with interrupts masked, so each is atomic towards threads. The timer on
channel 3 calls the scheduler; channel 1 and the serial port fire events into
the main loop from their handlers. Coroutines wait for events of the loop they
are on, and move between loops through the yield queue of the target, which the
thread of another loop writes. Both the scheduler and the loops use
`queue.hpp`. Coroutine frames come from the allocator. Everything in thread
context runs with interrupts enabled and no locks.

Hard behaviours: preemption within `create()`, within `fire_event()` and between
the statements of a yield; an interrupt between any two accesses of the ring's
reader; the flags shared by a thread and its object; offsets of link registers;
boundaries of the ring, the line buffer and the heap; sizes that lose their low
bits; a clock that goes on between the load of a counter and the store of a
compare value; frames that either the final awaiter or an object destroys. `PROJECT.json` lists each at its line with the properties that watch it.

## 2. Modules

| Module | Models | Detail |
|---|---|---|
| `IntrusiveQueue` | `queue.hpp` | Pure operators on a record of head, tail and links; the two stores of `add()` are operators of their own. |
| `RoundRobin` | what the scheduler promises | Abstract: the running thread and a line. |
| `Threads` | `threads.cpp` | Uses IntrusiveQueue. Handlers are one action; `create()` is one action per shared access. |
| `ThreadHandle` | class `thread` | One action per flag access of the owner and of the thread, with nothing to keep them apart; objects that are moved and destroyed; a store through a dangling pointer sets `stray`. |
| `EventFifo` | what the ring promises | Abstract: a bounded sequence. |
| `EventRing` | the ring | One action per memory access of the thread; interrupt handlers are one action. |
| `Coroutines` | `coroutine.hpp` | What becomes of a frame, its parent and its event loop: creation, `co_await`, both ends, destructor. |
| `EventLoops` | loops, awaiters, yields, coroutines | Composes Coroutines with the loops and two threads. One action per access to memory that both threads use, and either thread may take the next step; rings are sequences, which is what EventRing shows until they are spoilt. |
| `Interrupts`, `MCInterrupts` | entry, dispatch, context switch, exit | Program counters are computed as in the code, a supervisor call is looked up in the table by what r0 holds; the MC module has the code of three threads. |
| `Heap` | what the allocator promises | Abstract: pieces of an array that do not overlap. |
| `Allocator` | `memory.cpp` | A function from addresses to block headers; each branch of malloc and free is an action. |
| `Serial` | the receiving half of `serial.cpp` and the polling prompt | The UART is external: one register and an interrupt line. |
| `Timers` | `timer.cpp` | `setup()` and `reset()`, one action per access; the counter is external and wraps. |
| `Devices` | `process_interrupt()`, `interrupt_controller.cpp`, the set-up in `start_kernel()` | Composes Timers and Serial: which source is served when. |
| `LineReader` | `terminal()`, `co_getline()` | One key per action, buffer uninitialised at first. |
| `Formats` | format strings | The walk of `kprint()` and `read_options()`, compared with the meaning of the pieces a format is made of. |
| `Numbers` | printing and parsing | Extends Formats; operators, compared with the meaning of numerals. |
| `ThreadsProofs`, `ThreadHandleProofs`, `InterruptsProofs`, `EventRingProofs`, `AllocatorProofs`, `DevicesProofs` | | Theorems about the module of that name, in section 5; those about IntrusiveQueue are in `ThreadsProofs`. |
| `TypingProofs` | | Theorems about `LineReader` and about `Numbers`, in section 5: they share lemmas on sequences and folds. |

Variables have the names of the code where it has one. Variables marked
*history* (`order`, `unread`, `spoilt`, `met`, `owned`, `typed`, ...) are not in
the code and no guard but a bound depends on them. Definitions introduced by "A plausible slip"
are mutations of the definition that follows, against which the properties are
tested: each property fails for the mutation named in `PROJECT.json`.

Points of correspondence that are easy to miss:

- In `Threads`, a terminated thread's `registers` keep their last value, and the
  scan for an empty block is one step: while a creator scans, other threads can
  only free blocks. `panic()` ends the run. (In the code it enters the exception
  prompt by a breakpoint, where a user may go on; that is not modelled.)
- In `EventRing`, a store behind the array sets `outside` and the model stops.
  `read_pos - 1` is computed modulo the width of `size_t`. The history `spoilt`
  notes the two mishaps for which the code makes no provision: an interrupt fires
  within the `fire_event()` of the tick (`"interrupted"`), or fires into a ring that is full
  while `read_pos` is 0 (`"unseen"`).
- In `ThreadHandle`, a moved object is two: the first, in which the thread stores
  `done`, and the second, which has the handle. Either may be destroyed once it has
  no handle. A block is taken again as soon as its thread has ended, which puts another
  `call` object on its stack.
- In `EventLoops`, `thread[l]` is what the thread of loop `l` has in its
  registers: where it is (`pc`), the coroutine it executes, those it took from a list and
  has still to resume, and what it has loaded. A coroutine waits for one thing
  at a time, so it has one awaiter and one yield object, made anew by each
  `co_await`. The scripts of the coroutines keep what they await, whom they
  call and where they move; a line has two keys or more, the coroutine
  `terminal` calls `line` (which is `terminal()` of the code) for each, and the 25,000 ticks of the `move`
  command are one. `awaiter::complete()` recurses to the end of its list first,
  so the oldest awaiter is resumed first.
- The history `met` of `EventLoops` notes how the two threads have come into each
  other's way: one is between the load and the store of `tail` in `add()` while the
  owner of that queue is in `remove()` or `add()` (`"overlap"`); a coroutine is resumed before the
  thread that moved it has set its loop (`"early"`); one has destroyed a frame that it is
  about to read while the other allocates one (`"reuse"`). `Apart` says that none has happened.
- In `Serial`, a byte that finds the register full is lost in the hardware and
  no property promises it.
- In `Coroutines`, the frame of a top level coroutine is freed in one step and its
  promise read in later ones (`FinalDestroy`, `FinalLeave`): what is read is still
  the promise, which holds as long as nobody allocates in between (`"reuse"`).
- In `Timers`, `cs = 1<<t` clears one match and leaves the others, as the
  hardware does; `since` is the time since a timer was armed.
- In `Devices`, a bit of `irq_pending` is a pair of a register and a position,
  and the sources are asked in the order of the code. `TakeException` comes after
  the boot, for only the shell causes exceptions on purpose.
- In `Allocator`, the pieces of `Heap` are what `malloc()` cleared, with the
  header in front of it.
- In `Numbers`, a character is a number: 0-35 digits, then blank, minus, plus, and 40
  for `B`, which is the digit 11 as `b` is, but begins no prefix. `signed` says whether an `int`
  or an `unsigned` is printed or read: the word that was accumulated is converted
  to the type (`InType`), so 4294967295 is read as the `int` -1. Overflow of an
  `int` is undefined in C++ and wraps here, as built. The smallest `int` is
  printed too: negating it changes nothing, and `put_number()` takes it for an unsigned.
  The undefined `remove_prefix(npos)` starts the view one byte before the text,
  as built; what is there is the constant `Before`. In `Formats`, a character is
  a string and what a placeholder prints is the pair of its argument and options.

## 3. Runs

Passing runs:

| Run | Bounds | Shows |
|---|---|---|
| `threads` | 4 blocks, ids to 7, all may create | Contexts kept, queue = line, the inductive invariant (which includes the types, states = queue and no panic); every ready thread runs; RoundRobin implemented. Ticks anywhere but within `create()`. |
| `thread_handle` | 2 threads, 2 blocks (so that a stack is reused) | Objects joined, detached, moved and destroyed, threads switched at any access to a flag: a store goes astray only when an object was moved or `detach()` overlaps with the end of its thread; no thread ends without a word, join waits and returns. |
| `event_ring` | 4 slots, 2 interrupt events, tick every 2nd step | Until the ring is spoilt: EventFifo with 3 places implemented, overruns only when full, every event read. |
| `event_loops` | 1 waiting event a loop, tick every 2nd step; explored until the threads meet (`CONSTRAINT Apart`) | Each coroutine in one place, also when coroutines call and return, `current_coroutine` right, no panic but the one of `event_loops_panic`; each frame freed once, none left behind; yields and ticks wake. |
| `interrupts` | 3 threads, 3-4 instructions, r0 of the syscall command 0, 4 or 5 | No instruction lost or repeated, address at fault right. |
| `allocator` | 104 bytes, requests 0, 1, 24, calloc of 24 elements of each | All branches of malloc and free, up to five blocks: the list is well formed, free blocks are merged, the counts of blocks and of calls are right, `malloc()` refuses only when no free block is large enough, and `Heap` is implemented: pieces in use do not overlap. |
| `devices` | counter modulo 8, interval 3, latency 2; 2 bytes, one of which leaves the prompt | Each compare value is met within an interval, ticks are an interval apart and go on; each byte read once in order, none stranded. |
| `line_reader` | buffer of 4, 5 keys | Command = screen = keys less erasures; doc of `co_getline()`. |
| `numbers` | word of 32, 4 radices, 3 widths, texts of 4; formats of 2 or 3 placeholders with up to 2 flags | Round trip and width for every `int` and `unsigned`, meaning of numerals (as the type that is read) and of formats. |

Why the bounds are enough. Four blocks give a running thread, two in the queue
and one free, with head, inner and tail cases of every link operation; ids run
into their maximum. A ring of four slots has empty, full, and every wrap of
both positions. Two threads, one after the other, get the same stack, and with two blocks also
live at once. Two loops are all there are, and their coroutines those of `start_kernel()`; with
one event a loop and a tick every other step, events are thrown away, wait, and wake two coroutines at once. The heap takes a
24 byte and several 8 byte blocks with 12 byte headers: exact, whole and split
allocations, all four merges, and sizes that are not multiples of 8. The line
buffer is filled, emptied and erased beyond its beginning. A counter modulo 8
wraps between a load and the compare value computed from it, both timers match
in one handler, and either matches while the other is served. A line of two or
more keys has keys of one step and of several. Widths of a format reach the
largest that `read_w()` takes. A word of 32 values
with radix 16 and 2 has numbers of one to five digits, and texts of four digits
exceed it.

Runs that end in a violation, each a finding in `PROJECT.json`:

| Run | Finding |
|---|---|
| `event_ring_overrun` | With `read_pos = 0` the ring never counts as full, and filling it discards all events silently. |
| `event_loops_panic` | `process_events()` finds no yield, the other thread links one coroutine that moves over, and the look at the queue that follows panics: "not empty after processing all yields". |
| `event_loops_moved` | A coroutine that moves is queued at its target before `set_event_loop()`; switched away in between, the thread of the target resumes it while it is on the loop that it leaves. |

Where the code makes no provision for what can happen, the model lets it happen
and the properties say what they promise until then:

| Module | What can happen | What is promised |
|---|---|---|
| `EventRing` | `spoilt`: an interrupt within the `fire_event()` of the tick (two events get one slot, or a store goes behind the array), or a full ring at slot 0 (`event_ring_overrun`) | the FIFO until then; and that an event is lost in no third way (`FifoUntilSpoilt`, `AcceptedEventsAreKept`) |
| `ThreadHandle` | `stray`: the store of `detach()` or of `done` goes to a stack or an object that is gone, or through a null pointer | it takes a move, or a `detach()` that overlaps with the end of the thread (`StrayOnlyByMoveOrOverlap`) |
| `EventLoops` | `met`: the threads overlap in a queue (a coroutine may be lost), a coroutine is resumed early (it registers on the wrong loop, and the late store may go to a promise that is gone), a frame is reused | each property until then |

The properties of the run `event_loops` begin with `Apart =>`, or end with `\/ ~Apart`, so
nothing behind the first meeting can violate one. `CONSTRAINT Apart` therefore
only saves TLC the states behind it: of the last state of a behaviour that is cut off, TLC has
checked the invariants, and a behaviour that meets satisfies the liveness properties.
Nothing else is assumed about when the timer switches.

What is excluded:

| Exclusion | Why |
|---|---|
| `TickInCreate = FALSE`: the timer does not interrupt `create()`, which the kernel calls once at start | `SchedulerInv` fails without it: a tick between the two stores of `queue::add()` lets the scheduler drop threads, and later panic although main is ready |
| `Latency < Interval`: `reset()` and `setup()` store within an interval (1 s) of the load | otherwise the compare value is behind the counter: no tick until it wraps, after 71 minutes |
| the boot is over before the counter wraps | a compare register of 0 matches, and `reset()` calls a function that is not set |
| requests below `WORD - ALIGNMENT` | `Aligned` wraps to 0 and `malloc()` returns a piece of no bytes |
| `R0` within the table of 256 calls | what lies behind the table is called |
| the allocator is not preempted; memory suffices for frames | no promise of the code |
| widths of a format that `read_w()` takes | it does not skip those near `INT_MAX`, whose digits are then read as the type |

Observations that contradict no text of the repository, and so are no finding:

- The heap shrinks. Block sizes are 4 modulo 8 (`MEMORY_SIZE` less a header of 12
  bytes), a split and a merge mask their low bits away
  (`kernel/memory.cpp` 102, 144, 158, 172), and so each `malloc()` that splits
  and each `free()` that merges loses four bytes for good, which `memory_free` of
  the stats command still counts. Repeated pairs of `malloc(1)` and `free()` wear
  the 88 usable bytes of the run `allocator` down to 24, with nothing in use.
- `memory_allocated` drifts, because `malloc` adds masked sizes (99, 122) and
  `free` subtracts unmasked ones (140). The byte counters that the stats command prints
  (`kernel/start.cpp` 208-215) are not modelled; `CountersRight` is about the counts.
- The syscall command does not load r0: it may yield or end the thread of the
  shell instead of raising an exception, as `Number("svc_other")` shows.
- `terminal()` gives up at 255 characters and the warning recommends 256
  (`kernel/start.cpp` 44, 184).
- The lambdas of the coroutines are temporaries whose captures are read after
  they are gone (`kernel/start.cpp` 164).

Deadlock is checked except where the system may stop: after a panic
(`event_loops` and its violation runs), after a store behind the array
(`event_ring`), when the inputs are used up (`line_reader`, `numbers`), and when all
thread objects are destroyed, one that was moved waits for ever, or a store went astray
(`thread_handle`).

## 4. Fairness

- `Threads`: weak fairness of `Tick` (the timer's own interrupt re-arms it) and
  of the steps of `create()`.
- `EventRing`: weak fairness of the loop's steps: the loop never ends and its thread
  is always ready, and `ReadyThreadRuns` is the property of the scheduler this
  relies on. `EventLoops`: the same for the steps of each of the two threads.
  Interrupts are not fair: nobody has to press a key.
- `ThreadHandle`: weak fairness of each thread's steps and of the owner's
  pending call, from round robin; functions are assumed to return. An owner does not have
  to join or detach.
- `Devices`: weak fairness of the boot code, of the handler (a pending interrupt
  is taken, and executed to its end with interrupts masked) and of the clock.
  Bytes are not fair, and the user does not have to leave the prompt:
  `TicksGoOn` excepts a prompt that stays open, and a byte that arrives is read
  by the prompt as well.

## 5. Proofs

`ThreadsProofs` proves first, for every set of elements, that `EmptyQueue`,
`Add` and `Remove` represent the empty sequence, `Append` and `Tail`, where
*represents* relates head, tail and all links to a sequence without
repetitions, including that elements outside the queue carry no link.

About the scheduler it proves, for every number of blocks and ids, from
`ThreadsAssumption` (the types of the constants) and `~TickInCreate`:

- `SchedulerInvariant`: `Spec => []SchedulerInv`. `QueueIsOrder` alone is not
  inductive: that a switch may add the running thread needs to know that it is
  not queued, which needs `StatesMatchQueue` and that exactly the running thread
  is marked running; that `create()` may add its block needs `CreatorHolds`, what
  it knows between its steps; and that a terminating thread finds another one
  needs `MainIsScheduled`. Their conjunction is `SchedulerInv`, which the run
  `threads` checks as well. The proof has one lemma per group of actions, and
  uses the queue theorems for every link operation.
- `TypeCorrect`, `QueueCorrect`, `ContextsCorrect`, `NeverPanics`: consequences.
- `ImplementsRoundRobin`: each step is a `Spawn`, `Switch`, `Exit` or stutters.

`~TickInCreate` is necessary: with `TickInCreate = TRUE`, TLC refutes
`SchedulerInv`, and `NoPanic` with it.

`DevicesProofs` is about Serial, Timers and their composition `Devices`, so with
boot, handlers, prompts and time in any order, from `SerialAssumption` and `TimersAssumption`
(`0 < Latency < Interval < WORD`):

- `ReadOnceInOrder` and `NoneIsStranded` follow from `PortInv`, for any bytes,
  however many. It adds what the handler knows on the way: RX is set when
  `process_interrupt()` calls it, since no timer shares the bit of source 57
  (`UartPending`), so `mis` is set when `icr` is cleared, and the loop reads every
  byte that is left without an interrupt.
- `NeverLeftBehind` (`CompareIsAhead`) and `OneTickAnInterval`
  (`TicksAreApart`) follow from `TimerInv`, for a counter of any width. The
  properties speak of armed timers; the invariant needs what makes them so. For
  each timer it says where its set-up is in the boot, what the counter may have
  done since the load, and, once armed, that the time since and the distance to
  the compare value make an interval. For `reset()` it says that the timer asked
  for has matched. Lemmas about a counter that wraps (`TickNearer`, `TickOlder`,
  `StoreAhead`) reduce `%` to sums. The limits of `ClockMayTick` are assumptions
  about the processor, not consequences of the code: a handler stopped
  for a whole interval between the load of `clo` and the store would leave a compare value behind.

`EventRingProofs` is about the ring for every size, event and tick period, with
interrupts at any access of the loop, without a hypothesis but `RingAssumption`.

- `RingInvariant`: as long as `spoilt` is empty, `RingInv`. It says at each access where
  `write_pos` is: as many slots behind
  `read_pos` as events are unread, in circles, with `read_pos = Size` before the
  wrap. While the loop handles the event of the last slot, slot 0 is
  next, and when the ring is full then, the first mishap is one access away.
- `RingIsFifo`: the ring implements `EventFifo` until it is spoilt (`FifoUntilSpoilt`, as in the
  run). `OverrunOnlyWhenFull` follows from the invariant, and so does
  `AcceptedEventsAreKept`: what the run `event_ring_overrun` refutes holds of every
  ring that is not spoilt, so the two mishaps are the only ways to lose an event.

`InterruptsProofs` is about any finite set of threads, any code and any r0.
`InterruptInvariant` says that each thread is in one place (running,
interrupted, or switched away), that the saved program counter of each is behind
the instruction it is done with, and that a handler has the frame of its cause.
`NothingLostOrRepeated` and `AddressIsAlwaysAtFault` follow.

`ThreadHandleProofs` is about any number of threads and blocks, with the timer at any
access to a flag. `HandleInvariant` relates the stacks to the threads that have them, and says what
the owner and the thread have seen of each other's flag at each access.
`StrayStoresExplained` follows: the owner stores astray only when the thread is gone that it saw
running, or through the null pointer of a second object; the thread, only when its
object was given up after it saw no detach, which takes a detach since, or a move.
`EndIsAlwaysRecorded` and the action property `JoinAlwaysWaits` follow as well.

`AllocatorProofs` is about a heap, headers, an alignment and a word of any size, and
any requests that do not wrap when they are rounded up (`AllocatorAssumption`).
`AllocInv` says

- of the list (`BlocksInv`): the headers are finitely many, the first is at the
  start of the array, `next` and `prev` lead to headers, forward and back, and undo
  each other (`Links`), no header is between a block and its `next`
  (`NoneBetween`), and a block ends where the next begins, at the latest (`Apart`);
- that no two neighbours are free (`FreeBlocksMerged`);
- that the blocks in use are those that callers own, with room for what was asked
  (`Owners`);
- and that the counts are right (`CountersRight`).

`ListWellFormed` is not inductive: it speaks of the list that a walk along `next`
finds, `Links` and `NoneBetween` of each header, which is what an
operation changes. `Apart` is an inequality because of the bytes that the masks
lose (section 3); merging needs only that the sum of two masked sizes and a header stays
in front of the next block. That each branch of `free()` merges all it must
follows from `FreeBlocksMerged` before: what is behind a free neighbour is in use.
There is one lemma for what marking, splitting and merging do to the list
(`MarkKeepsBlocks`, `SplitKeepsBlocks`, `MergeKeepsBlocks`), and one for each branch.
The walk itself (`From`) is a recursive function. It is unfolded by induction,
which rests on `NatLessThanWellFounded` of the library: a set that has 0, and n
when it has n - 1, has all numbers (`Induction`); `From` follows `next` from any header
(`FromFollows`) and reaches all of them (`LinksMakeTheList`). `ListStaysWellFormed`,
`FreeBlocksAlwaysMerged` and `CountersAlwaysRight` follow, and

- `RefusesOnlyForWantOfRoom`: the two loops of `malloc()`, from `last_allocation` and
  then up to it, meet every block;
- `AllFreedLeavesOne`: when nothing is in use, one block is left, in whatever order the
  others were freed;
- `ImplementsHeap`: each branch of `malloc()` is a `Malloc` of `Heap` and each
  branch of `free()` is a `Free`.

Calls are atomic and callers free what they own, once; both are guards of the module.

`TypingProofs` has two parts. The one about `LineReader` is about any size of the buffer, any characters and any number
of keys. `LineInvariant` says that the characters before the index are those on the
screen, or those sent since `co_getline()` was called, and that there is room for one
more. `CommandIsAlwaysOnScreen` and `GetlineLeavesTheLine` follow. `ScreenShowsWhatWasTyped`
relates the screen to the keys, through `Edited`: a fold, of which
`EditedKeyByKey` proves by induction that it goes from key to key. It needs that
no character is of two kinds, which `LineAssumption` says of `isprint()`, `0x7f` and `0x08`.

The part about `Numbers` is about any word, width and option, any value of either type, and texts of any length and
any characters. What happens there is one call of a pure function, so the
invariant says no more than that the text printed, or the value read, is what the
code computes (a lemma, `NumbersInvariant`); the work is in the lemmas about that function.

- Digits: `put_number` divides and `Accumulate` multiplies, both from digit to
  digit. They are a recursive function and a fold, unfolded by induction;
  `DigitsOfNumber` says that one undoes the other for every number below `WORD`.
- Texts: `Layout` says that a text is n blanks, a minus or none, the prefix of a base
  or none, and digits of that base. `LayoutIsRead` says that such a text is read as the
  value of its digits; `PrintedIsRead` that `kprint_integral` puts out such a text when
  the options are `Readable`; `ReadHasLayout` that nothing else is read.
- Meaning: `Meaning` adds the digits, each times its power, in an order that a
  `CHOOSE` fixes and nobody knows. `SumInOrder` shows that the sum can be taken from the
  first digit to the last, and `MeaningIsAccumulated` that it is what `Accumulate`
  computes: it does not matter whether the digits in front have wrapped (`WrapFirst`).
  The conversion to the type leaves the value the same modulo the word (`InTypeIs`).

`AllPrintedCanBeRead`, `WidthIsAlwaysKept` and `TypedIsAlwaysUnderstood` follow. The last
one has a hypothesis. A text without any character is read as the byte in front of it,
and if that were a digit the empty text would spell a number. The three callers
in `start.cpp` (lines 219, 224 and 244) cut their text behind a blank, which is the byte.

Only model-checked: liveness (fairness and ENABLED are beyond the prover),
`EventLoops` with its properties, and `FormatsAreUnderstood`.

`EventLoops` has two loops, the coroutines of `start_kernel()` and their scripts, and only the
length of the rings and the tick period are constants. That each coroutine is in one place, and
what keeps the threads apart, follows from those scripts, so a proof would
walk through them as TLC does, and would not say more of another kernel.

`FormatsAreUnderstood` was checked over the bounded formats of the run. It is about the formats
that the module lists, with widths that `read_w()` takes when `INT_MAX` is 127: there is no
parameter to prove it for, and without one it would be false (a width near `INT_MAX`
is not skipped).

## 6. Not modelled

GPIO, watchdog, banked register access, log levels and streams, C library
functions, C++ support and the image: stateless or output only. Move assignment
and swap of thread objects, `available()` of the serial port, `disable_source()`:
no caller. `put()` polls a flag and writes one register; two threads that print
at once may overwrite a character, which nothing in the code prevents or
promises. `thread_waiting_queue` and the waiting state: declared and never used.
FIQ: no source is routed to it. Coroutines whose frame cannot be allocated: the
null object is awaited, with undefined outcome. An exception prompt answered
with `e` throws the stack of the thread away; what its coroutine held is not
modelled (`Interrupts` has the program counter only).

## 7. Plan

Built in this order: queue and scheduler with their proofs, ring, loops,
allocator, serial port, line reader, numbers, interrupts, thread allocator, serial port, line reader, numbers, interrupts, thread objects; then
timers and devices with their proofs, coroutines, formats, the abstract heap and
the table of supervisor calls; then the proofs about ring, interrupts, thread
objects and line reading, and then the allocator and numbers; then event
loops and thread objects again, access by access. Next:

1. Formats of any number of pieces, whose widths are below `INT_MAX / 10`, and a
   proof that `kprint()` renders them.
2. `AllocatorThreads`: malloc on one thread and free on the other, with a lock
   that the code would need.
3. A kernel composition: `EventLoops` over the threads of `Threads`, with frames
   from `Heap`.
4. `EventLoops` behind the first meeting: what an overlap in a queue can and cannot do, beyond losing
   a coroutine (that none is ever executed twice at a time, say).
