------------------------------ MODULE EventRing -----------------------------
(***************************************************************************)
(* The event queue of kernel::events::event_loop (kernel/events.cpp): a    *)
(* ring of Size slots between two index variables.  The thread of the loop *)
(* fires the tick event and reads events with interrupts enabled, one      *)
(* memory access per action; the interrupt handlers of the timer and of    *)
(* the serial port fire events in one step, between any two of those.      *)
(*                                                                         *)
(* A history variable, spoilt, holds which of two mishaps that the code    *)
(* does not handle have happened; as long as it is empty, the ring is the  *)
(* FIFO of EventFifo.                                                      *)
(***************************************************************************)
EXTENDS Integers, Sequences

CONSTANTS Size,             \* config::event_queue_size
          SizeMax,          \* the largest std::size_t
          TickPeriod,       \* the 10 of event_loop::step
          IsrEvent,         \* the events that interrupt handlers fire
          Tick,             \* the tick event
          Nothing           \* no event

Event == IsrEvent \cup {Tick}

ASSUME RingAssumption ==
  /\ Size \in Nat /\ Size >= 3
  /\ SizeMax \in Nat /\ SizeMax > Size
  /\ TickPeriod \in Nat \ {0}
  /\ Tick \notin IsrEvent /\ Nothing \notin Event

VARIABLES event_queue, read_pos, write_pos,
          counter,          \* event_loop::counter, modulo TickPeriod
          pc,               \* where the thread of the loop is
          index,            \* the index it loaded, a register
          e,                \* the event it moved out of the queue
          outside,          \* a store went behind the end of event_queue
          unread,           \* history: events accepted and not read yet
          spoilt,           \* history: the mishaps so far
          reports           \* history: parity of the overruns reported

ringVars == <<event_queue, read_pos, write_pos, counter, pc, index, e,
              outside, unread, spoilt, reports>>

Init == /\ event_queue = [i \in 0 .. Size - 1 |-> Nothing]
        /\ read_pos = 0 /\ write_pos = 0
        /\ counter = 0
        /\ pc = "idle"
        /\ index = 0
        /\ e = Nothing
        /\ outside = FALSE
        /\ unread = 0
        /\ spoilt = {}
        /\ reports = 0

MaxUnread == Size + 2       \* bound of the model, above what the ring holds

-----------------------------------------------------------------------------
(* fire_event() in an interrupt handler.                                   *)

\* A plausible slip: the ring is called full one event too late.
FullTooLate == write_pos = read_pos /\ unread > 0

\* A plausible slip: the ring is called full one event too early.
FullTooEarly == write_pos = (read_pos + SizeMax - 1) % (SizeMax + 1)

(* write_pos == read_pos-1, in the arithmetic of std::size_t.              *)
Overrun == write_pos = (read_pos + SizeMax) % (SizeMax + 1)

(* kerror("Event queue overrun. ...")                                      *)
Report == reports' = 1 - reports

Wrapped(pos) == IF pos = Size THEN 0 ELSE pos

(* What a store behind the array does is undefined: the model stops there. *)
Store(i, ev) ==
  IF i < Size
  THEN event_queue' = [event_queue EXCEPT ![i] = ev] /\ UNCHANGED outside
  ELSE outside' = TRUE /\ UNCHANGED event_queue

IsrMayStrike == ~outside /\ unread < MaxUnread

(* The two mishaps: an interrupt strikes while the loop is within its own  *)
(* fire_event(), and the ring is full while read_pos is 0, where the test  *)
(* for an overrun is never true.                                           *)
InFire     == pc \in {"load", "bump", "store", "wrap"}
FullUnseen == read_pos = 0 /\ write_pos = Size - 1

Note == spoilt' = spoilt \cup (IF InFire THEN {"interrupted"} ELSE {})
                         \cup (IF FullUnseen THEN {"unseen"} ELSE {})

IsrFire(ev) ==
  /\ IsrMayStrike
  /\ ~Overrun
  /\ Store(write_pos, ev)
  /\ write_pos' = Wrapped(write_pos + 1)
  /\ unread' = unread + 1
  /\ Note
  /\ UNCHANGED <<read_pos, counter, pc, index, e, reports>>

IsrOverrun ==
  /\ IsrMayStrike
  /\ Overrun
  /\ Report
  /\ Note
  /\ UNCHANGED <<event_queue, read_pos, write_pos, counter, pc, index, e,
                 outside, unread>>

-----------------------------------------------------------------------------
(* step(): every TickPeriod-th time a tick is fired first.                 *)

At(point) == ~outside /\ pc = point

TickIsDue == counter = 0

StepWithoutTick ==
  /\ At("idle") /\ ~TickIsDue
  /\ pc' = "process"
  /\ UNCHANGED <<event_queue, read_pos, write_pos, counter, index, e, outside,
                 unread, reports, spoilt>>

TickOverrun ==
  /\ At("idle") /\ TickIsDue
  /\ Overrun
  /\ Report
  /\ pc' = "process"
  /\ UNCHANGED <<event_queue, read_pos, write_pos, counter, index, e, outside,
                 unread, spoilt>>

TickCheck ==
  /\ At("idle") /\ TickIsDue
  /\ ~Overrun
  /\ Note
  /\ pc' = "load"
  /\ UNCHANGED <<event_queue, read_pos, write_pos, counter, index, e, outside,
                 unread, reports>>

(* event_queue[write_pos++] = event: a load, two stores, then the wrap.    *)
TickLoad ==
  /\ At("load")
  /\ index' = write_pos
  /\ pc' = "bump"
  /\ UNCHANGED <<event_queue, read_pos, write_pos, counter, e, outside, unread,
                 reports, spoilt>>

TickBump ==
  /\ At("bump")
  /\ write_pos' = index + 1
  /\ pc' = "store"
  /\ UNCHANGED <<event_queue, read_pos, counter, index, e, outside, unread,
                 reports, spoilt>>

TickStore ==
  /\ At("store")
  /\ Store(index, Tick)
  /\ unread' = unread + 1
  /\ pc' = "wrap"
  /\ UNCHANGED <<read_pos, write_pos, counter, index, e, reports, spoilt>>

TickWrap ==
  /\ At("wrap")
  /\ write_pos' = Wrapped(write_pos)
  /\ pc' = "process"
  /\ UNCHANGED <<event_queue, read_pos, counter, index, e, outside, unread,
                 reports, spoilt>>

-----------------------------------------------------------------------------
(* process_events(), as far as the ring goes: one event at most is read;   *)
(* whom it wakes is the business of EventLoops.                            *)

NextCounter == (counter + 1) % TickPeriod

NothingToRead ==
  /\ At("process")
  /\ read_pos = write_pos
  /\ counter' = NextCounter
  /\ pc' = "idle"
  /\ UNCHANGED <<event_queue, read_pos, write_pos, index, e, outside, unread,
                 reports, spoilt>>

\* A plausible slip: reading one event discards those behind it.
ReadDiscards ==
  /\ At("process")
  /\ read_pos # write_pos
  /\ index' = read_pos
  /\ read_pos' = ((write_pos + Size - 1) % Size) + 1
  /\ unread' = unread - 1
  /\ pc' = "move"
  /\ UNCHANGED <<event_queue, write_pos, counter, e, outside, reports, spoilt>>

ReadBump ==
  /\ At("process")
  /\ read_pos # write_pos
  /\ index' = read_pos
  /\ read_pos' = read_pos + 1
  /\ unread' = unread - 1
  /\ pc' = "move"
  /\ UNCHANGED <<event_queue, write_pos, counter, e, outside, reports, spoilt>>

ReadMove ==
  /\ At("move")
  /\ e' = event_queue[index]
  /\ pc' = "read_wrap"
  /\ UNCHANGED <<event_queue, read_pos, write_pos, counter, index, outside,
                 unread, reports, spoilt>>

ReadWrap ==
  /\ At("read_wrap")
  /\ read_pos' = Wrapped(read_pos)
  /\ counter' = NextCounter
  /\ pc' = "idle"
  /\ UNCHANGED <<event_queue, write_pos, index, e, outside, unread, reports, spoilt>>

LoopStep == \/ StepWithoutTick \/ TickOverrun \/ TickCheck
            \/ TickLoad \/ TickBump \/ TickStore \/ TickWrap
            \/ NothingToRead \/ ReadBump \/ ReadMove \/ ReadWrap

Next == LoopStep \/ IsrOverrun \/ \E ev \in IsrEvent : IsrFire(ev)

(* The loop never ends and its thread is scheduled for ever.               *)
Spec == Init /\ [][Next]_ringVars /\ WF_ringVars(LoopStep)

-----------------------------------------------------------------------------
(* Properties.                                                             *)

(* The events in the ring, oldest first, whatever step the thread is at.   *)
ReadIndex  == read_pos % Size
WriteIndex == IF pc = "store" THEN index ELSE write_pos % Size
Waiting == [k \in 1 .. (WriteIndex + Size - ReadIndex) % Size |->
              event_queue[(ReadIndex + k - 1) % Size]]
Got == IF pc = "move" THEN event_queue[index] ELSE e

\* The ring implements a FIFO of Size - 1 events until it is spoilt: interrupts
\* that strike while an event is read neither overwrite it nor reorder the
\* others, and the two mishaps are the only ways in which an event is lost.
Fifo == INSTANCE EventFifo WITH Event <- Event, Capacity <- Size - 1,
                                Nothing <- Nothing, fifo <- Waiting, got <- Got
FifoUntilSpoilt ==
  Fifo!Init /\ [][Fifo!Next \/ spoilt' # {}]_<<Waiting, Got>>

\* "Event queue overrun" is reported only when the ring holds all the events
\* it can: until it is spoilt, no event is thrown away while there is room.
OverrunMeansFull ==
  [][reports' # reports => Len(Waiting) = Size - 1 \/ spoilt' # {}]_ringVars

\* An event in the ring is read: the loop does not forget a slot, wherever
\* the positions wrap, unless the ring is spoilt before it comes to it.
EveryEventIsRead ==
  \A ev \in Event :
    (\E k \in 1 .. Len(Waiting) : Waiting[k] = ev) ~> (Got = ev \/ spoilt # {})

\* "Event queue overrun. Throwing away event of type {} with data {}.": this
\* message is the one way an event is not delivered, so between two steps of
\* the loop every event that was accepted without it is in the ring.
AcceptedEventsAreInTheRing ==
  pc = "idle" /\ ~outside => unread = Len(Waiting)
=============================================================================
