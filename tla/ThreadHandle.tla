---------------------------- MODULE ThreadHandle ----------------------------
(***************************************************************************)
(* The class kernel::thread (include/kernel/threads.hpp): an object and    *)
(* the thread it started share two flags, done in the object and detached  *)
(* on the stack of the thread, and the timer may switch between them at    *)
(* any access to a flag.                                                   *)
(*                                                                         *)
(* Each object has an owner, which is some other thread.  The object that  *)
(* started the thread is the first; when it is moved from, it keeps the    *)
(* done that the thread stores in, and the second object has the handle,   *)
(* a done of its own and no pointer to detached.                           *)
(***************************************************************************)
EXTENDS Naturals, FiniteSets

CONSTANTS Handle,           \* the threads that are started
          Slot              \* thread control blocks, with their stacks

Null == 0
ASSUME HandleAssumption == Slot \subseteq Nat \ {Null} /\ IsFiniteSet(Slot)

VARIABLES first,            \* per handle: the object that started the thread
          holder,           \* per handle: the object whose handle is not 0
          owner,            \* per handle: where its owner is with it
          thread,           \* per handle: where the thread is
          slot,             \* per handle: the thread control block it got
          stack,            \* per slot: whose call object is on its stack
          done, detached,   \* the flags
          ran,              \* history: its function returned
          moved,            \* history: the object was moved
          stray             \* a store through a dangling or null pointer

vars == <<first, holder, owner, thread, slot, stack, done, detached, ran,
          moved, stray>>

Init == /\ first = [h \in Handle |-> "none"]
        /\ holder = [h \in Handle |-> "none"]
        /\ owner = [h \in Handle |-> "idle"]
        /\ thread = [h \in Handle |-> "none"]
        /\ slot = [h \in Handle |-> Null]
        /\ stack = [s \in Slot |-> {}]
        /\ done = [h \in Handle |-> FALSE]
        /\ detached = [h \in Handle |-> FALSE]
        /\ ran = [h \in Handle |-> FALSE]
        /\ moved = [h \in Handle |-> FALSE]
        /\ stray = FALSE

(* What a stray store breaks is undefined: the model stops there.          *)
OwnerAt(h, point)  == ~stray /\ owner[h] = point
ThreadAt(h, point) == ~stray /\ thread[h] = point

Held(h) == holder[h] \in {"first", "second"}
Busy(s) == \E h \in Handle : slot[h] = s /\ thread[h] \notin {"none", "gone"}

-----------------------------------------------------------------------------
(* The owner.                                                              *)

(* The constructor; threads::create() takes the first free block.  With no *)
(* block free it panics; the owner waits for one instead.                  *)
Construct(h) ==
  /\ OwnerAt(h, "idle") /\ first[h] = "none"
  /\ \E s \in Slot :
       /\ ~Busy(s) /\ \A r \in Slot : r < s => Busy(r)
       /\ slot' = [slot EXCEPT ![h] = s]
       /\ stack' = [stack EXCEPT ![s] = {h}]
  /\ first' = [first EXCEPT ![h] = "live"]
  /\ holder' = [holder EXCEPT ![h] = "first"]
  /\ thread' = [thread EXCEPT ![h] = "function"]
  /\ UNCHANGED <<owner, done, detached, ran, moved, stray>>

(* thread(thread&& other): the handle moves, done and detached do not.     *)
Move(h) ==
  /\ OwnerAt(h, "idle") /\ Held(h)
  /\ holder' = [holder EXCEPT ![h] = "second"]
  /\ moved' = [moved EXCEPT ![h] = TRUE]
  /\ UNCHANGED <<first, owner, thread, slot, stack, done, detached, ran, stray>>

(* this->done                                                              *)
DoneHere(h) == holder[h] = "first" /\ done[h]

Join(h) ==
  /\ OwnerAt(h, "idle") /\ Held(h)
  /\ owner' = [owner EXCEPT ![h] = "join"]
  /\ UNCHANGED <<first, holder, thread, slot, stack, done, detached, ran, moved, stray>>

(* handle = 0                                                              *)
Release(h) == /\ holder' = [holder EXCEPT ![h] = "none"]
              /\ owner' = [owner EXCEPT ![h] = "idle"]

\* A plausible slip: join() does not wait.
JoinAnyway(h) ==
  /\ OwnerAt(h, "join")
  /\ Release(h)
  /\ UNCHANGED <<first, thread, slot, stack, done, detached, ran, moved, stray>>

(* while(!done) {}  handle = 0                                             *)
Joined(h) ==
  /\ OwnerAt(h, "join") /\ DoneHere(h)
  /\ Release(h)
  /\ UNCHANGED <<first, thread, slot, stack, done, detached, ran, moved, stray>>

(* detach(): if(!done) ...                                                 *)
Detach(h) ==
  /\ OwnerAt(h, "idle") /\ Held(h)
  /\ IF DoneHere(h) THEN Release(h)
     ELSE owner' = [owner EXCEPT ![h] = "detach_store"] /\ UNCHANGED holder
  /\ UNCHANGED <<first, thread, slot, stack, done, detached, ran, moved, stray>>

(* ... *detached = true;  handle = 0.  The flag is on the stack of the     *)
(* thread; the pointer of a second object is null.                         *)
DetachStore(h) ==
  /\ OwnerAt(h, "detach_store")
  /\ IF holder[h] = "first" /\ h \in stack[slot[h]]
     THEN detached' = [detached EXCEPT ![h] = TRUE] /\ UNCHANGED stray
     ELSE stray' = TRUE /\ UNCHANGED detached
  /\ Release(h)
  /\ UNCHANGED <<first, thread, slot, stack, done, ran, moved>>

(* The destructor of the first object; with a handle it panics.  That of a *)
(* second object takes nothing with it that anybody uses.                  *)
Destroy(h) ==
  /\ OwnerAt(h, "idle") /\ first[h] = "live" /\ holder[h] # "first"
  /\ first' = [first EXCEPT ![h] = "destroyed"]
  /\ UNCHANGED <<holder, owner, thread, slot, stack, done, detached, ran, moved, stray>>

-----------------------------------------------------------------------------
(* The thread.                                                             *)

GoesTo(h, point) == thread' = [thread EXCEPT ![h] = point]

FunctionReturns(h) ==
  /\ ThreadAt(h, "function")
  /\ ran' = [ran EXCEPT ![h] = TRUE]
  /\ GoesTo(h, "test")
  /\ UNCHANGED <<first, holder, owner, slot, stack, done, detached, moved, stray>>

\* A plausible slip: a thread never says that it is done.
ForgetDone(h) ==
  /\ ThreadAt(h, "test")
  /\ GoesTo(h, "end")
  /\ UNCHANGED <<first, holder, owner, slot, stack, done, detached, ran, moved, stray>>

(* if(!*detached) ...                                                      *)
TestDetached(h) ==
  /\ ThreadAt(h, "test")
  /\ GoesTo(h, IF detached[h] THEN "end" ELSE "store")
  /\ UNCHANGED <<first, holder, owner, slot, stack, done, detached, ran, moved, stray>>

(* ... done = true, in the object that started the thread.                 *)
StoreDone(h) ==
  /\ ThreadAt(h, "store")
  /\ IF first[h] = "live"
     THEN done' = [done EXCEPT ![h] = TRUE] /\ UNCHANGED stray
     ELSE stray' = TRUE /\ UNCHANGED done
  /\ GoesTo(h, "end")
  /\ UNCHANGED <<first, holder, owner, slot, stack, detached, ran, moved>>

(* The return into threads::terminate().                                   *)
Terminate(h) ==
  /\ ThreadAt(h, "end")
  /\ GoesTo(h, "gone")
  /\ UNCHANGED <<first, holder, owner, slot, stack, done, detached, ran, moved, stray>>

-----------------------------------------------------------------------------
OwnerStep(h)  == Joined(h) \/ DetachStore(h)
ThreadStep(h) == \/ FunctionReturns(h) \/ TestDetached(h)
                 \/ StoreDone(h) \/ Terminate(h)

Next == \E h \in Handle : \/ Construct(h) \/ Move(h) \/ Join(h) \/ Detach(h)
                          \/ Destroy(h) \/ OwnerStep(h) \/ ThreadStep(h)

(* Round robin: every thread that can take a step takes one, and functions *)
(* return.                                                                 *)
Spec == /\ Init /\ [][Next]_vars
        /\ \A h \in Handle : WF_vars(OwnerStep(h)) /\ WF_vars(ThreadStep(h))

-----------------------------------------------------------------------------
(* Properties.                                                             *)

(* detach() and the end of the thread overlap: each side tested the flag   *)
(* of the other before the other stored it.                                *)
Overlap(h) == \/ thread[h] = "store" /\ detached[h]
              \/ owner[h] = "detach_store" /\ thread[h] = "gone"

\* A side stores into memory of the other that is gone, the thread into an
\* object that was destroyed or the owner into a stack that has a new thread,
\* only when an object was moved or detach() overlaps with the end of the
\* thread.  An object that stays where it is and is joined is safe, and so is
\* one whose detach() is over before the function of the thread returns.
StrayOnlyByMoveOrOverlap ==
  [][stray' /\ ~stray => \E h \in Handle : moved[h] \/ Overlap(h)]_vars

\* When join() has returned, the function of the thread has.
JoinWaits ==
  [][\A h \in Handle :
       owner[h] = "join" /\ owner'[h] = "idle" => ran[h]]_vars

\* A thread that ended has said so in done, or its owner has said in detached
\* that nobody will ask, or the object it would say it to is gone: no owner
\* waits at the first object for a thread that ended without a word.
EndIsRecorded ==
  \A h \in Handle : thread[h] \in {"end", "gone"} =>
    done[h] \/ detached[h] \/ first[h] = "destroyed"

\* join() of an object that was not moved returns, however the other objects
\* are used, as long as no store goes astray: the thread stores done in the
\* object that started it.
JoinReturns ==
  \A h \in Handle :
    (owner[h] = "join" /\ holder[h] = "first") ~> (owner[h] = "idle" \/ stray)
=============================================================================
