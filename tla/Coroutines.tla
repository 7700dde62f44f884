----------------------------- MODULE Coroutines -----------------------------
(***************************************************************************)
(* include/kernel/coroutine.hpp: the promise of a coroutine, the call of   *)
(* one coroutine by another (co_await), the end of both kinds in           *)
(* final_awaiter, and ~coroutine().  EventLoops says when threads execute  *)
(* these operations, and what becomes of current_coroutine.                *)
(*                                                                         *)
(* A frame is "live" from operator new to the end of the coroutine,        *)
(* "done" while it is suspended at its end, and "freed" after destroy().   *)
(* Memory suffices for it.                                                 *)
(***************************************************************************)
CONSTANT Null

VARIABLES frame,            \* what became of the frame of each coroutine
          parent,           \* promise::parent
          event_loop        \* promise::event_loop, Null without a promise

FrameState == {"none", "live", "done", "freed"}

(* The frame and the promise of c, and set_event_loop() in submit.         *)
Create(c, loop) ==
  /\ frame' = [frame EXCEPT ![c] = "live"]
  /\ event_loop' = [event_loop EXCEPT ![c] = loop]
  /\ UNCHANGED parent

SetEventLoop(c, loop) ==
  /\ event_loop' = [event_loop EXCEPT ![c] = loop]
  /\ UNCHANGED <<frame, parent>>

(* coroutine::await_suspend(): the frame of callee is new, it joins the    *)
(* event loop of its caller.                                               *)
CallCoroutine(caller, callee) ==
  /\ frame' = [frame EXCEPT ![callee] = "live"]
  /\ parent' = [parent EXCEPT ![callee] = caller]
  /\ event_loop' = [event_loop EXCEPT ![callee] = event_loop[caller]]

(* final_awaiter::await_suspend() destroys a top level coroutine before it *)
(* reads its promise.                                                      *)
FinalDestroy(c) ==
  /\ parent[c] = Null
  /\ frame' = [frame EXCEPT ![c] = "freed"]
  /\ UNCHANGED <<parent, event_loop>>

(* A coroutine that was called keeps its frame until its caller has taken  *)
(* the result; the promise of the other kind is gone.                      *)
FinalLeave(c) ==
  /\ frame' = IF parent[c] = Null THEN frame ELSE [frame EXCEPT ![c] = "done"]
  /\ event_loop' = IF parent[c] = Null THEN [event_loop EXCEPT ![c] = Null]
                   ELSE event_loop
  /\ UNCHANGED parent

\* A plausible slip: the object owns the frame, whatever state that is in.
DestroyOwned(c) ==
  /\ frame' = [frame EXCEPT ![c] = "freed"]
  /\ parent' = [parent EXCEPT ![c] = Null]
  /\ event_loop' = [event_loop EXCEPT ![c] = Null]

\* A plausible slip: every coroutine is left to its final awaiter.
DestroyNothing(c) == UNCHANGED <<frame, parent, event_loop>>

(* ~coroutine(), of the object that submit_coroutine() or co_await had.    *)
Destructor(c) ==
  IF frame[c] = "done" /\ parent[c] # Null
  THEN /\ frame' = [frame EXCEPT ![c] = "freed"]
       /\ parent' = [parent EXCEPT ![c] = Null]
       /\ event_loop' = [event_loop EXCEPT ![c] = Null]
  ELSE UNCHANGED <<frame, parent, event_loop>>
=============================================================================
