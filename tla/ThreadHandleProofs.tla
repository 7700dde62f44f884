------------------------- MODULE ThreadHandleProofs -------------------------
(***************************************************************************)
(* Proofs about ThreadHandle, for any number of threads and any number of  *)
(* thread control blocks that they reuse, with the timer at any access to  *)
(* a flag: what it takes for a store to go astray, and that nobody ends    *)
(* without a word.                                                         *)
(***************************************************************************)
EXTENDS ThreadHandle, TLAPS

HandleTypes ==
  /\ first \in [Handle -> {"none", "live", "destroyed"}]
  /\ holder \in [Handle -> {"none", "first", "second"}]
  /\ owner \in [Handle -> {"idle", "join", "detach_store"}]
  /\ thread \in [Handle -> {"none", "function", "test", "store", "end", "gone"}]
  /\ slot \in [Handle -> Slot \cup {Null}]
  /\ stack \in [Slot -> SUBSET Handle]
  /\ done \in [Handle -> BOOLEAN]
  /\ detached \in [Handle -> BOOLEAN]
  /\ ran \in [Handle -> BOOLEAN]
  /\ moved \in [Handle -> BOOLEAN]
  /\ stray \in BOOLEAN

Lives(h) == thread[h] \notin {"none", "gone"}

(* The stack of a thread is its own while it lives: no other thread gets   *)
(* its block.                                                              *)
StackInv(h) == Lives(h) => slot[h] \in Slot /\ stack[slot[h]] = {h}

(* What the owner knows: the object with the handle is there, and the      *)
(* thread of an object that was given up is done, was told in detached, or *)
(* belongs to an object that was moved.                                    *)
OwnerInv(h) ==
  /\ first[h] = "none" <=> thread[h] = "none"
  /\ first[h] = "none" => holder[h] = "none"
  /\ holder[h] = "none" /\ first[h] # "none" => done[h] \/ detached[h] \/ moved[h]
  /\ holder[h] = "first" => first[h] = "live"
  /\ holder[h] = "second" => moved[h]
  /\ detached[h] => holder[h] = "none" /\ first[h] # "none"
  /\ owner[h] # "idle" => Held(h)

(* What the thread knows.                                                  *)
ThreadInv(h) ==
  /\ done[h] => ran[h] /\ thread[h] \in {"end", "gone"}
  /\ thread[h] \in {"test", "store", "end", "gone"} => ran[h]
  /\ thread[h] \in {"end", "gone"} => done[h] \/ detached[h] \/ first[h] = "destroyed"

(* The inductive invariant.                                                *)
HandleInv ==
  /\ HandleTypes
  /\ \A h \in Handle : StackInv(h) /\ OwnerInv(h) /\ ThreadInv(h)

-----------------------------------------------------------------------------
\* The initial state satisfies the invariant.
LEMMA HandleInit == Init => HandleInv
<1> SUFFICES ASSUME Init PROVE HandleInv  OBVIOUS
<1>1. HandleTypes
  BY DEF Init, HandleTypes
<1>2. ASSUME NEW h \in Handle PROVE StackInv(h) /\ OwnerInv(h) /\ ThreadInv(h)
  <2>1. /\ first[h] = "none" /\ holder[h] = "none" /\ owner[h] = "idle"
        /\ thread[h] = "none" /\ done[h] = FALSE /\ detached[h] = FALSE
    BY DEF Init
  <2>2. StackInv(h)   BY <2>1 DEF StackInv, Lives
  <2>3. OwnerInv(h)   BY <2>1 DEF OwnerInv
  <2>4. ThreadInv(h)  BY <2>1 DEF ThreadInv
  <2> QED BY <2>2, <2>3, <2>4
<1> QED BY <1>1, <1>2 DEF HandleInv

\* A step of one thread or of its owner leaves the others alone.
LEMMA OtherHandles ==
  ASSUME HandleInv, NEW h \in Handle, HandleTypes',
         \A o \in Handle \ {h} : /\ first'[o] = first[o] /\ holder'[o] = holder[o]
                                 /\ owner'[o] = owner[o] /\ moved'[o] = moved[o]
                                 /\ thread'[o] = thread[o] /\ slot'[o] = slot[o]
                                 /\ done'[o] = done[o] /\ detached'[o] = detached[o]
                                 /\ ran'[o] = ran[o]
                                 /\ Lives(o) => stack'[slot[o]] = stack[slot[o]]
  PROVE  \A o \in Handle \ {h} : StackInv(o)' /\ OwnerInv(o)' /\ ThreadInv(o)'
BY DEF HandleInv, StackInv, OwnerInv, ThreadInv, Lives, Held

\* Every step keeps the invariant.
LEMMA HandleNext == HandleInv /\ [Next]_vars => HandleInv'
<1> SUFFICES ASSUME HandleInv, [Next]_vars PROVE HandleInv'  OBVIOUS
<1> USE DEF HandleInv
<1>1. CASE UNCHANGED vars
  BY <1>1 DEF vars, HandleTypes, StackInv, OwnerInv, ThreadInv, Lives, Held
<1>2. ASSUME NEW h \in Handle, Construct(h) PROVE HandleInv'
  <2>1. PICK s \in Slot : /\ ~Busy(s)
                          /\ slot' = [slot EXCEPT ![h] = s]
                          /\ stack' = [stack EXCEPT ![s] = {h}]
    BY <1>2 DEF Construct
  <2>2. HandleTypes'
    BY <1>2, <2>1 DEF Construct, HandleTypes
  <2>3. \A o \in Handle \ {h} : Lives(o) => slot[o] # s
    BY <2>1 DEF Busy, Lives
  <2>4. StackInv(h)' /\ OwnerInv(h)' /\ ThreadInv(h)'
    BY <1>2, <2>1 DEF Construct, OwnerAt, HandleTypes, StackInv, OwnerInv, ThreadInv, Held
  <2>5. \A o \in Handle \ {h} : StackInv(o)' /\ OwnerInv(o)' /\ ThreadInv(o)'
    BY <1>2, <2>1, <2>2, <2>3, OtherHandles DEF Construct, HandleTypes, StackInv
  <2> QED BY <2>2, <2>4, <2>5
<1>3. ASSUME NEW h \in Handle, stack' = stack, slot' = slot,
             Move(h) \/ Join(h) \/ Detach(h) \/ Destroy(h) \/ OwnerStep(h) \/ ThreadStep(h)
      PROVE  HandleInv'
  <2> USE DEF OwnerStep, ThreadStep
  <2>1. /\ HandleTypes'
        /\ \A o \in Handle \ {h} : /\ first'[o] = first[o] /\ holder'[o] = holder[o]
                                 /\ owner'[o] = owner[o] /\ moved'[o] = moved[o]
                                  /\ thread'[o] = thread[o] /\ done'[o] = done[o]
                                  /\ detached'[o] = detached[o] /\ ran'[o] = ran[o]
    <3>0. HandleTypes  OBVIOUS
    <3> HIDE DEF HandleInv
    <3> USE DEF HandleTypes
    <3>1. CASE Move(h)            BY <1>3, <3>0, <3>1 DEF Move
    <3>2. CASE Join(h)            BY <1>3, <3>0, <3>2 DEF Join
    <3>3. CASE Detach(h)          BY <1>3, <3>0, <3>3 DEF Detach, Release
    <3>4. CASE Destroy(h)         BY <1>3, <3>0, <3>4 DEF Destroy
    <3>5. CASE Joined(h)          BY <1>3, <3>0, <3>5 DEF Joined, Release
    <3>6. CASE DetachStore(h)     BY <1>3, <3>0, <3>6 DEF DetachStore, Release
    <3>7. CASE FunctionReturns(h) BY <1>3, <3>0, <3>7 DEF FunctionReturns, GoesTo
    <3>8. CASE TestDetached(h)    BY <1>3, <3>0, <3>8 DEF TestDetached, GoesTo
    <3>9. CASE StoreDone(h)       BY <1>3, <3>0, <3>9 DEF StoreDone, GoesTo
    <3>10. CASE Terminate(h)      BY <1>3, <3>0, <3>10 DEF Terminate, GoesTo
    <3> QED BY <1>3, <3>1, <3>2, <3>3, <3>4, <3>5, <3>6, <3>7, <3>8, <3>9, <3>10
  <2>2. \A o \in Handle \ {h} : StackInv(o)' /\ OwnerInv(o)' /\ ThreadInv(o)'
    BY <1>3, <2>1, OtherHandles
  <2>3. StackInv(h)' /\ OwnerInv(h)' /\ ThreadInv(h)'
    <3>0. StackInv(h) /\ OwnerInv(h) /\ ThreadInv(h) /\ HandleTypes
      OBVIOUS
    <3>a. /\ h \in DOMAIN first /\ h \in DOMAIN holder /\ h \in DOMAIN moved /\ h \in DOMAIN owner /\ h \in DOMAIN thread
          /\ h \in DOMAIN done /\ h \in DOMAIN detached /\ h \in DOMAIN ran
          /\ first[h] \in {"none", "live", "destroyed"}
          /\ holder[h] \in {"none", "first", "second"}
          /\ owner[h] \in {"idle", "join", "detach_store"}
          /\ thread[h] \in {"none", "function", "test", "store", "end", "gone"}
          /\ done[h] \in BOOLEAN /\ detached[h] \in BOOLEAN /\ moved[h] \in BOOLEAN
      BY DEF HandleTypes
    <3> HIDE DEF HandleInv
    <3> USE DEF StackInv, OwnerInv, ThreadInv, Lives, Held
    <3>1. CASE Move(h)            BY <1>3, <3>0, <3>a, <3>1 DEF Move, OwnerAt
    <3>2. CASE Join(h)            BY <1>3, <3>0, <3>a, <3>2 DEF Join, OwnerAt
    <3>3. CASE Detach(h)          BY <1>3, <3>0, <3>a, <3>3 DEF Detach, DoneHere, OwnerAt, Release
    <3>4. CASE Destroy(h)         BY <1>3, <3>0, <3>a, <3>4 DEF Destroy, OwnerAt
    <3>5. CASE Joined(h)          BY <1>3, <3>0, <3>a, <3>5 DEF Joined, DoneHere, OwnerAt, Release
    <3>6. CASE DetachStore(h)     BY <1>3, <3>0, <3>a, <3>6 DEF DetachStore, OwnerAt, Release
    <3>7. CASE FunctionReturns(h) BY <1>3, <3>0, <3>a, <3>7 DEF FunctionReturns, ThreadAt, GoesTo
    <3>8. CASE TestDetached(h)    BY <1>3, <3>0, <3>a, <3>8 DEF TestDetached, ThreadAt, GoesTo
    <3>9. CASE StoreDone(h)       BY <1>3, <3>0, <3>a, <3>9 DEF StoreDone, ThreadAt, GoesTo
    <3>10. CASE Terminate(h)      BY <1>3, <3>0, <3>a, <3>10 DEF Terminate, ThreadAt, GoesTo
    <3> QED BY <1>3, <3>1, <3>2, <3>3, <3>4, <3>5, <3>6, <3>7, <3>8, <3>9, <3>10
  <2> QED BY <2>1, <2>2, <2>3
<1>4. CASE Next
  <2>1. PICK h \in Handle : \/ Construct(h) \/ Move(h) \/ Join(h) \/ Detach(h)
                            \/ Destroy(h) \/ OwnerStep(h) \/ ThreadStep(h)
    BY <1>4 DEF Next
  <2>2. CASE Construct(h)
    BY <1>2, <2>2
  <2>3. CASE ~Construct(h)
    <3>1. stack' = stack /\ slot' = slot
      BY <2>1, <2>3 DEF Move, Join, Detach, Destroy, OwnerStep, Joined, DetachStore,
                        ThreadStep, FunctionReturns, TestDetached, StoreDone, Terminate
    <3> QED BY <1>3, <2>1, <2>3, <3>1
  <2> QED BY <2>2, <2>3
<1> QED BY <1>1, <1>4

\* The inductive invariant of thread objects and their threads.
THEOREM HandleInvariant == Spec => []HandleInv
BY HandleInit, HandleNext, PTL DEF Spec

\* A store goes astray only when an object was moved, or when detach() and the
\* end of the thread overlap.
THEOREM StrayStoresExplained == Spec => StrayOnlyByMoveOrOverlap
<1>1. HandleInv /\ [Next]_vars =>
        (stray' /\ ~stray => \E h \in Handle : moved[h] \/ Overlap(h))
  <2> SUFFICES ASSUME HandleInv, Next, stray', ~stray
               PROVE  \E h \in Handle : moved[h] \/ Overlap(h)
    BY DEF vars
  <2>1. PICK h \in Handle : \/ Construct(h) \/ Move(h) \/ Join(h) \/ Detach(h)
                            \/ Destroy(h) \/ OwnerStep(h) \/ ThreadStep(h)
    BY DEF Next
  <2>2. StackInv(h) /\ OwnerInv(h) /\ ThreadInv(h) /\ HandleTypes
    BY DEF HandleInv
  <2>3. \/ StoreDone(h) /\ first[h] # "live"
        \/ DetachStore(h) /\ ~(holder[h] = "first" /\ h \in stack[slot[h]])
    BY <2>1 DEF Construct, Move, Join, Detach, Destroy, OwnerStep, Joined, DetachStore,
                ThreadStep, FunctionReturns, TestDetached, StoreDone, Terminate
  <2>4. CASE StoreDone(h) /\ first[h] # "live"
    <3>1. thread[h] = "store" /\ first[h] # "none" /\ holder[h] # "first"
      BY <2>2, <2>4 DEF StoreDone, ThreadAt, OwnerInv
    <3>2. moved[h] \/ detached[h]
      BY <2>2, <3>1 DEF OwnerInv, ThreadInv, HandleTypes
    <3> QED BY <3>1, <3>2 DEF Overlap
  <2>5. CASE DetachStore(h) /\ ~(holder[h] = "first" /\ h \in stack[slot[h]])
    <3>1. owner[h] = "detach_store" /\ Held(h)
      BY <2>2, <2>5 DEF DetachStore, OwnerAt, OwnerInv
    <3>2. holder[h] = "second" => moved[h]
      BY <2>2 DEF OwnerInv
    <3>3. holder[h] = "first" => thread[h] = "gone"
      <4>1. holder[h] = "first" => ~Lives(h) /\ thread[h] # "none"
        BY <2>2, <2>5 DEF StackInv, OwnerInv
      <4> QED BY <4>1 DEF Lives
    <3> QED BY <3>1, <3>2, <3>3 DEF Held, Overlap
  <2> QED BY <2>3, <2>4, <2>5
<1> QED BY <1>1, HandleInvariant, PTL DEF Spec, StrayOnlyByMoveOrOverlap

\* A thread that ended has stored done, or its owner has stored detached, or
\* its object is gone.
THEOREM EndIsAlwaysRecorded == Spec => []EndIsRecorded
<1>1. HandleInv => EndIsRecorded  BY DEF HandleInv, ThreadInv, EndIsRecorded
<1> QED BY <1>1, HandleInvariant, PTL

\* join() returns after the function of the thread only.
THEOREM JoinAlwaysWaits == Spec => JoinWaits
<1>1. HandleInv /\ [Next]_vars =>
        \A h \in Handle : owner[h] = "join" /\ owner'[h] = "idle" => ran[h]
  <2> SUFFICES ASSUME HandleInv, Next, NEW h \in Handle, owner[h] = "join", owner'[h] = "idle"
               PROVE  ran[h]
    BY DEF vars
  <2>1. PICK o \in Handle : \/ Construct(o) \/ Move(o) \/ Join(o) \/ Detach(o)
                            \/ Destroy(o) \/ OwnerStep(o) \/ ThreadStep(o)
    BY DEF Next
  <2>2. owner'[h] # owner[h]
    OBVIOUS
  <2>3. o = h /\ (Joined(o) \/ owner[o] # "join")
    BY <2>1, <2>2 DEF Construct, Move, Join, Detach, Destroy, OwnerStep, Joined, DetachStore,
                Release, OwnerAt, HandleInv, HandleTypes,
                ThreadStep, FunctionReturns, TestDetached, StoreDone, Terminate
  <2>4. done[h]
    BY <2>3 DEF Joined, DoneHere
  <2> QED BY <2>4 DEF HandleInv, ThreadInv
<1> QED BY <1>1, HandleInvariant, PTL DEF Spec, JoinWaits
=============================================================================
