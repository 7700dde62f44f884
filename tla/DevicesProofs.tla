---------------------------- MODULE DevicesProofs ----------------------------
(***************************************************************************)
(* Proofs about the serial port and the timers of Devices.                 *)
(***************************************************************************)
EXTENDS Devices, TLAPS

-----------------------------------------------------------------------------
(* The serial port, for any counter, any bytes and however many of them:   *)
(* what the port loses and repeats, which is nothing, whatever interrupts, *)
(* prompts and timers come between.                                        *)

(* What the handler knows about the port at each of its steps: it is       *)
(* entered with RX pending, so mis is set when icr is cleared, and the     *)
(* loop that follows reads every byte that is left without an interrupt.   *)
PortInv ==
  /\ cs \subseteq Timer
  /\ rx \in BOOLEAN /\ mis \in BOOLEAN
  /\ pc = "uart" => rx
  /\ pc = "clear" => mis
  /\ NoByteIsStranded
  /\ BytesInOrder

\* The controller shows the serial port only while RX is set: no timer shares
\* its bit.
LEMMA UartPending ==
  ASSUME PortInv, check_interrupt(Uart)
  PROVE  rx
<1>1. \A t \in Timer : Bit(t) # Bit(Uart)
  BY DEF Bit, Timer, Uart
<1>2. CASE ~rx
  <2>1. Bit(Uart) \in {Bit(t) : t \in cs}
    BY <1>2 DEF check_interrupt, irq_pending
  <2> QED BY <1>1, <2>1 DEF PortInv
<1> QED BY <1>2 DEF PortInv

\* The initial state satisfies the invariant.
LEMMA PortInit == Init => PortInv
BY DEF Init, TimersInit, SerialInit, PortInv, NoByteIsStranded, BytesInOrder, RXFE

\* Boot code, timers and the clock leave the port alone.
LEMMA PortElsewhere ==
  ASSUME PortInv, UNCHANGED serialVars, cs' \subseteq Timer,
         pc' \notin {"uart", "clear"},
         pc \notin {"clear", "drain", "get"} \/ pc' = pc
  PROVE  PortInv'
BY DEF PortInv, serialVars, NoByteIsStranded, BytesInOrder, RXFE

\* Every step keeps the invariant.
LEMMA PortNext == PortInv /\ [Next]_vars => PortInv'
<1> SUFFICES ASSUME PortInv, [Next]_vars PROVE PortInv'  OBVIOUS
<1> USE DEF PortInv, NoByteIsStranded, BytesInOrder, RXFE
<1>1. CASE BootEnable
  BY <1>1, PortElsewhere DEF BootEnable, Boot, timerVars
<1>2. CASE BootSetup
  BY <1>2, PortElsewhere DEF BootSetup, Boot, Configure, LoadClock, StoreCompare, ClearMatch
<1>3. CASE Handler
  <2>1. CASE Interrupt
    BY <2>1, PortElsewhere DEF Interrupt, timerVars
  <2>2. CASE CheckTimer
    BY <2>2, PortElsewhere DEF CheckTimer, NextSource, timerVars
  <2>3. CASE CheckUart
    <3>1. CASE check_interrupt(Uart)
      BY <2>3, <3>1, UartPending DEF CheckUart, timerVars, serialVars
    <3>2. CASE ~check_interrupt(Uart)
      BY <2>3, <3>2, PortElsewhere DEF CheckUart, timerVars
    <3> QED BY <3>1, <3>2
  <2>4. CASE Reset
    BY <2>4, PortElsewhere DEF Reset, LoadClock, StoreCompare, ClearMatch
  <2>5. CASE CallFunction
    BY <2>5, PortElsewhere DEF CallFunction, NextSource, timerVars
  <2> QED BY <1>3, <2>1, <2>2, <2>3, <2>4, <2>5 DEF Handler
<1>4. CASE HandleInterrupt /\ SerialOnly
  <2>0. cs' = cs
    BY <1>4 DEF SerialOnly, timerVars
  <2>1. CASE ReadStatus
    BY <2>0, <2>1 DEF ReadStatus
  <2>2. CASE ClearStatus
    BY <2>0, <2>2 DEF ClearStatus
  <2>3. CASE Drain
    BY <2>0, <2>3 DEF Drain
  <2>4. CASE Get
    BY <2>0, <2>4 DEF Get, ReadData
  <2> QED BY <1>4, <2>1, <2>2, <2>3, <2>4 DEF HandleInterrupt
<1>5. CASE TakeException
  BY <1>5 DEF TakeException, Exception, SerialOnly, timerVars
<1>6. CASE PromptGet /\ SerialOnly
  BY <1>6 DEF PromptGet, ReadData, SerialOnly, timerVars
<1>7. CASE \E ch \in Char : Arrive(ch) /\ SerialOnly
  BY <1>7, SerialAssumption DEF Arrive, SerialOnly, timerVars
<1>8. CASE Clock
  BY <1>8 DEF Clock, ClockTick, serialVars
<1>9. CASE UNCHANGED vars
  BY <1>9 DEF vars, serialVars, timerVars
<1> QED BY <1>1, <1>2, <1>3, <1>4, <1>5, <1>6, <1>7, <1>8, <1>9 DEF Next

\* The inductive invariant of the serial port.
THEOREM PortInvariant == Spec => []PortInv
BY PortInit, PortNext, PTL DEF Spec

\* Each byte that the UART accepted is read once, by handle_interrupt() or by
\* the prompt of handle_exception(), in the order of arrival.
THEOREM ReadOnceInOrder == Spec => []BytesInOrder
<1>1. PortInv => BytesInOrder  BY DEF PortInv
<1> QED BY <1>1, PortInvariant, PTL

\* No byte is left in the register without its interrupt, once
\* handle_interrupt() has returned.
THEOREM NoneIsStranded == Spec => []NoByteIsStranded
<1>1. PortInv => NoByteIsStranded  BY DEF PortInv
<1> QED BY <1>1, PortInvariant, PTL

-----------------------------------------------------------------------------
(* The timers, for a counter of any width and any interval: however late a *)
(* timer is served, and whatever is served first, its next compare value   *)
(* lies ahead of the counter, and it is not served before an interval is   *)
(* over.                                                                   *)

(* The timers that start_kernel() sets up, and where in BootSteps.         *)
SetUp == {1, 3}
First(t) == IF t = 1 THEN 3 ELSE 8

(* The step of the boot that comes next; 12 when it is over.               *)
Step == 12 - Len(boot)

(* The timer that process_interrupt() is at.                               *)
Asked == Sources[source]

Served(t) == pc \in {"store", "clear_match"} /\ Asked = t

Left(t) == (cc[t] - clo) % WORD

-----------------------------------------------------------------------------
(* The inductive invariant.                                                *)

TimerTypes ==
  /\ clo \in 0 .. WORD - 1
  /\ cc \in [Timer -> 0 .. WORD - 1]
  /\ cs \subseteq Timer
  /\ current \in [Caller -> 0 .. WORD - 1]
  /\ timer_configs \subseteq SetUp
  /\ since \in [Timer -> 0 .. Interval]
  /\ enabled \subseteq {Bit(1), Bit(3), Bit(Uart)}

BootStep == {BootSteps[i] : i \in 1 .. 11}

(* boot is the end of BootSteps.                                           *)
BootInv ==
  /\ boot \in Seq(BootStep) /\ Len(boot) <= 11
  /\ \A i \in 1 .. Len(boot) : boot[i] = BootSteps[11 - Len(boot) + i]

(* setup(t): the counter does not meet the compare register before it is   *)
(* written, nor between the store to it and the clearing of the match.     *)
SetupInv(t) ==
  /\ Step > First(t) => t \in timer_configs
  /\ Step < First(t) + 4 => t \notin cs
  /\ Step < First(t) + 3 => cc[t] = 0
  /\ Step \in {First(t) + 2, First(t) + 3} =>
       Elapsed("setup") \in 0 .. Latency /\ since[t] = Elapsed("setup")
  /\ Step = First(t) + 3 => cc[t] = (current["setup"] + Interval) % WORD

(* A timer that is set up has matched after a full interval, or is being   *)
(* served, or what is left of the interval is the distance to its compare  *)
(* value.                                                                  *)
ArmedInv(t) ==
  Step >= First(t) + 4 =>
    IF t \in cs THEN Served(t) \/ since[t] = Interval
                ELSE Left(t) \in 1 .. Interval /\ since[t] = Interval - Left(t)

(* reset(), for a timer that is set up and has matched.                    *)
ResetInv ==
  /\ pc \in {"load", "store", "clear_match"} =>
       Asked \in SetUp /\ Asked \in cs /\ Step >= First(Asked) + 4
  /\ pc \in {"store", "clear_match"} =>
       Elapsed("reset") \in 0 .. Latency /\ since[Asked] = Elapsed("reset")
  /\ pc = "clear_match" => cc[Asked] = (current["reset"] + Interval) % WORD

TimerInv == /\ TimerTypes /\ BootInv /\ ResetInv
            /\ \A t \in SetUp : SetupInv(t) /\ ArmedInv(t)

-----------------------------------------------------------------------------
(* A counter that wraps.                                                   *)

\* A sum wraps once.
LEMMA WrapSum ==
  ASSUME NEW W \in Nat, NEW a \in 0 .. W - 1, NEW k \in 0 .. W - 1
  PROVE  (a + k) % W = IF a + k < W THEN a + k ELSE a + k - W
<1>1. CASE a + k < W   BY <1>1, SMT
<1>2. CASE a + k >= W  BY <1>2, SMT
<1> QED BY <1>1, <1>2

\* The distance from b on to a.
LEMMA WrapDifference ==
  ASSUME NEW W \in Nat, NEW a \in 0 .. W - 1, NEW b \in 0 .. W - 1
  PROVE  (a - b) % W = IF a >= b THEN a - b ELSE a - b + W
<1>1. CASE a >= b  BY <1>1, SMT
<1>2. CASE a < b   BY <1>2, SMT
<1> QED BY <1>1, <1>2

\* The counter comes nearer to a value that it has not met, and meets it when
\* one tick was left.
LEMMA TickNearer ==
  ASSUME NEW W \in Nat, NEW a \in 0 .. W - 1, NEW c \in 0 .. W - 1, 1 < W,
         (c - a) % W # 0
  PROVE  /\ (c - ((a + 1) % W)) % W = ((c - a) % W) - 1
         /\ c = (a + 1) % W <=> (c - a) % W = 1
<1>1. 1 \in 0 .. W - 1
  OBVIOUS
<1>2. (a + 1) % W = IF a + 1 < W THEN a + 1 ELSE a + 1 - W
  BY <1>1, WrapSum
<1>3. (c - a) % W = IF c >= a THEN c - a ELSE c - a + W
  BY WrapDifference
<1> DEFINE b == (a + 1) % W
<1>4. (c - b) % W = IF c >= b THEN c - b ELSE c - b + W
  <2>1. b \in 0 .. W - 1  BY <1>2
  <2> HIDE DEF b
  <2> QED BY <2>1, WrapDifference
<1> QED BY <1>2, <1>3, <1>4

\* The time since a value of the counter grows by a tick.
LEMMA TickOlder ==
  ASSUME NEW W \in Nat, NEW a \in 0 .. W - 1, NEW u \in 0 .. W - 1, 1 < W,
         (a - u) % W < W - 1
  PROVE  (((a + 1) % W) - u) % W = ((a - u) % W) + 1
<1>1. 1 \in 0 .. W - 1
  OBVIOUS
<1>2. (a + 1) % W = IF a + 1 < W THEN a + 1 ELSE a + 1 - W
  BY <1>1, WrapSum
<1>3. (a - u) % W = IF a >= u THEN a - u ELSE a - u + W
  BY WrapDifference
<1> DEFINE b == (a + 1) % W
<1>4. (b - u) % W = IF b >= u THEN b - u ELSE b - u + W
  <2>1. b \in 0 .. W - 1  BY <1>2
  <2> HIDE DEF b
  <2> QED BY <2>1, WrapDifference
<1> QED BY <1>2, <1>3, <1>4

\* A compare value, computed from a load of the counter less than k ticks ago,
\* is ahead of the counter.
LEMMA StoreAhead ==
  ASSUME NEW W \in Nat, NEW a \in 0 .. W - 1, NEW u \in 0 .. W - 1,
         NEW k \in 0 .. W - 1, (a - u) % W < k
  PROVE  (((u + k) % W) - a) % W = k - ((a - u) % W)
<1>1. (u + k) % W = IF u + k < W THEN u + k ELSE u + k - W
  BY WrapSum
<1>2. (a - u) % W = IF a >= u THEN a - u ELSE a - u + W
  BY WrapDifference
<1> DEFINE b == (u + k) % W
<1>3. (b - a) % W = IF b >= a THEN b - a ELSE b - a + W
  <2>1. b \in 0 .. W - 1  BY <1>1
  <2> HIDE DEF b
  <2> QED BY <2>1, WrapDifference
<1> QED BY <1>1, <1>2, <1>3

-----------------------------------------------------------------------------
(* The boot.                                                               *)

\* The next step of the boot is the one that BootSteps has there.
LEMMA BootHead ==
  BootInv => /\ Step \in 1 .. 12
             /\ boot = <<>> <=> Step = 12
             /\ boot # <<>> => Head(boot) = BootSteps[Step]
<1> SUFFICES ASSUME BootInv
             PROVE  /\ Step \in 1 .. 12
                    /\ boot = <<>> <=> Step = 12
                    /\ boot # <<>> => Head(boot) = BootSteps[Step]
  OBVIOUS
<1>1. Len(boot) \in Nat /\ Len(boot) <= 11
  BY DEF BootInv
<1>2. boot = <<>> <=> Len(boot) = 0
  BY DEF BootInv
<1>3. boot # <<>> => Head(boot) = boot[1]
  BY DEF BootInv
<1>4. boot # <<>> => boot[1] = BootSteps[12 - Len(boot)]
  BY <1>1, <1>2 DEF BootInv
<1> QED BY <1>1, <1>2, <1>3, <1>4 DEF Step

\* A step of the boot leads to the next.
LEMMA BootTail ==
  ASSUME BootInv, boot # <<>>, boot' = Tail(boot)
  PROVE  BootInv' /\ Step' = Step + 1
<1>1. /\ boot' \in Seq(BootStep) /\ Len(boot') = Len(boot) - 1
      /\ Len(boot) \in Nat /\ Len(boot) > 0
      /\ \A i \in 1 .. Len(boot') : boot'[i] = boot[i + 1]
  BY DEF BootInv
<1>2. \A i \in 1 .. Len(boot') : boot'[i] = BootSteps[11 - Len(boot') + i]
  BY <1>1 DEF BootInv
<1> QED BY <1>1, <1>2 DEF BootInv, Step

\* Where the steps are that set up a timer.
LEMMA BootPlaces ==
  /\ \A i \in {1, 2, 7} : BootSteps[i].op = "enable" /\ BootSteps[i].arg \in {1, 3, Uart}
  /\ \A t \in SetUp : /\ BootSteps[First(t)] = Do("configure", t)
                      /\ BootSteps[First(t) + 1] = Do("load", t)
                      /\ BootSteps[First(t) + 2] = Do("store", t)
                      /\ BootSteps[First(t) + 3] = Do("clear", t)
  /\ \A i \in 1 .. 11 : i \in {1, 2, 7} \/ \E t \in SetUp : i \in First(t) .. First(t) + 3
BY DEF BootSteps, Do, SetUp, First, Uart

\* A timer that is armed has had all its steps.
LEMMA ArmedIsSetUp ==
  ASSUME BootInv, TimerTypes, NEW t \in Timer, Armed(t)
  PROVE  t \in SetUp /\ Step >= First(t) + 4
<1>1. t \in SetUp
  BY DEF Armed, TimerTypes
<1>2. CASE Step < First(t) + 4
  <2> DEFINE i == First(t) + 4 - Step
  <2>1. i \in 1 .. Len(boot) /\ 11 - Len(boot) + i = First(t) + 3
    BY <1>1, <1>2, BootHead DEF Step, First, SetUp, BootInv
  <2>2. boot[i] = Do("clear", t)
    BY <1>1, <2>1, BootPlaces DEF BootInv
  <2> QED BY <2>1, <2>2 DEF Armed, Do
<1> QED BY <1>1, <1>2, BootHead DEF First, SetUp
-----------------------------------------------------------------------------
(* setup() and reset(), step by step.                                      *)

\* The load.
LEMMA LoadEffect ==
  ASSUME TimerTypes, NEW c \in Caller, NEW t \in Timer, LoadClock(c, t), UNCHANGED enabled
  PROVE  /\ TimerTypes' /\ UNCHANGED <<clo, cc, cs, timer_configs>>
         /\ Elapsed(c)' = 0 /\ since'[t] = 0
         /\ \A d \in Caller \ {c} : Elapsed(d)' = Elapsed(d) /\ current'[d] = current[d]
         /\ \A o \in Timer \ {t} : since'[o] = since[o]
<1> USE TimersAssumption DEF TimerTypes, LoadClock
<1>1. TimerTypes'
  OBVIOUS
<1>2. Elapsed(c)' = 0
  BY WrapDifference DEF Elapsed
<1> QED BY <1>1, <1>2 DEF Elapsed

\* The store.
LEMMA StoreEffect ==
  ASSUME TimerTypes, NEW c \in Caller, NEW t \in Timer, StoreCompare(c, t), UNCHANGED enabled
  PROVE  /\ TimerTypes' /\ UNCHANGED <<clo, cs, current, timer_configs, since>>
         /\ cc'[t] = (current[c] + Interval) % WORD
         /\ \A o \in Timer \ {t} : cc'[o] = cc[o]
<1> USE TimersAssumption DEF TimerTypes, StoreCompare
<1> DEFINE u == current[c]
<1>1. u \in 0 .. WORD - 1 /\ Interval \in 0 .. WORD - 1
  OBVIOUS
<1>2. (u + Interval) % WORD \in 0 .. WORD - 1
  <2> HIDE DEF u
  <2> QED BY <1>1, WrapSum
<1> QED BY <1>2

\* The match is cleared while the compare value is ahead.
LEMMA ClearEffect ==
  ASSUME TimerTypes, NEW c \in Caller, NEW t \in Timer, ClearMatch(c, t), UNCHANGED enabled,
         Elapsed(c) \in 0 .. Latency, cc[t] = (current[c] + Interval) % WORD
  PROVE  /\ TimerTypes' /\ UNCHANGED <<clo, cc, timer_configs, since>>
         /\ cs' = cs \ {t}
         /\ Left(t) = Interval - Elapsed(c) /\ Left(t) \in 1 .. Interval
         /\ \A d \in Caller \ {c} : Elapsed(d)' = Elapsed(d) /\ current'[d] = current[d]
<1> USE TimersAssumption DEF TimerTypes
<1>1. TimerTypes'
  BY DEF ClearMatch
<1> DEFINE u == current[c]
<1>2. u \in 0 .. WORD - 1 /\ Interval \in 0 .. WORD - 1 /\ clo \in 0 .. WORD - 1
      /\ (clo - u) % WORD \in 0 .. Latency /\ cc[t] = (u + Interval) % WORD
  BY DEF Elapsed
<1>3. (((u + Interval) % WORD) - clo) % WORD = Interval - ((clo - u) % WORD)
  <2> HIDE DEF u
  <2>1. (clo - u) % WORD < Interval
    BY <1>2
  <2> QED BY <1>2, <2>1, StoreAhead
<1>4. Left(t) = Interval - Elapsed(c)
  BY <1>2, <1>3 DEF Left, Elapsed
<1> QED BY <1>1, <1>4 DEF ClearMatch, Elapsed

-----------------------------------------------------------------------------
(* The steps.                                                              *)

\* The initial state satisfies the invariant.
LEMMA TimerInit == Init => TimerInv
<1> SUFFICES ASSUME Init PROVE TimerInv  OBVIOUS
<1> USE TimersAssumption DEF Init, TimersInit, SerialInit
<1>1. boot \in Seq(BootStep) /\ Len(boot) = 11
  <2>1. BootSteps = [i \in 1 .. 11 |-> BootSteps[i]] /\ Len(BootSteps) = 11
    BY DEF BootSteps
  <2> QED BY <2>1 DEF BootStep
<1>2. BootInv /\ Step = 1
  BY <1>1 DEF BootInv, Step
<1>3. TimerTypes
  BY DEF TimerTypes
<1>4. ResetInv
  BY DEF ResetInv
<1>5. \A t \in SetUp : SetupInv(t) /\ ArmedInv(t)
  BY <1>2 DEF SetupInv, ArmedInv, First, SetUp, Timer
<1> QED BY <1>2, <1>3, <1>4, <1>5 DEF TimerInv

\* A step that leaves the timers and the boot alone, and does not leave or
\* enter reset(), keeps the invariant.
LEMMA TimersElsewhere ==
  ASSUME TimerInv, UNCHANGED <<timerVars, boot, enabled>>,
         \/ UNCHANGED <<pc, source>>
         \/ /\ pc \notin {"store", "clear_match"}
            /\ pc' \notin {"load", "store", "clear_match"}
  PROVE  TimerInv'
<1> USE DEF TimerInv, timerVars
<1>1. TimerTypes' /\ BootInv' /\ Step' = Step
  BY DEF TimerTypes, BootInv, Step
<1>2. ResetInv'
  BY <1>1 DEF ResetInv, Asked, Elapsed
<1>3. ASSUME NEW t \in SetUp PROVE SetupInv(t)' /\ ArmedInv(t)'
  <2>1. SetupInv(t) /\ ArmedInv(t) OBVIOUS
  <2> QED BY <1>1, <2>1 DEF SetupInv, ArmedInv, Elapsed, Left, Served, Asked
<1> QED BY <1>1, <1>2, <1>3

\* Only a timer that was set up and has matched is pending.
LEMMA PendingMatched ==
  ASSUME TimerInv, NEW t \in Timer, check_interrupt(t)
  PROVE  t \in SetUp /\ t \in cs /\ Step >= First(t) + 4
<1>1. \A s \in Timer : Bit(s) = Bit(t) => s = t
  BY DEF Bit, Timer
<1>2. Bit(t) # Bit(Uart)
  BY DEF Bit, Timer, Uart
<1>3. Bit(t) \in enabled /\ (t \in cs)
  BY <1>1, <1>2 DEF check_interrupt, irq_pending, TimerInv, TimerTypes
<1>4. t \in SetUp
  <2>1. Bit(t) = Bit(1) \/ Bit(t) = Bit(3)
    BY <1>2, <1>3 DEF TimerInv, TimerTypes
  <2> QED BY <1>1, <2>1 DEF SetUp, Timer
<1>5. Step \in Int /\ First(t) \in Int
  BY BootHead DEF TimerInv, First
<1> QED BY <1>3, <1>4, <1>5 DEF TimerInv, SetupInv

\* The boot enables the two timers and the serial port.
LEMMA TimerBootEnable == TimerInv /\ BootEnable => TimerInv'
<1> SUFFICES ASSUME TimerInv, BootEnable PROVE TimerInv'  OBVIOUS
<1> USE DEF TimerInv
<1>1. boot # <<>> /\ pc = "thread" /\ BootSteps[Step].op = "enable" /\ Step \in 1 .. 11
  BY BootHead DEF BootEnable, Boot
<1>2. Step \in {1, 2, 7}
  BY <1>1, BootPlaces DEF Do, First, SetUp
<1>3. Head(boot).arg \in {1, 3, Uart}
  BY <1>1, <1>2, BootHead, BootPlaces
<1>4. BootInv' /\ Step' = Step + 1
  BY BootTail DEF BootEnable, Boot
<1>5. TimerTypes'
  BY <1>3 DEF BootEnable, EnableSource, TimerTypes, timerVars
<1>6. ResetInv'
  BY <1>1 DEF ResetInv, BootEnable
<1>7. ASSUME NEW t \in SetUp PROVE SetupInv(t)' /\ ArmedInv(t)'
  <2>1. SetupInv(t) /\ ArmedInv(t) OBVIOUS
  <2> QED BY <1>1, <1>2, <1>4, <2>1
          DEF SetupInv, ArmedInv, Elapsed, Left, Served, Asked, BootEnable, timerVars, First, SetUp
<1> QED BY <1>4, <1>5, <1>6, <1>7
\* setup() keeps the invariant: its store comes before the counter meets the
\* compare register.
LEMMA TimerBootSetup == TimerInv /\ BootSetup => TimerInv'
<1> SUFFICES ASSUME TimerInv, BootSetup PROVE TimerInv'  OBVIOUS
<1> USE TimersAssumption DEF TimerInv
<1>1. /\ boot # <<>> /\ pc = "thread" /\ Step \in 1 .. 11
      /\ boot' = Tail(boot) /\ BootInv' /\ Step' = Step + 1
      /\ UNCHANGED <<pc, enabled, source>>
  BY BootHead, BootTail DEF BootSetup, Boot
<1>2. Head(boot) = BootSteps[Step]
  BY <1>1, BootHead
<1>3. PICK t \in SetUp : Step \in First(t) .. First(t) + 3
  <2>1. Step \notin {1, 2, 7}
    BY <1>1, <1>2, BootPlaces DEF BootSetup, Boot
  <2> QED BY <1>1, <2>1, BootPlaces
<1>4. t \in Timer /\ Head(boot).arg = t /\ First(t) \in {3, 8}
  BY <1>2, <1>3, BootPlaces DEF Do, SetUp, Timer, First
<1>5. \/ Step = First(t)     /\ Configure(t)
      \/ Step = First(t) + 1 /\ LoadClock("setup", t)
      \/ Step = First(t) + 2 /\ StoreCompare("setup", t)
      \/ Step = First(t) + 3 /\ ClearMatch("setup", t)
  <2>1. \/ Step = First(t)     /\ Head(boot) = Do("configure", t)
        \/ Step = First(t) + 1 /\ Head(boot) = Do("load", t)
        \/ Step = First(t) + 2 /\ Head(boot) = Do("store", t)
        \/ Step = First(t) + 3 /\ Head(boot) = Do("clear", t)
    BY <1>1, <1>2, <1>3, <1>4, BootPlaces
  <2> QED BY <1>4, <2>1 DEF BootSetup, Boot, Do
<1>6. ResetInv'
  BY <1>1 DEF ResetInv
<1>7. SetupInv(t) /\ ArmedInv(t)
  BY <1>3
<1>8. "setup" \in Caller /\ t \in Timer
  BY <1>4 DEF Caller
<1>9. TimerTypes' /\ SetupInv(t)' /\ ArmedInv(t)'
  <2>1. CASE Step = First(t) /\ Configure(t)
    <3>1. TimerTypes'
      BY <1>1, <2>1 DEF TimerTypes, Configure
    <3> QED BY <1>1, <1>4, <1>7, <2>1, <3>1 DEF Configure, SetupInv, ArmedInv
  <2>2. CASE Step = First(t) + 1 /\ LoadClock("setup", t)
    <3>1. /\ TimerTypes' /\ UNCHANGED <<cc, cs, timer_configs>>
          /\ Elapsed("setup")' = 0 /\ since'[t] = 0
      BY <1>1, <1>8, <2>2, LoadEffect
    <3> QED BY <1>1, <1>4, <1>7, <2>2, <3>1 DEF SetupInv, ArmedInv
  <2>3. CASE Step = First(t) + 2 /\ StoreCompare("setup", t)
    <3>1. /\ TimerTypes' /\ UNCHANGED <<clo, cs, current, timer_configs, since>>
          /\ cc'[t] = (current["setup"] + Interval) % WORD
      BY <1>1, <1>8, <2>3, StoreEffect
    <3>2. Elapsed("setup")' = Elapsed("setup")
      BY <3>1 DEF Elapsed
    <3> QED BY <1>1, <1>4, <1>7, <2>3, <3>1, <3>2 DEF SetupInv, ArmedInv
  <2>4. CASE Step = First(t) + 3 /\ ClearMatch("setup", t)
    <3>1. Elapsed("setup") \in 0 .. Latency /\ cc[t] = (current["setup"] + Interval) % WORD
          /\ since[t] = Elapsed("setup")
      BY <1>4, <1>7, <2>4 DEF SetupInv
    <3>2. /\ TimerTypes' /\ UNCHANGED <<clo, cc, timer_configs, since>> /\ t \notin cs'
          /\ Left(t) = Interval - Elapsed("setup") /\ Left(t) \in 1 .. Interval
      BY <1>1, <1>8, <2>4, <3>1, ClearEffect
    <3>3. Left(t)' = Left(t) /\ Elapsed("setup") \in Int
      BY <3>1, <3>2, TimersAssumption DEF Left
    <3> QED BY <1>1, <1>4, <1>7, <2>4, <3>1, <3>2, <3>3 DEF SetupInv, ArmedInv
  <2> QED BY <1>5, <2>1, <2>2, <2>3, <2>4
<1>10. ASSUME NEW o \in SetUp, o # t PROVE SetupInv(o)' /\ ArmedInv(o)'
  <2>1. SetupInv(o) /\ ArmedInv(o)
    OBVIOUS
  <2>2. \/ Step < First(o) - 1 \/ Step >= First(o) + 4
    BY <1>1, <1>3, <1>10 DEF SetUp, First
  <2>3. /\ cc'[o] = cc[o] /\ since'[o] = since[o] /\ clo' = clo
        /\ (o \in cs' <=> o \in cs)
        /\ (o \in timer_configs => o \in timer_configs')
    BY <1>5, <1>10 DEF TimerTypes, Configure, LoadClock, StoreCompare, ClearMatch, SetUp, Timer
  <2> QED BY <1>1, <2>1, <2>2, <2>3 DEF SetupInv, ArmedInv, Left, Served, Asked, First
<1> QED BY <1>1, <1>6, <1>9, <1>10

\* reset() keeps the invariant, whatever timer it serves.
LEMMA TimerReset == TimerInv /\ Reset => TimerInv'
<1> SUFFICES ASSUME TimerInv, Reset PROVE TimerInv'  OBVIOUS
<1> USE TimersAssumption DEF TimerInv
<1>1. /\ pc \in {"load", "store", "clear_match"}
      /\ UNCHANGED <<boot, enabled, source>> /\ Asked' = Asked
  BY DEF Reset, Asked
<1>2. PICK t \in SetUp : t = Asked
  BY <1>1 DEF ResetInv
<1>3. /\ t \in Timer /\ t \in cs /\ Step >= First(t) + 4
      /\ "reset" \in Caller /\ "setup" \in Caller \ {"reset"}
  BY <1>1, <1>2 DEF ResetInv, SetUp, Timer, Caller
<1>4. BootInv' /\ Step' = Step /\ Step \in Int /\ First(t) \in Int
  BY <1>1, BootHead DEF BootInv, Step, First
<1>5. SetupInv(t) /\ ArmedInv(t)
  OBVIOUS
<1>6. CASE pc = "load" /\ LoadClock("reset", t) /\ pc' = "store"
  <2>1. /\ TimerTypes' /\ UNCHANGED <<clo, cc, cs, timer_configs>>
        /\ Elapsed("reset")' = 0 /\ since'[t] = 0
        /\ Elapsed("setup")' = Elapsed("setup") /\ current'["setup"] = current["setup"]
        /\ \A o \in Timer \ {t} : since'[o] = since[o]
    BY <1>1, <1>3, <1>6, LoadEffect
  <2>2. ResetInv'
    BY <1>1, <1>2, <1>3, <1>4, <1>6, <2>1 DEF ResetInv
  <2>3. SetupInv(t)' /\ ArmedInv(t)'
    BY <1>1, <1>2, <1>3, <1>4, <1>5, <1>6, <2>1 DEF SetupInv, ArmedInv, Served
  <2>4. ASSUME NEW o \in SetUp, o # t PROVE SetupInv(o)' /\ ArmedInv(o)'
    <3>1. since'[o] = since[o] /\ SetupInv(o) /\ ArmedInv(o) /\ ~Served(o)
      BY <1>2, <2>1, <2>4 DEF SetUp, Timer, Served
    <3> QED BY <1>4, <2>1, <3>1 DEF SetupInv, ArmedInv, Left
  <2> QED BY <1>4, <2>1, <2>2, <2>3, <2>4
<1>7. CASE pc = "store" /\ StoreCompare("reset", t) /\ pc' = "clear_match"
  <2>1. /\ TimerTypes' /\ UNCHANGED <<clo, cs, current, timer_configs, since>>
        /\ cc'[t] = (current["reset"] + Interval) % WORD
        /\ \A o \in Timer \ {t} : cc'[o] = cc[o]
    BY <1>1, <1>3, <1>7, StoreEffect
  <2>2. \A c \in Caller : Elapsed(c)' = Elapsed(c)
    BY <2>1 DEF Elapsed
  <2>3. ResetInv'
    BY <1>1, <1>2, <1>3, <1>4, <1>7, <2>1, <2>2 DEF ResetInv
  <2>4. SetupInv(t)' /\ ArmedInv(t)'
    BY <1>1, <1>2, <1>3, <1>4, <1>5, <1>7, <2>1, <2>2 DEF SetupInv, ArmedInv, Served
  <2>5. ASSUME NEW o \in SetUp, o # t PROVE SetupInv(o)' /\ ArmedInv(o)'
    <3>1. cc'[o] = cc[o] /\ SetupInv(o) /\ ArmedInv(o) /\ ~Served(o)
      BY <1>2, <2>1, <2>5 DEF SetUp, Timer, Served
    <3> QED BY <1>3, <1>4, <2>1, <2>2, <3>1 DEF SetupInv, ArmedInv, Left
  <2> QED BY <1>4, <2>1, <2>3, <2>4, <2>5
<1>8. CASE pc = "clear_match" /\ ClearMatch("reset", t) /\ pc' = "call"
  <2>1. Elapsed("reset") \in 0 .. Latency /\ since[t] = Elapsed("reset")
        /\ cc[t] = (current["reset"] + Interval) % WORD
    BY <1>2, <1>8 DEF ResetInv
  <2>2. /\ TimerTypes' /\ UNCHANGED <<clo, cc, timer_configs, since>> /\ cs' = cs \ {t}
        /\ Left(t) = Interval - Elapsed("reset") /\ Left(t) \in 1 .. Interval
        /\ Elapsed("setup")' = Elapsed("setup") /\ current'["setup"] = current["setup"]
    BY <1>1, <1>3, <1>8, <2>1, ClearEffect
  <2>3. ResetInv'
    BY <1>8 DEF ResetInv
  <2>4. SetupInv(t)' /\ ArmedInv(t)'
    <3>1. Left(t)' = Left(t) /\ since[t] = Interval - Left(t)
      BY <2>1, <2>2 DEF Left
    <3> QED BY <1>3, <1>4, <1>5, <2>2, <3>1 DEF SetupInv, ArmedInv
  <2>5. ASSUME NEW o \in SetUp, o # t PROVE SetupInv(o)' /\ ArmedInv(o)'
    <3>1. (o \in cs' <=> o \in cs) /\ SetupInv(o) /\ ArmedInv(o) /\ ~Served(o)
      BY <1>2, <2>2, <2>5 DEF Served
    <3> QED BY <1>3, <1>4, <1>8, <2>2, <3>1 DEF SetupInv, ArmedInv, Left
  <2> QED BY <1>4, <2>2, <2>3, <2>4, <2>5
<1> QED BY <1>2, <1>6, <1>7, <1>8 DEF Reset, Asked
\* The clock keeps the invariant: no compare register is met between the load
\* of the counter and the end of setup() or reset(), or before it is set up.
LEMMA TimerClock == TimerInv /\ Clock => TimerInv'
<1> SUFFICES ASSUME TimerInv, Clock PROVE TimerInv'  OBVIOUS
<1> USE TimersAssumption DEF TimerInv
<1>1. /\ 1 < WORD /\ clo \in 0 .. WORD - 1 /\ clo' = (clo + 1) % WORD
      /\ cs' = cs \cup {t \in Timer : cc[t] = clo'}
      /\ since' = [t \in Timer |-> IF since[t] = Interval THEN Interval ELSE since[t] + 1]
      /\ UNCHANGED <<cc, current, timer_configs, pc, boot, enabled, source>>
      /\ Asked' = Asked
  BY DEF Clock, ClockTick, TimerTypes, Asked
<1>2. clo' \in 0 .. WORD - 1 /\ (clo < WORD - 1 => clo' = clo + 1)
  BY <1>1, WrapSum
<1>3. TimerTypes'
  BY <1>1, <1>2 DEF TimerTypes
<1>4. BootInv' /\ Step' = Step /\ Step \in 1 .. 12 /\ (boot = <<>> <=> Step = 12)
      /\ \A t \in SetUp : First(t) \in {3, 8}
  BY <1>1, BootHead DEF BootInv, Step, First
<1>5. ASSUME NEW c \in Caller, Elapsed(c) \in 0 .. Latency, Elapsed(c) < Latency
      PROVE  /\ Elapsed(c)' = Elapsed(c) + 1 /\ Elapsed(c)' \in 1 .. Latency
             /\ (((current[c] + Interval) % WORD) - clo') % WORD # 0
  <2> DEFINE u == current[c]
  <2>1. u \in 0 .. WORD - 1 /\ Interval \in 0 .. WORD - 1 /\ (clo - u) % WORD < WORD - 1
    BY <1>5 DEF Elapsed, TimerTypes
  <2>2. (clo' - u) % WORD = ((clo - u) % WORD) + 1
    <3> HIDE DEF u
    <3> QED BY <1>1, <2>1, TickOlder
  <2>3. (clo' - u) % WORD < Interval
    BY <1>5, <2>2 DEF Elapsed
  <2>4. (((u + Interval) % WORD) - clo') % WORD = Interval - ((clo' - u) % WORD)
    <3> HIDE DEF u
    <3> QED BY <1>2, <2>1, <2>3, StoreAhead
  <2>5. Elapsed(c)' = Elapsed(c) + 1 /\ Elapsed(c)' = (clo' - u) % WORD
    BY <1>1, <2>2 DEF Elapsed
  <2>6. Elapsed(c)' \in 1 .. Latency
    BY <1>5, <2>5
  <2>7. Interval - Elapsed(c)' # 0
    BY <2>6
  <2> QED BY <2>4, <2>5, <2>6, <2>7
<1>6. ResetInv'
  <2>1. CASE pc \in {"store", "clear_match"}
    <3>1. Elapsed("reset") \in 0 .. Latency /\ Elapsed("reset") < Latency /\ "reset" \in Caller
          /\ since[Asked] = Elapsed("reset") /\ Asked \in Timer
      BY <2>1 DEF Clock, ClockMayTick, ResetInv, Caller, SetUp, Timer
    <3>2. since'[Asked] = since[Asked] + 1
      BY <1>1, <3>1
    <3>3. Elapsed("reset")' = Elapsed("reset") + 1 /\ Elapsed("reset")' \in 0 .. Latency
      BY <1>5, <3>1
    <3> QED BY <1>1, <1>4, <3>1, <3>2, <3>3 DEF ResetInv
  <2>2. CASE pc \notin {"store", "clear_match"}
    BY <1>1, <1>4, <2>2 DEF ResetInv
  <2> QED BY <2>1, <2>2
<1>7. ASSUME NEW t \in SetUp PROVE SetupInv(t)' /\ ArmedInv(t)'
  <2>1. SetupInv(t) /\ ArmedInv(t) /\ t \in Timer /\ First(t) \in {3, 8}
        /\ cc[t] \in 0 .. WORD - 1 /\ since[t] \in 0 .. Interval
    BY <1>4 DEF SetUp, Timer, TimerTypes
  <2>2. CASE Step < First(t) + 2
    <3>1. boot # <<>> /\ clo' # 0
      BY <1>1, <1>2, <1>4, <2>1, <2>2 DEF Clock, ClockMayTick
    <3> QED BY <1>1, <1>4, <2>1, <2>2, <3>1 DEF SetupInv, ArmedInv
  <2>3. CASE Step \in {First(t) + 2, First(t) + 3}
    <3>1. boot # <<>> /\ clo' # 0 /\ Head(boot).op \in {"store", "clear"}
      <4>1. boot # <<>>
        BY <1>4, <2>1, <2>3
      <4>2. clo' # 0
        BY <1>1, <1>2, <4>1 DEF Clock, ClockMayTick
      <4>3. Head(boot) = Do("store", t) \/ Head(boot) = Do("clear", t)
        BY <2>3, <4>1, BootHead, BootPlaces
      <4> QED BY <4>1, <4>2, <4>3 DEF Do
    <3>2. Elapsed("setup") \in 0 .. Latency /\ Elapsed("setup") < Latency /\ "setup" \in Caller
          /\ since[t] = Elapsed("setup")
      BY <2>1, <2>3, <3>1 DEF Clock, ClockMayTick, SetupInv, Caller
    <3>3. /\ Elapsed("setup")' = Elapsed("setup") + 1 /\ Elapsed("setup")' \in 0 .. Latency
          /\ (((current["setup"] + Interval) % WORD) - clo') % WORD # 0
      BY <1>5, <3>2
    <3>4. since'[t] = since[t] + 1
      BY <1>1, <2>1, <3>2
    <3>5. t \notin cs'
      <4>1. CASE Step = First(t) + 2
        BY <1>1, <2>1, <3>1, <4>1 DEF SetupInv
      <4>2. CASE Step = First(t) + 3
        <5>1. (cc[t] - clo') % WORD # 0
          BY <2>1, <3>3, <4>2 DEF SetupInv
        <5>2. cc[t] # clo'
          BY <1>2, <5>1, WrapDifference
        <5> QED BY <1>1, <2>1, <4>2, <5>2 DEF SetupInv
      <4> QED BY <2>3, <4>1, <4>2
    <3>6. ArmedInv(t)'
      BY <1>4, <2>1, <2>3 DEF ArmedInv
    <3>7. since'[t] = Elapsed("setup")' /\ Elapsed("setup")' \in 0 .. Latency
      BY <3>2, <3>3, <3>4
    <3>8. (Step = First(t) + 3 => cc[t] = (current["setup"] + Interval) % WORD)
          /\ (Step < First(t) + 3 => cc[t] = 0) /\ (Step > First(t) => t \in timer_configs)
      BY <2>1 DEF SetupInv
    <3>9. UNCHANGED <<cc, current, timer_configs>> /\ Step' = Step
      BY <1>1, <1>4
    <3> QED BY <3>5, <3>6, <3>7, <3>8, <3>9 DEF SetupInv
  <2>4. CASE Step >= First(t) + 4
    <3>1. SetupInv(t)'
      BY <1>1, <1>4, <2>1, <2>4 DEF SetupInv
    <3>2. CASE t \in cs
      <4>1. Served(t) \/ since[t] = Interval
        BY <2>1, <2>4, <3>2 DEF ArmedInv
      <4>2. t \in cs' /\ (since[t] = Interval => since'[t] = Interval) /\ (Served(t) => Served(t)')
        BY <1>1, <2>1, <3>2 DEF Served
      <4> QED BY <1>4, <3>1, <4>1, <4>2 DEF ArmedInv
    <3>3. CASE t \notin cs
      <4>1. Left(t) \in 1 .. Interval /\ since[t] = Interval - Left(t)
        BY <2>1, <2>4, <3>3 DEF ArmedInv
      <4>2. /\ (cc[t] - clo') % WORD = Left(t) - 1
            /\ cc[t] = clo' <=> Left(t) = 1
        BY <1>1, <2>1, <4>1, TickNearer DEF Left
      <4>3. Left(t)' = Left(t) - 1 /\ since'[t] = since[t] + 1
        BY <1>1, <2>1, <4>1, <4>2 DEF Left
      <4>4. t \in cs' <=> Left(t) = 1
        BY <1>1, <2>1, <3>3, <4>2
      <4> QED BY <1>4, <3>1, <4>1, <4>3, <4>4 DEF ArmedInv
    <3> QED BY <3>2, <3>3
  <2> QED BY <1>4, <2>1, <2>2, <2>3, <2>4
<1> QED BY <1>3, <1>4, <1>6, <1>7

\* Every step keeps the invariant.
LEMMA TimerNext == TimerInv /\ [Next]_vars => TimerInv'
<1> SUFFICES ASSUME TimerInv, [Next]_vars PROVE TimerInv'  OBVIOUS
<1>1. CASE BootEnable
  BY <1>1, TimerBootEnable
<1>2. CASE BootSetup
  BY <1>2, TimerBootSetup
<1>3. CASE Handler
  <2>1. CASE Interrupt
    BY <2>1, TimersElsewhere DEF Interrupt
  <2>2. CASE CheckTimer
    <3> DEFINE t == Asked
    <3>1. t \in Timer /\ pc = "check" /\ UNCHANGED <<timerVars, boot, enabled>>
      BY <2>2 DEF CheckTimer, Asked
    <3>2. CASE check_interrupt(t)
      <4>1. pc' = "load" /\ Asked' = Asked
        BY <2>2, <3>2 DEF CheckTimer, Asked
      <4>2. Asked \in SetUp /\ Asked \in cs /\ Step >= First(Asked) + 4
        BY <3>1, <3>2, PendingMatched
      <4>3. TimerTypes' /\ BootInv' /\ Step' = Step
        BY <3>1 DEF TimerInv, TimerTypes, BootInv, Step, timerVars
      <4>4. ResetInv'
        BY <3>1, <4>1, <4>2, <4>3 DEF ResetInv, timerVars
      <4>5. ASSUME NEW o \in SetUp PROVE SetupInv(o)' /\ ArmedInv(o)'
        <5>1. SetupInv(o) /\ ArmedInv(o) /\ ~Served(o)
          BY <3>1 DEF TimerInv, Served
        <5> QED BY <3>1, <4>3, <5>1 DEF SetupInv, ArmedInv, Elapsed, Left, timerVars
      <4> QED BY <4>3, <4>4, <4>5 DEF TimerInv
    <3>3. CASE ~check_interrupt(t)
      BY <2>2, <3>1, <3>3, TimersElsewhere DEF CheckTimer, NextSource, Asked
    <3> QED BY <3>2, <3>3
  <2>3. CASE CheckUart
    BY <2>3, TimersElsewhere DEF CheckUart
  <2>4. CASE Reset
    BY <2>4, TimerReset
  <2>5. CASE CallFunction
    BY <2>5, TimersElsewhere DEF CallFunction, NextSource
  <2> QED BY <1>3, <2>1, <2>2, <2>3, <2>4, <2>5 DEF Handler
<1>4. CASE HandleInterrupt /\ SerialOnly
  BY <1>4, TimersElsewhere
  DEF HandleInterrupt, ReadStatus, ClearStatus, Drain, Get, SerialOnly
<1>5. CASE TakeException
  BY <1>5, TimersElsewhere DEF TakeException, Exception, SerialOnly
<1>6. CASE PromptGet /\ SerialOnly
  BY <1>6, TimersElsewhere DEF PromptGet, SerialOnly
<1>7. CASE \E ch \in Char : Arrive(ch) /\ SerialOnly
  BY <1>7, TimersElsewhere DEF Arrive, SerialOnly
<1>8. CASE Clock
  BY <1>8, TimerClock
<1>9. CASE UNCHANGED vars
  BY <1>9, TimersElsewhere DEF vars
<1> QED BY <1>1, <1>2, <1>3, <1>4, <1>5, <1>6, <1>7, <1>8, <1>9 DEF Next

-----------------------------------------------------------------------------
(* The results.                                                            *)

\* The inductive invariant of the timers.
THEOREM TimerInvariant == Spec => []TimerInv
BY TimerInit, TimerNext, PTL DEF Spec

\* A timer that is set up has matched or will within an interval: its compare
\* value is never one that the counter has left behind, for a counter of any
\* width, whatever reset() had to wait for.
THEOREM NeverLeftBehind == Spec => []CompareIsAhead
<1>1. TimerInv => CompareIsAhead
  <2> SUFFICES ASSUME TimerInv, NEW t \in Timer, Armed(t), t \notin cs
               PROVE  (cc[t] - clo) % WORD \in 1 .. Interval
    BY DEF CompareIsAhead
  <2>1. t \in SetUp /\ Step >= First(t) + 4
    BY ArmedIsSetUp DEF TimerInv
  <2> QED BY <2>1 DEF TimerInv, ArmedInv, Left
<1> QED BY <1>1, TimerInvariant, PTL

\* reset() serves a timer that was set up, an interval after it was armed and
\* not sooner.
THEOREM OneTickAnInterval == Spec => []TicksAreApart
<1>1. TimerInv => TicksAreApart
  <2> SUFFICES ASSUME TimerInv, pc = "load"
               PROVE  Asked \in timer_configs /\ since[Asked] = Interval
    BY DEF TicksAreApart, Asked
  <2>1. PICK t \in SetUp : t = Asked /\ t \in cs /\ Step >= First(t) + 4
    BY DEF TimerInv, ResetInv
  <2>2. Step > First(t)
    BY <2>1, BootHead DEF TimerInv, First
  <2> QED BY <2>1, <2>2 DEF TimerInv, SetupInv, ArmedInv, Served
<1> QED BY <1>1, TimerInvariant, PTL
=============================================================================
