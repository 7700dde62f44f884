------------------------------ MODULE Devices -------------------------------
(***************************************************************************)
(* The interrupt sources together: process_interrupt() of kernel/          *)
(* events.cpp, which asks the interrupt controller for one source after    *)
(* the other, with the timers (Timers) and the serial port (Serial) that   *)
(* it serves, from the moment that start_kernel() sets them up.            *)
(***************************************************************************)
EXTENDS Timers, Serial

VARIABLES boot,             \* what start_kernel() has still to do
          enabled,          \* the bits set in enable_irqs
          source            \* how far process_interrupt() is

vars == <<timerVars, serialVars, pc, boot, enabled, source>>

-----------------------------------------------------------------------------
(* drivers/interrupt_controller.cpp.                                       *)

Uart == 57

(* The register and the bit in it of interrupt source s.                   *)
Bit(s) == IF s >= 32 THEN <<1, s - 32>> ELSE <<0, s>>

EnableSource(s) == enabled' = enabled \cup {Bit(s)}

(* The controller shows the sources that ask and are enabled.              *)
irq_pending == enabled \cap ({Bit(t) : t \in cs} \cup IF rx THEN {Bit(Uart)} ELSE {})

check_interrupt(s) == Bit(s) \in irq_pending

-----------------------------------------------------------------------------
(* start_kernel(), events::configure() and threads::init().                *)

Do(op, arg) == [op |-> op, arg |-> arg]
BootSteps ==
  <<Do("enable", 1), Do("enable", Uart),
    Do("configure", 1), Do("load", 1), Do("store", 1), Do("clear", 1),
    Do("enable", 3),
    Do("configure", 3), Do("load", 3), Do("store", 3), Do("clear", 3)>>

Init == /\ TimersInit /\ SerialInit
        /\ boot = BootSteps
        /\ enabled = {} /\ source = 0

(* Interrupts are enabled: the boot code is executed between them.         *)
Boot(op) == pc = "thread" /\ boot # <<>> /\ Head(boot).op = op /\ boot' = Tail(boot)

BootEnable ==
  /\ Boot("enable")
  /\ EnableSource(Head(boot).arg)
  /\ UNCHANGED <<timerVars, serialVars, pc, source>>

BootSetup ==
  /\ LET t == Head(boot).arg IN
     \/ Boot("configure") /\ Configure(t)
     \/ Boot("load")      /\ LoadClock("setup", t)
     \/ Boot("store")     /\ StoreCompare("setup", t)
     \/ Boot("clear")     /\ ClearMatch("setup", t)
  /\ UNCHANGED <<serialVars, pc, enabled, source>>

-----------------------------------------------------------------------------
(* process_interrupt(): the handler of irqs.                               *)

Sources == <<0, 1, 2, 3, Uart>>

Interrupt ==
  /\ pc = "thread" /\ irq_pending # {}
  /\ pc' = "check" /\ source' = 1
  /\ UNCHANGED <<timerVars, serialVars, boot, enabled>>

NextSource(point) == pc' = point /\ source' = source + 1

CheckTimer ==
  /\ pc = "check" /\ Sources[source] \in Timer
  /\ IF check_interrupt(Sources[source]) THEN pc' = "load" /\ UNCHANGED source
                                         ELSE NextSource("check")
  /\ UNCHANGED <<timerVars, serialVars, boot, enabled>>

CheckUart ==
  /\ pc = "check" /\ Sources[source] = Uart
  /\ pc' = IF check_interrupt(Uart) THEN "uart" ELSE "thread"
  /\ source' = 0
  /\ UNCHANGED <<timerVars, serialVars, boot, enabled>>

(* timer::reset(), up to the call of the function.                         *)
Reset ==
  /\ LET t == Sources[source] IN
     \/ pc = "load"  /\ LoadClock("reset", t)    /\ pc' = "store"
     \/ pc = "store" /\ StoreCompare("reset", t) /\ pc' = "clear_match"
     \/ pc = "clear_match" /\ ClearMatch("reset", t) /\ pc' = "call"
  /\ UNCHANGED <<serialVars, boot, enabled, source>>

(* It fires system_timer, or it lets the scheduler tick.                   *)
CallFunction ==
  /\ pc = "call"
  /\ NextSource("check")
  /\ UNCHANGED <<timerVars, serialVars, boot, enabled>>

Handler == Interrupt \/ CheckTimer \/ CheckUart \/ Reset \/ CallFunction

-----------------------------------------------------------------------------
(* The serial port and the prompt, and time.                               *)

SerialOnly == UNCHANGED <<timerVars, boot, enabled, source>>

(* Exceptions are commands of the terminal, which comes after the boot.    *)
TakeException == boot = <<>> /\ Exception /\ SerialOnly

(* The processor stores a compare value before the counter meets it, and   *)
(* boots before the counter wraps.                                         *)
ClockMayTick ==
  /\ pc \in {"store", "clear_match"} => Elapsed("reset") < Latency
  /\ boot # <<>> => /\ clo < WORD - 1
                    /\ Head(boot).op \in {"store", "clear"} => Elapsed("setup") < Latency

Clock == ClockMayTick /\ ClockTick /\ UNCHANGED <<serialVars, pc, boot, enabled, source>>

Next == \/ BootEnable \/ BootSetup
        \/ Handler \/ (HandleInterrupt /\ SerialOnly)
        \/ TakeException \/ (PromptGet /\ SerialOnly)
        \/ \E ch \in Char : Arrive(ch) /\ SerialOnly
        \/ Clock

(* The processor boots, takes pending interrupts, executes handlers to the *)
(* end and polls at the prompt, and time goes on.                          *)
Spec ==
  /\ Init /\ [][Next]_vars
  /\ WF_vars(BootEnable \/ BootSetup)
  /\ WF_vars(Handler \/ (HandleInterrupt /\ SerialOnly) \/ (PromptGet /\ SerialOnly))
  /\ WF_vars(Clock)

-----------------------------------------------------------------------------
(* Properties.                                                             *)

Armed(t) == t \in timer_configs /\ \A i \in 1 .. Len(boot) : boot[i].arg # t

\* A timer that is set up has matched, or will within an interval: however
\* late it was served, and whichever other timer was served at the time, its
\* compare value is never one that the counter has already left behind.
CompareIsAhead ==
  \A t \in Timer : Armed(t) /\ t \notin cs => (cc[t] - clo) % WORD \in 1 .. Interval

\* reset() serves a timer that was set up, once for each match: never less
\* than an interval after it was armed.
TicksAreApart ==
  pc = "load" => /\ Sources[source] \in timer_configs
                 /\ since[Sources[source]] = Interval

\* The scheduler ticks and system_timer events do not cease, unless somebody
\* leaves the prompt of an exception without an answer.
TicksGoOn ==
  \A t \in {1, 3} : \/ []<>(pc = "call" /\ Sources[source] = t)
                    \/ <>[](pc = "prompt")
=============================================================================
