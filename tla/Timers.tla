------------------------------- MODULE Timers -------------------------------
(***************************************************************************)
(* drivers/timer.cpp: setup() and reset() against the system timer, a      *)
(* counter that wraps and goes on while the processor is at work, and four *)
(* compare registers that each match at one value of it.  Devices says     *)
(* when the processor executes these steps.                                *)
(***************************************************************************)
EXTENDS Integers

CONSTANTS WORD,             \* 2^32
          Interval,         \* config::system_timer_interval
          Latency           \* bound on the ticks from the load of clo to the
                            \* store to cs: the processor is that quick

Timer == 0 .. 3             \* system_timer; 0 and 2 are never set up

ASSUME TimersAssumption ==
  /\ WORD \in Nat /\ Interval \in Nat /\ Latency \in Nat
  /\ 0 < Latency /\ Latency < Interval /\ Interval < WORD

VARIABLES clo,              \* the counter
          cc,               \* the compare registers
          cs,               \* the timers that matched
          current,          \* the local variable of setup() and of reset()
          timer_configs,    \* the timers with a function to call
          since             \* history: ticks since a timer was armed, at
                            \* most Interval

timerVars == <<clo, cc, cs, current, timer_configs, since>>

Caller == {"setup", "reset"}

TimersInit ==
  /\ clo = 0 /\ cs = {}
  /\ cc = [t \in Timer |-> 0]
  /\ current = [c \in Caller |-> 0]
  /\ timer_configs = {}
  /\ since = [t \in Timer |-> 0]

Elapsed(c) == (clo - current[c]) % WORD

(* The counter goes on, and the compare registers it meets match.          *)
ClockTick ==
  /\ clo' = (clo + 1) % WORD
  /\ cs' = cs \cup {t \in Timer : cc[t] = clo'}
  /\ since' = [t \in Timer |-> IF since[t] = Interval THEN Interval ELSE since[t] + 1]
  /\ UNCHANGED <<cc, current, timer_configs>>

Configure(t) ==
  /\ timer_configs' = timer_configs \cup {t}
  /\ UNCHANGED <<clo, cc, cs, current, since>>

LoadClock(c, t) ==
  /\ current' = [current EXCEPT ![c] = clo]
  /\ since' = [since EXCEPT ![t] = 0]
  /\ UNCHANGED <<clo, cc, cs, timer_configs>>

\* A plausible slip: the period is kept exactly, from compare to compare.
StoreFromCompare(c, t) ==
  /\ cc' = [cc EXCEPT ![t] = ((IF c = "setup" THEN current[c] ELSE @) + Interval) % WORD]
  /\ UNCHANGED <<clo, cs, current, timer_configs, since>>

StoreCompare(c, t) ==
  /\ cc' = [cc EXCEPT ![t] = (current[c] + Interval) % WORD]
  /\ UNCHANGED <<clo, cs, current, timer_configs, since>>

\* A plausible slip: cs |= 1<<t, which writes back every match that is set.
ClearMatches(c, t) ==
  /\ cs' = {}
  /\ current' = [current EXCEPT ![c] = 0]
  /\ UNCHANGED <<clo, cc, timer_configs, since>>

\* A plausible slip: the bit of another timer is written.
ClearOther(c, t) ==
  /\ cs' = cs \ {t - 1}
  /\ current' = [current EXCEPT ![c] = 0]
  /\ UNCHANGED <<clo, cc, timer_configs, since>>

(* cs = 1<<t: writing one clears that match, zeros leave the others.  The  *)
(* local variable is not read again.                                       *)
ClearMatch(c, t) ==
  /\ cs' = cs \ {t}
  /\ current' = [current EXCEPT ![c] = 0]
  /\ UNCHANGED <<clo, cc, timer_configs, since>>
=============================================================================
