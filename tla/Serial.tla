------------------------------- MODULE Serial -------------------------------
(***************************************************************************)
(* The receiving half of drivers/serial.cpp, between the PL011 UART with   *)
(* its FIFO disabled and the event loop: handle_interrupt(), get(), and    *)
(* the prompt of handle_exception(), which polls get() with interrupts     *)
(* masked.  The UART itself is external: one holding register, and an      *)
(* interrupt line that a byte raises and that reading the byte, or a       *)
(* write to icr, lowers.  Devices composes it with the timers.             *)
(***************************************************************************)
EXTENDS Naturals, Sequences

CONSTANTS Char,             \* the bytes that arrive
          Keys,             \* those that leave the exception prompt: n, r, e
          Nothing,
          MaxBytes          \* bound on the bytes accepted by the UART

ASSUME SerialAssumption ==
  Keys \subseteq Char /\ Nothing \notin Char /\ MaxBytes \in Nat

VARIABLES dr,               \* the byte in the data register
          rx,               \* RX in ris (and mis: begin() unmasks it)
          pc,               \* where the processor is: in a thread, or in
                            \* the handler of an interrupt or an exception
          mis,              \* RX in the local copy of mis
          accepted,         \* history: the bytes the UART accepted
          taken             \* history: the bytes read from dr

serialVars == <<dr, rx, mis, accepted, taken>>

RXFE == dr = Nothing        \* in fr

(* After begin(), which disables the FIFO and unmasks RX.                  *)
SerialInit ==
  /\ dr = Nothing /\ rx = FALSE
  /\ pc = "thread" /\ mis = FALSE
  /\ accepted = <<>> /\ taken = <<>>

(* A byte is complete; one that finds the register full is lost.           *)
Arrive(ch) ==
  /\ RXFE /\ Len(accepted) < MaxBytes
  /\ dr' = ch /\ rx' = TRUE
  /\ accepted' = Append(accepted, ch)
  /\ UNCHANGED <<pc, mis, taken>>

(* A load from dr.                                                         *)
ReadData ==
  /\ taken' = Append(taken, dr)
  /\ dr' = Nothing /\ rx' = FALSE
  /\ UNCHANGED accepted

-----------------------------------------------------------------------------
(* PL011::handle_interrupt(), the last that process_interrupt() calls.     *)

ReadStatus ==
  /\ pc = "uart"
  /\ mis' = rx
  /\ pc' = "clear"
  /\ UNCHANGED <<dr, rx, accepted, taken>>

(* icr = mis, which is read again.                                         *)
ClearStatus ==
  /\ pc = "clear"
  /\ rx' = FALSE
  /\ pc' = IF mis THEN "drain" ELSE "thread"
  /\ UNCHANGED <<dr, mis, accepted, taken>>

\* A plausible slip: the interrupt is cleared once more after the loop.
DrainThenClear ==
  /\ pc = "drain"
  /\ pc' = IF RXFE THEN "clear" ELSE "get"
  /\ mis' = ~RXFE
  /\ UNCHANGED <<dr, rx, accepted, taken>>

(* The loop condition.                                                     *)
Drain ==
  /\ pc = "drain"
  /\ pc' = IF RXFE THEN "thread" ELSE "get"
  /\ UNCHANGED <<dr, rx, mis, accepted, taken>>

\* A plausible slip: the byte is read once to look at it, once to send it.
GetTwice ==
  /\ pc = "get" /\ ~RXFE
  /\ taken' = taken \o <<dr, dr>>
  /\ dr' = Nothing /\ rx' = FALSE
  /\ UNCHANGED <<accepted, mis>>
  /\ pc' = "drain"

(* get(), and fire_event() with what it returns.                           *)
Get ==
  /\ pc = "get" /\ ~RXFE
  /\ ReadData
  /\ pc' = "drain"
  /\ UNCHANGED mis

-----------------------------------------------------------------------------
(* handle_exception(): entered from a thread, it asks what to do.          *)

Exception ==
  /\ pc = "thread"
  /\ pc' = "prompt"
  /\ UNCHANGED <<dr, rx, mis, accepted, taken>>

PromptGet ==
  /\ pc = "prompt" /\ ~RXFE
  /\ ReadData
  /\ pc' = IF dr \in Keys THEN "thread" ELSE "prompt"
  /\ UNCHANGED mis

HandleInterrupt == ReadStatus \/ ClearStatus \/ Drain \/ Get

-----------------------------------------------------------------------------
(* Properties.                                                             *)

\* While handle_interrupt() is not running, a byte in the register has its
\* interrupt pending: clearing icr before the bytes are read loses none that
\* arrives in between.
NoByteIsStranded == pc \notin {"clear", "drain", "get"} /\ ~RXFE => rx

\* Each byte that the UART accepted is read once, by the handler or by the
\* prompt of an exception, in the order of arrival.
BytesInOrder == accepted = IF RXFE THEN taken ELSE Append(taken, dr)

\* A byte that arrived is read.
EveryByteIsRead == ~RXFE ~> RXFE
=============================================================================
