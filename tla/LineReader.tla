----------------------------- MODULE LineReader -----------------------------
(***************************************************************************)
(* The two coroutines that read a line, one character per resumption:      *)
(* terminal() of kernel/start.cpp, which echoes and lets the user erase,   *)
(* and async_istream::co_getline() of include/kernel/async.hpp.            *)
(*                                                                         *)
(* screen is what the terminal shows behind the prompt.  The buffer is     *)
(* uninitialized when a line begins.                                       *)
(***************************************************************************)
EXTENDS Integers, Sequences, SequencesExt

CONSTANTS Size,             \* buffer.size()
          Printable,        \* characters for which isprint() holds
          Enter,            \* '\r' and '\n'; co_getline() takes CR only
          CR,
          Erase,            \* 0x7f and 0x08
          Control,          \* other characters
          NUL,
          MaxTyped          \* bound on the characters typed for one line

Char == Printable \cup Enter \cup Erase \cup Control

ASSUME LineAssumption ==
  /\ Size \in Nat \ {0} /\ MaxTyped \in Nat
  /\ CR \in Enter /\ NUL \notin Char
  /\ Printable \cap (Enter \cup Erase \cup Control) = {}
  /\ Erase \cap (Enter \cup Control) = {}

VARIABLES reader, buffer, i,
          result,           \* "okay" for true, "full" for false
          screen,
          typed             \* history: the characters of this line

vars == <<reader, buffer, i, result, screen, typed>>

Reading == result = "reading"

Begin == /\ i = 0 /\ screen = <<>> /\ typed = <<>>
         /\ result = IF Size > 1 THEN "reading" ELSE "full"

Init == /\ reader \in {"terminal", "co_getline"}
        /\ \E c \in Printable \cup {NUL} :
             buffer = [n \in 0 .. Size - 1 |-> IF Size > 1 THEN c ELSE NUL]
        /\ Begin

-----------------------------------------------------------------------------
Type(c) == /\ Reading /\ Len(typed) < MaxTyped
           /\ typed' = Append(typed, c)
           /\ UNCHANGED reader

\* A plausible slip: the buffer that is full gets no '\0'.
ContinueUnterminated(n, b) ==
  /\ i' = n
  /\ buffer' = b
  /\ result' = IF n < Size - 1 THEN "reading" ELSE "full"

(* The end of an iteration: the loop goes on while i is below Size - 1.    *)
Continue(n, b) ==
  /\ i' = n
  /\ buffer' = IF n < Size - 1 THEN b ELSE [b EXCEPT ![n] = NUL]
  /\ result' = IF n < Size - 1 THEN "reading" ELSE "full"

(* okay = true, and the '\0' behind the loop.                              *)
LineComplete ==
  /\ buffer' = [buffer EXCEPT ![i] = NUL]
  /\ result' = "okay"
  /\ UNCHANGED <<i, screen>>

TerminalEnter(c) ==
  /\ reader = "terminal" /\ c \in Enter
  /\ Type(c)
  /\ LineComplete

\* A plausible slip: the character is erased in the buffer only.
EraseUnseen(c) ==
  /\ reader = "terminal" /\ c \in Erase
  /\ Type(c)
  /\ Continue(IF i > 0 THEN i - 1 ELSE i, [buffer EXCEPT ![i] = NUL])
  /\ UNCHANGED screen

TerminalErase(c) ==
  /\ reader = "terminal" /\ c \in Erase
  /\ Type(c)
  /\ Continue(IF i > 0 THEN i - 1 ELSE i, [buffer EXCEPT ![i] = NUL])
  /\ screen' = IF i > 0 THEN Front(screen) ELSE screen

TerminalPrintable(c) ==
  /\ reader = "terminal" /\ c \in Printable
  /\ Type(c)
  /\ Continue(i + 1, [buffer EXCEPT ![i] = c])
  /\ screen' = Append(screen, c)

TerminalIgnore(c) ==
  /\ reader = "terminal" /\ c \in Control
  /\ Type(c)
  /\ Continue(i, [buffer EXCEPT ![i] = NUL])
  /\ UNCHANGED screen

\* A plausible slip: the delimiter stays in the buffer.
DelimiterIncluded(c) ==
  /\ reader = "co_getline" /\ c = CR
  /\ Type(c)
  /\ i' = i + 1
  /\ buffer' = [buffer EXCEPT ![i] = c, ![i + 1] = NUL]
  /\ result' = "okay"
  /\ UNCHANGED screen

GetlineDelimiter(c) ==
  /\ reader = "co_getline" /\ c = CR
  /\ Type(c)
  /\ LineComplete

GetlineCharacter(c) ==
  /\ reader = "co_getline" /\ c # CR
  /\ Type(c)
  /\ Continue(i + 1, [buffer EXCEPT ![i] = c])
  /\ UNCHANGED screen

(* The caller is done with the line and reads another one into the memory  *)
(* where this one was.                                                     *)
NextLine ==
  /\ ~Reading
  /\ i' = 0 /\ screen' = <<>> /\ typed' = <<>>
  /\ result' = IF Size > 1 THEN "reading" ELSE "full"
  /\ UNCHANGED <<reader, buffer>>

Receive(c) == \/ TerminalEnter(c) \/ TerminalErase(c) \/ TerminalPrintable(c)
              \/ TerminalIgnore(c) \/ GetlineDelimiter(c) \/ GetlineCharacter(c)

Next == NextLine \/ \E c \in Char : Receive(c)

Spec == Init /\ [][Next]_vars

-----------------------------------------------------------------------------
(* Properties.                                                             *)

(* The string that a char* to the buffer stands for.                       *)
CString == [n \in 1 .. (CHOOSE z \in 0 .. Size - 1 :
                          /\ buffer[z] = NUL
                          /\ \A m \in 0 .. z - 1 : buffer[m] # NUL) |-> buffer[n - 1]]
Terminated == \E z \in 0 .. Size - 1 : buffer[z] = NUL

(* A line as its user sees it: what was typed, less what was erased.       *)
Edited(keys) ==
  FoldLeft(LAMBDA line, c : CASE c \in Printable -> Append(line, c)
                              [] c \in Erase /\ line # <<>> -> Front(line)
                              [] OTHER -> line, <<>>, keys)

\* The command that is executed, std::string_view(line.data()), is what the
\* terminal shows when the line ends, whatever was typed and erased and
\* whatever the buffer held before.
CommandIsOnScreen ==
  reader = "terminal" /\ ~Reading => Terminated /\ CString = screen

\* What the terminal shows is what was typed, less what was erased.
ScreenIsWhatWasTyped == reader = "terminal" => screen = Edited(typed)

\* "The delimeter will NOT be included in the buffer. After reading a \0 will
\* ALWAYS be placed in the buffer.": the buffer of co_getline() has all that
\* was read before the delimiter, and the '\0'.
LineOfGetline ==
  reader = "co_getline" /\ ~Reading /\ Size > 1 =>
    /\ Terminated
    /\ CString = IF result = "okay" THEN Front(typed) ELSE typed
=============================================================================
