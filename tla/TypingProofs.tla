----------------------------- MODULE TypingProofs ---------------------------
(***************************************************************************)
(* Proofs about what users type: LineReader and Numbers.                   *)
(*                                                                         *)
(* For buffers of any size, any characters and lines of any length, what   *)
(* the caller of LineReader finds in the buffer is the line that the user  *)
(* sees or that was sent, and what the user sees is what was typed, less   *)
(* what was erased.  Edited is a fold, unfolded by induction.              *)
(*                                                                         *)
(* For words and texts of any size, a number that is printed is read back, *)
(* widths are kept, and what is typed is read as the number it spells.     *)
(* The variables of the two specifications have nothing in common.         *)
(***************************************************************************)
EXTENDS LineReader, Numbers, WellFoundedInduction, FiniteSetTheorems, SequenceTheorems, TLAPS

LineTypes ==
  /\ reader \in {"terminal", "co_getline"}
  /\ buffer \in [0 .. Size - 1 -> Char \cup {NUL}]
  /\ i \in 0 .. Size - 1
  /\ result \in {"reading", "okay", "full"}
  /\ screen \in Seq(Printable)
  /\ typed \in Seq(Char)

(* The buffer holds a line up to i, whatever is behind.                    *)
Holds(line) == Len(line) = i /\ \A n \in 0 .. i - 1 : buffer[n] = line[n + 1]

(* The line of co_getline(): the delimiter was typed, but is not in it.    *)
Sent == IF result = "okay" THEN Front(typed) ELSE typed

(* While a line is read there is room for one more character and the '\0'; *)
(* when it is complete, the '\0' is there.                                 *)
RoomInv ==
  /\ Reading => i < Size - 1
  /\ ~Reading => buffer[i] = NUL

(* The inductive invariant.                                                *)
LineInv ==
  /\ LineTypes /\ RoomInv
  /\ result = "okay" => typed # <<>>
  /\ reader = "terminal" => Holds(screen)
  /\ reader = "co_getline" => Holds(Sent)

-----------------------------------------------------------------------------
\* A char* to the buffer stands for the line that it holds up to a '\0': no
\* character of a line is one.
LEMMA CStringIs ==
  ASSUME LineTypes, NEW line \in Seq(Char), Holds(line), buffer[i] = NUL
  PROVE  Terminated /\ CString = line
<1> DEFINE First(z) == buffer[z] = NUL /\ \A m \in 0 .. z - 1 : buffer[m] # NUL
<1>1. i \in 0 .. Size - 1 /\ Len(line) = i /\ \A n \in 0 .. i - 1 : buffer[n] = line[n + 1]
  BY DEF LineTypes, Holds
<1>2. \A n \in 0 .. i - 1 : buffer[n] # NUL
  <2> SUFFICES ASSUME NEW n \in 0 .. i - 1 PROVE line[n + 1] # NUL
    BY <1>1
  <2>1. n + 1 \in 1 .. Len(line)
    BY <1>1, LineAssumption
  <2> QED BY <2>1, LineAssumption
<1>3. First(i)
  BY <1>2
<1>4. \A z \in 0 .. Size - 1 : First(z) => z = i
  <2> SUFFICES ASSUME NEW z \in 0 .. Size - 1, First(z), z # i PROVE FALSE
    OBVIOUS
  <2>1. CASE z < i
    <3>1. z \in 0 .. i - 1
      BY <1>1, <2>1, LineAssumption
    <3> QED BY <1>2, <3>1
  <2>2. CASE z > i
    <3>1. i \in 0 .. z - 1
      BY <1>1, <2>2, LineAssumption
    <3> QED BY <3>1
  <2> QED BY <1>1, <2>1, <2>2, LineAssumption
<1>5. (CHOOSE z \in 0 .. Size - 1 : First(z)) = i
  <2> HIDE DEF First
  <2> QED BY <1>1, <1>3, <1>4
<1>6. CString = [n \in 1 .. i |-> buffer[n - 1]]
  BY <1>5 DEF CString
<1>7. \A n \in 1 .. i : buffer[n - 1] = line[n]
  <2> SUFFICES ASSUME NEW n \in 1 .. i PROVE buffer[n - 1] = line[n]
    OBVIOUS
  <2>1. n - 1 \in 0 .. i - 1 /\ (n - 1) + 1 = n
    BY <1>1, LineAssumption
  <2> QED BY <1>1, <2>1
<1>8. line = [n \in 1 .. i |-> line[n]]
  BY <1>1
<1>9. CString = line
  BY <1>6, <1>7, <1>8
<1> QED BY <1>1, <1>9 DEF Terminated

\* The end of an iteration leaves room for another, or a '\0' behind the line.
LEMMA ContinueStep ==
  ASSUME NEW n \in 0 .. Size - 1, NEW b \in [0 .. Size - 1 -> Char \cup {NUL}],
         Continue(n, b),
         NEW line, Len(line) = n, \A m \in 0 .. n - 1 : b[m] = line[m + 1]
  PROVE  /\ i' \in 0 .. Size - 1 /\ buffer' \in [0 .. Size - 1 -> Char \cup {NUL}]
         /\ result' \in {"reading", "full"}
         /\ RoomInv' /\ Len(line) = i' /\ \A m \in 0 .. i' - 1 : buffer'[m] = line[m + 1]
<1>1. CASE n < Size - 1
  BY <1>1 DEF Continue, RoomInv, Reading
<1>2. CASE ~(n < Size - 1)
  <2>1. i' = n /\ buffer' = [b EXCEPT ![n] = NUL] /\ result' = "full"
    BY <1>2 DEF Continue
  <2>2. \A m \in 0 .. n - 1 : m \in 0 .. Size - 1 /\ m # n
    BY LineAssumption
  <2>3. buffer' \in [0 .. Size - 1 -> Char \cup {NUL}] /\ buffer'[i'] = NUL
    BY <2>1
  <2>4. \A m \in 0 .. i' - 1 : buffer'[m] = line[m + 1]
    BY <2>1, <2>2
  <2> QED BY <2>1, <2>3, <2>4 DEF RoomInv, Reading
<1> QED BY <1>1, <1>2

\* A character behind what the buffer holds.
LEMMA CharacterStep ==
  ASSUME LineInv, Reading, NEW c \in Char, NEW line \in Seq(Char), Holds(line),
         Continue(i + 1, [buffer EXCEPT ![i] = c])
  PROVE  /\ i' \in 0 .. Size - 1 /\ buffer' \in [0 .. Size - 1 -> Char \cup {NUL}]
         /\ result' \in {"reading", "full"}
         /\ RoomInv' /\ Len(Append(line, c)) = i'
         /\ \A m \in 0 .. i' - 1 : buffer'[m] = Append(line, c)[m + 1]
<1> DEFINE n == i + 1
           b == [buffer EXCEPT ![i] = c]
           l == Append(line, c)
<1>1. i \in 0 .. Size - 1 /\ i < Size - 1 /\ buffer \in [0 .. Size - 1 -> Char \cup {NUL}]
  BY DEF LineInv, LineTypes, RoomInv
<1>2. n \in 0 .. Size - 1 /\ b \in [0 .. Size - 1 -> Char \cup {NUL}]
  BY <1>1, LineAssumption
<1>3. Len(line) = i /\ \A m \in 0 .. i - 1 : buffer[m] = line[m + 1]
  BY DEF Holds
<1>4. Len(l) = n
  BY <1>3
<1>5. \A m \in 0 .. n - 1 : b[m] = l[m + 1]
  <2> SUFFICES ASSUME NEW m \in 0 .. n - 1 PROVE b[m] = l[m + 1]
    OBVIOUS
  <2>0. m \in 0 .. Size - 1 /\ (m = i \/ m \in 0 .. i - 1)
    BY <1>1, LineAssumption
  <2>1. CASE m = i
    <3>1. b[m] = c
      BY <1>1, <2>1
    <3>2. l[m + 1] = c
      BY <1>3, <2>1
    <3> QED BY <3>1, <3>2
  <2>2. CASE m \in 0 .. i - 1
    <3>1. m # i /\ m + 1 \in 1 .. Len(line)
      BY <1>1, <1>3, <2>2, LineAssumption
    <3>2. b[m] = buffer[m]
      BY <1>1, <2>0, <3>1
    <3>3. l[m + 1] = line[m + 1]
      BY <3>1
    <3> QED BY <1>3, <2>2, <3>2, <3>3
  <2> QED BY <2>0, <2>1, <2>2
<1>6. Continue(n, b)
  OBVIOUS
<1> HIDE DEF n, b, l
<1>7. /\ i' \in 0 .. Size - 1 /\ buffer' \in [0 .. Size - 1 -> Char \cup {NUL}]
      /\ result' \in {"reading", "full"}
      /\ RoomInv' /\ Len(l) = i' /\ \A m \in 0 .. i' - 1 : buffer'[m] = l[m + 1]
  BY <1>2, <1>4, <1>5, <1>6, ContinueStep
<1> QED BY <1>7 DEF l

\* A character is erased, or ignored, and a '\0' is stored at i.
LEMMA NoCharacterStep ==
  ASSUME LineInv, Reading, NEW n \in 0 .. Size - 1, n <= i,
         NEW line, Len(line) = n, \A m \in 0 .. n - 1 : buffer[m] = line[m + 1],
         Continue(n, [buffer EXCEPT ![i] = NUL])
  PROVE  /\ i' \in 0 .. Size - 1 /\ buffer' \in [0 .. Size - 1 -> Char \cup {NUL}]
         /\ result' \in {"reading", "full"}
         /\ RoomInv' /\ Len(line) = i' /\ \A m \in 0 .. i' - 1 : buffer'[m] = line[m + 1]
<1> DEFINE b == [buffer EXCEPT ![i] = NUL]
<1>1. i \in 0 .. Size - 1 /\ buffer \in [0 .. Size - 1 -> Char \cup {NUL}]
  BY DEF LineInv, LineTypes
<1>2. b \in [0 .. Size - 1 -> Char \cup {NUL}]
  BY <1>1
<1>3. \A m \in 0 .. n - 1 : m \in 0 .. Size - 1 /\ m # i
  BY <1>1, LineAssumption
<1>4. \A m \in 0 .. n - 1 : b[m] = line[m + 1]
  BY <1>1, <1>3
<1>5. Continue(n, b)
  OBVIOUS
<1> HIDE DEF b
<1>6. Len(line) = n /\ n \in 0 .. Size - 1
  OBVIOUS
<1> QED BY <1>2, <1>4, <1>5, <1>6, ContinueStep, Zenon

-----------------------------------------------------------------------------
(* The steps.                                                              *)

\* Enter, and the delimiter of co_getline(), put a '\0' behind the line.
LEMMA LineCompleteStep ==
  ASSUME LineInv, NEW c \in Char, TerminalEnter(c) \/ GetlineDelimiter(c)
  PROVE  LineInv'
<1>1. /\ Reading /\ typed' = Append(typed, c) /\ UNCHANGED <<reader, i, screen>>
      /\ buffer' = [buffer EXCEPT ![i] = NUL] /\ result' = "okay"
  BY DEF TerminalEnter, GetlineDelimiter, Type, LineComplete
<1>2. LineTypes /\ i \in 0 .. Size - 1 /\ typed \in Seq(Char)
  BY DEF LineInv, LineTypes
<1>3. LineTypes'
  BY <1>1, <1>2 DEF LineTypes
<1>4. RoomInv'
  BY <1>1, <1>2 DEF RoomInv, Reading, LineTypes
<1>5. typed' # <<>>
  BY <1>1, <1>2
<1>6. \A n \in 0 .. i - 1 : buffer'[n] = buffer[n]
  <2>1. \A n \in 0 .. i - 1 : n \in 0 .. Size - 1 /\ n # i
    BY <1>2, LineAssumption
  <2> QED BY <1>1, <1>2, <2>1 DEF LineTypes
<1>7. reader' = "terminal" => Holds(screen)'
  BY <1>1, <1>6 DEF LineInv, Holds
<1>8. reader' = "co_getline" => Holds(Sent)'
  <2>1. Sent' = typed
    <3>1. Front(Append(typed, c)) = typed
      BY <1>2 DEF Front
    <3> QED BY <1>1, <3>1 DEF Sent
  <2>2. reader = "co_getline" => Holds(typed)
    BY <1>1 DEF LineInv, Sent, Reading
  <2> QED BY <1>1, <1>6, <2>1, <2>2 DEF Holds
<1> QED BY <1>3, <1>4, <1>5, <1>7, <1>8 DEF LineInv

\* terminal() stores and echoes a character.
LEMMA TerminalPrintableStep ==
  ASSUME LineInv, NEW c \in Char, TerminalPrintable(c)
  PROVE  LineInv'
<1>1. /\ Reading /\ typed' = Append(typed, c) /\ UNCHANGED reader
      /\ reader = "terminal" /\ c \in Printable
      /\ Continue(i + 1, [buffer EXCEPT ![i] = c]) /\ screen' = Append(screen, c)
  BY DEF TerminalPrintable, Type
<1>2. screen \in Seq(Char) /\ Holds(screen) /\ LineTypes
  <2>1. screen \in Seq(Printable) /\ Printable \subseteq Char
    BY DEF LineInv, LineTypes, Char
  <2> QED BY <1>1, <2>1 DEF LineInv
<1>3. /\ i' \in 0 .. Size - 1 /\ buffer' \in [0 .. Size - 1 -> Char \cup {NUL}]
      /\ result' \in {"reading", "full"}
      /\ RoomInv' /\ Len(screen') = i' /\ \A m \in 0 .. i' - 1 : buffer'[m] = screen'[m + 1]
  BY <1>1, <1>2, CharacterStep
<1>4. LineTypes'
  <2>1. screen' \in Seq(Printable) /\ typed' \in Seq(Char)
    BY <1>1, <1>2 DEF LineTypes
  <2> QED BY <1>1, <1>2, <1>3, <2>1 DEF LineTypes
<1>5. Holds(screen)'
  BY <1>1, <1>3 DEF Holds
<1> QED BY <1>1, <1>3, <1>4, <1>5 DEF LineInv

\* co_getline() stores a character.
LEMMA GetlineCharacterStep ==
  ASSUME LineInv, NEW c \in Char, GetlineCharacter(c)
  PROVE  LineInv'
<1>1. /\ Reading /\ typed' = Append(typed, c) /\ UNCHANGED <<reader, screen>>
      /\ reader = "co_getline"
      /\ Continue(i + 1, [buffer EXCEPT ![i] = c])
  BY DEF GetlineCharacter, Type
<1>2. typed \in Seq(Char) /\ Holds(typed) /\ LineTypes
  BY <1>1 DEF LineInv, LineTypes, Sent, Reading
<1>3. /\ i' \in 0 .. Size - 1 /\ buffer' \in [0 .. Size - 1 -> Char \cup {NUL}]
      /\ result' \in {"reading", "full"}
      /\ RoomInv' /\ Len(typed') = i' /\ \A m \in 0 .. i' - 1 : buffer'[m] = typed'[m + 1]
  BY <1>1, <1>2, CharacterStep
<1>4. LineTypes'
  BY <1>1, <1>2, <1>3 DEF LineTypes
<1>5. Holds(Sent)'
  BY <1>1, <1>3 DEF Holds, Sent
<1> QED BY <1>1, <1>3, <1>4, <1>5 DEF LineInv

\* terminal() takes the last character back, in the buffer and on the screen.
LEMMA TerminalEraseStep ==
  ASSUME LineInv, NEW c \in Char, TerminalErase(c)
  PROVE  LineInv'
<1> DEFINE n == IF i > 0 THEN i - 1 ELSE i
           line == IF i > 0 THEN Front(screen) ELSE screen
<1>1. /\ Reading /\ typed' = Append(typed, c) /\ UNCHANGED reader
      /\ reader = "terminal"
      /\ Continue(n, [buffer EXCEPT ![i] = NUL]) /\ screen' = line
  BY DEF TerminalErase, Type
<1>2. /\ LineTypes /\ i \in 0 .. Size - 1 /\ screen \in Seq(Printable) /\ Len(screen) = i
      /\ \A m \in 0 .. i - 1 : buffer[m] = screen[m + 1]
  BY <1>1 DEF LineInv, LineTypes, Holds
<1>3. /\ n \in 0 .. Size - 1 /\ n <= i
      /\ line \in Seq(Printable) /\ Len(line) = n
      /\ \A m \in 1 .. n : line[m] = screen[m]
  <2>1. CASE i > 0
    <3>1. line = SubSeq(screen, 1, i - 1) /\ n = i - 1
      BY <1>2, <2>1 DEF Front
    <3>2. /\ line \in Seq(Printable) /\ Len(line) = i - 1
          /\ \A m \in 1 .. i - 1 : line[m] = screen[m]
      <4> HIDE DEF line
      <4> QED BY <1>2, <2>1, <3>1, LineAssumption
    <3> QED BY <1>2, <2>1, <3>1, <3>2, LineAssumption
  <2>2. CASE ~(i > 0)
    BY <1>2, <2>2
  <2> QED BY <2>1, <2>2
<1>4. \A m \in 0 .. n - 1 : buffer[m] = line[m + 1]
  <2> HIDE DEF n, line
  <2> SUFFICES ASSUME NEW m \in 0 .. n - 1 PROVE buffer[m] = line[m + 1]
    OBVIOUS
  <2>1. m \in 0 .. i - 1 /\ m + 1 \in 1 .. n
    BY <1>2, <1>3, LineAssumption
  <2> QED BY <1>2, <1>3, <2>1
<1> HIDE DEF n, line
<1>5. /\ i' \in 0 .. Size - 1 /\ buffer' \in [0 .. Size - 1 -> Char \cup {NUL}]
      /\ result' \in {"reading", "full"}
      /\ RoomInv' /\ Len(line) = i' /\ \A m \in 0 .. i' - 1 : buffer'[m] = line[m + 1]
  BY <1>1, <1>3, <1>4, NoCharacterStep
<1>6. LineTypes'
  BY <1>1, <1>2, <1>3, <1>5 DEF LineTypes
<1>7. Holds(screen)'
  BY <1>1, <1>5 DEF Holds
<1> QED BY <1>1, <1>5, <1>6, <1>7 DEF LineInv

\* terminal() ignores a character.
LEMMA TerminalIgnoreStep ==
  ASSUME LineInv, NEW c \in Char, TerminalIgnore(c)
  PROVE  LineInv'
<1>1. /\ Reading /\ typed' = Append(typed, c) /\ UNCHANGED <<reader, screen>>
      /\ reader = "terminal"
      /\ Continue(i, [buffer EXCEPT ![i] = NUL])
  BY DEF TerminalIgnore, Type
<1>2. /\ LineTypes /\ i \in 0 .. Size - 1 /\ i <= i /\ Len(screen) = i
      /\ \A m \in 0 .. i - 1 : buffer[m] = screen[m + 1]
  BY <1>1, LineAssumption DEF LineInv, LineTypes, Holds
<1>3. /\ i' \in 0 .. Size - 1 /\ buffer' \in [0 .. Size - 1 -> Char \cup {NUL}]
      /\ result' \in {"reading", "full"}
      /\ RoomInv' /\ Len(screen) = i' /\ \A m \in 0 .. i' - 1 : buffer'[m] = screen[m + 1]
  BY <1>1, <1>2, NoCharacterStep
<1>4. LineTypes'
  BY <1>1, <1>2, <1>3 DEF LineTypes
<1>5. Holds(screen)'
  BY <1>1, <1>3 DEF Holds
<1> QED BY <1>1, <1>3, <1>4, <1>5 DEF LineInv

\* The next line begins with whatever the buffer held.
LEMMA NextLineStep ==
  ASSUME LineInv, NextLine
  PROVE  LineInv'
<1>1. /\ ~Reading /\ i' = 0 /\ screen' = <<>> /\ typed' = <<>>
      /\ result' = IF Size > 1 THEN "reading" ELSE "full"
      /\ UNCHANGED <<reader, buffer>>
  BY DEF NextLine
<1>2. 0 \in 0 .. Size - 1 /\ (Size > 1 => 0 < Size - 1)
  BY LineAssumption
<1>3. LineTypes'
  <2>1. <<>> \in Seq(Printable) /\ <<>> \in Seq(Char)
    OBVIOUS
  <2> QED BY <1>1, <1>2, <2>1 DEF LineInv, LineTypes
<1>4. RoomInv'
  <2>1. CASE Size > 1
    BY <1>1, <1>2, <2>1 DEF RoomInv, Reading
  <2>2. CASE ~(Size > 1)
    <3>1. i = 0
      BY <2>2, LineAssumption DEF LineInv, LineTypes
    <3> QED BY <1>1, <2>2, <3>1 DEF LineInv, RoomInv, Reading
  <2> QED BY <2>1, <2>2
<1>5. result' # "okay"
  BY <1>1
<1>6. Holds(screen)' /\ Holds(Sent)'
  BY <1>1 DEF Holds, Sent
<1> QED BY <1>3, <1>4, <1>5, <1>6 DEF LineInv

\* Every step keeps the invariant.
LEMMA LineNext == LineInv /\ [Next]_vars => LineInv'
<1> SUFFICES ASSUME LineInv, [Next]_vars PROVE LineInv'
  OBVIOUS
<1>1. CASE UNCHANGED vars
  BY <1>1 DEF vars, LineInv, LineTypes, RoomInv, Reading, Holds, Sent
<1>2. CASE NextLine
  BY <1>2, NextLineStep
<1>3. CASE \E c \in Char : Receive(c)
  <2>1. PICK c \in Char : Receive(c)
    BY <1>3
  <2> QED BY <2>1, LineCompleteStep, TerminalEraseStep, TerminalPrintableStep,
             TerminalIgnoreStep, GetlineCharacterStep DEF Receive
<1> QED BY <1>1, <1>2, <1>3 DEF Next

\* The initial states satisfy the invariant.
LEMMA LineInit == Init => LineInv
<1> SUFFICES ASSUME Init PROVE LineInv
  OBVIOUS
<1>1. /\ i = 0 /\ screen = <<>> /\ typed = <<>>
      /\ result = IF Size > 1 THEN "reading" ELSE "full"
      /\ reader \in {"terminal", "co_getline"}
  BY DEF Init, Begin
<1>2. PICK c \in Printable \cup {NUL} :
        buffer = [n \in 0 .. Size - 1 |-> IF Size > 1 THEN c ELSE NUL]
  BY DEF Init
<1>3. 0 \in 0 .. Size - 1 /\ (Size > 1 => 0 < Size - 1)
  BY LineAssumption
<1>4. LineTypes
  <2>1. <<>> \in Seq(Printable) /\ <<>> \in Seq(Char)
    OBVIOUS
  <2> QED BY <1>1, <1>2, <1>3, <2>1 DEF LineTypes, Char
<1>5. RoomInv
  BY <1>1, <1>2, <1>3 DEF RoomInv, Reading
<1>6. Holds(screen) /\ Holds(Sent) /\ result # "okay"
  BY <1>1 DEF Holds, Sent
<1> QED BY <1>4, <1>5, <1>6 DEF LineInv

-----------------------------------------------------------------------------
\* The inductive invariant of the two readers.
THEOREM LineInvariant == Spec => []LineInv
BY LineInit, LineNext, PTL DEF Spec

\* The command that is executed is what the terminal shows.
THEOREM CommandIsAlwaysOnScreen == Spec => []CommandIsOnScreen
<1>1. LineInv => CommandIsOnScreen
  <2> SUFFICES ASSUME LineInv, reader = "terminal", ~Reading
               PROVE  Terminated /\ CString = screen
    BY DEF CommandIsOnScreen
  <2>1. LineTypes /\ screen \in Seq(Char) /\ Holds(screen) /\ buffer[i] = NUL
    BY DEF LineInv, LineTypes, RoomInv, Char
  <2> QED BY <2>1, CStringIs
<1> QED BY <1>1, LineInvariant, PTL

\* co_getline() leaves what was sent before the delimiter, and a '\0'.
THEOREM GetlineLeavesTheLine == Spec => []LineOfGetline
<1>1. LineInv => LineOfGetline
  <2> SUFFICES ASSUME LineInv, reader = "co_getline", ~Reading
               PROVE  Terminated /\ CString = Sent
    BY DEF LineOfGetline, Sent
  <2>1. LineTypes /\ Holds(Sent) /\ buffer[i] = NUL
    BY DEF LineInv, RoomInv
  <2>2. Sent \in Seq(Char)
    <3>1. typed \in Seq(Char) /\ (result = "okay" => typed # <<>>)
      BY DEF LineInv, LineTypes
    <3>2. result = "okay" => Front(typed) \in Seq(Char)
      BY <3>1 DEF Front
    <3> QED BY <3>1, <3>2 DEF Sent
  <2> QED BY <2>1, <2>2, CStringIs
<1> QED BY <1>1, LineInvariant, PTL

-----------------------------------------------------------------------------
(* Edited, unfolded.                                                       *)

\* A set of numbers that is not empty has a least element.
LEMMA Least ==
  ASSUME NEW T, T \subseteq Nat, T # {}
  PROVE  \E x \in T : \A y \in T : x <= y
<1> DEFINE R == OpToRel(<, Nat)
<1>1. \A x, y \in Nat : x < y => <<x, y>> \in R
  BY DEF OpToRel
<1>2. IsWellFoundedOn(R, Nat)
  BY NatLessThanWellFounded
<1> HIDE DEF R
<1>3. \E x \in T : \A y \in T : ~ (<<y, x>> \in R)
  BY <1>2, WFMin, Zenon
<1>4. PICK x \in T : \A y \in T : ~ (<<y, x>> \in R)
  BY <1>3
<1>5. \A y \in T : x <= y
  <2> TAKE y \in T
  <2>1. x \in Nat /\ y \in Nat OBVIOUS
  <2>2. ~ (y < x) BY <2>1, <1>1, <1>4
  <2> QED BY <2>1, <2>2
<1> QED BY <1>5

\* Induction up to m, for a set.
LEMMA Induction ==
  ASSUME NEW S, NEW m \in Nat, 0 \in S,
         \A n \in 1 .. m : n - 1 \in S => n \in S
  PROVE  0 .. m \subseteq S
<1> DEFINE T == (0 .. m) \ S
<1>1. SUFFICES ASSUME T # {} PROVE FALSE
  OBVIOUS
<1>2. T \subseteq Nat
  OBVIOUS
<1>3. PICK x \in T : \A y \in T : x <= y
  <2> HIDE DEF T
  <2> QED BY <1>1, <1>2, Least
<1>4. x \in 1 .. m /\ x - 1 \in S
  BY <1>3
<1> QED BY <1>3, <1>4

\* Max of FiniteSetsExt is the greatest element.
LEMMA MaxIsGreatest ==
  ASSUME NEW k \in Nat, NEW T, T \subseteq 1 .. k, T # {}
  PROVE  Max(T) \in T /\ \A y \in T : Max(T) >= y
<1> DEFINE U == {u \in 0 .. k : \A x \in T : x <= u}
<1>1. U \subseteq Nat /\ U # {}
  <2>1. k \in U OBVIOUS
  <2> QED BY <2>1
<1>2. PICK u \in U : \A v \in U : u <= v
  <2> HIDE DEF U
  <2> QED BY <1>1, Least
<1>3. u \in T
  <2> SUFFICES ASSUME u \notin T PROVE FALSE
    OBVIOUS
  <2>1. u - 1 \in U
    <3>1. PICK x \in T : TRUE OBVIOUS
    <3>2. u \in 1 .. k BY <3>1, <1>2
    <3>3. \A y \in T : y <= u - 1 BY <1>2
    <3> QED BY <3>2, <3>3
  <2> QED BY <2>1, <1>2
<1>4. \E x \in T : \A y \in T : x >= y
  BY <1>2, <1>3
<1> QED BY <1>4, Zenon DEF Max

(* What a key does to the line, as its user sees it.                       *)
Edit(line, c) == CASE c \in Printable -> Append(line, c)
                   [] c \in Erase /\ line # <<>> -> Front(line)
                   [] OTHER -> line

\* Edited goes from key to key.
LEMMA EditedKeyByKey ==
  ASSUME NEW keys \in Seq(Char)
  PROVE  \E e : /\ e[0] = <<>>
                /\ \A n \in 1 .. Len(keys) : e[n] = Edit(e[n - 1], keys[n])
                /\ Edited(keys) = e[Len(keys)]
<1> DEFINE n == Len(keys)
           Rec(it, s) == IF s = {} THEN <<>>
                         ELSE Edit(it[s \ {Max(s)}], keys[Max(s)])
           Fold(it, D) == it = [s \in SUBSET D |-> Rec(it, s)]
           S == {k \in 0 .. n : \E it : Fold(it, 1 .. k)}
<1>1. n \in Nat /\ DOMAIN keys = 1 .. n
  OBVIOUS
<1>2. 0 \in S
  <2> DEFINE it == [s \in SUBSET (1 .. 0) |-> <<>>]
  <2>1. 1 .. 0 = {} OBVIOUS
  <2>2. \A s \in SUBSET (1 .. 0) : Rec(it, s) = <<>> BY <2>1
  <2>3. Fold(it, 1 .. 0) BY <2>2
  <2> HIDE DEF Fold, it
  <2> QED BY <1>1, <2>3
<1>3. ASSUME NEW k \in 1 .. n, k - 1 \in S PROVE k \in S
  <2>1. PICK it : Fold(it, 1 .. k - 1)
    <3> HIDE DEF Fold
    <3> QED BY <1>3
  <2> DEFINE jt == [s \in SUBSET (1 .. k) |-> Rec(it, s)]
  <2>2. ASSUME NEW s \in SUBSET (1 .. k) PROVE Rec(jt, s) = Rec(it, s)
    <3>1. CASE s = {} BY <3>1
    <3>2. CASE s # {}
      <4> DEFINE r == s \ {Max(s)}
      <4>0. k \in Nat BY <1>1
      <4>1. Max(s) \in s /\ \A y \in s : Max(s) >= y
        <5> HIDE DEF S, Rec, Fold, jt, n, r
        <5> QED BY <3>2, <4>0, MaxIsGreatest
      <4>2. r \in SUBSET (1 .. k - 1) /\ r \in SUBSET (1 .. k)
        <5> DEFINE m == Max(s)
        <5>1. m \in 1 .. k /\ \A y \in s : y \in 1 .. k /\ m >= y BY <4>1
        <5> HIDE DEF m
        <5>2. s \ {m} \subseteq 1 .. k - 1
          <6> SUFFICES ASSUME NEW y \in s, y # m PROVE y \in 1 .. k - 1
            OBVIOUS
          <6> QED BY <5>1, <4>0
        <5>3. s \ {m} \subseteq 1 .. k BY <5>1
        <5> QED BY <5>2, <5>3 DEF m
      <4>3. it[r] = Rec(it, r)
        <5> HIDE DEF r, Rec
        <5> QED BY <4>2, <2>1
      <4>4. jt[r] = Rec(it, r)
        <5> HIDE DEF r, Rec
        <5> QED BY <4>2
      <4>5. jt[r] = it[r]
        <5> HIDE DEF jt, r, Rec
        <5> QED BY <4>3, <4>4
      <4> HIDE DEF jt, Fold, S
      <4>6. /\ Rec(jt, s) = Edit(jt[r], keys[Max(s)])
            /\ Rec(it, s) = Edit(it[r], keys[Max(s)])
        BY <3>2
      <4> HIDE DEF Rec, r
      <4> QED BY <4>5, <4>6, Zenon
    <3> QED BY <3>1, <3>2
  <2>3. Fold(jt, 1 .. k)
    <3> HIDE DEF Rec
    <3> QED BY <2>2, Zenon
  <2> HIDE DEF Fold, jt
  <2>4. \E kt : Fold(kt, 1 .. k) BY <2>3
  <2> QED BY <2>4, <1>1
<1>4. PICK it : Fold(it, 1 .. n) /\ Edited(keys) = it[1 .. n]
  <2>1. n \in S
    <3>1. 0 .. n \subseteq S
      <4> HIDE DEF S, n
      <4> QED BY <1>1, <1>2, <1>3, Induction
    <3> HIDE DEF S
    <3> QED BY <3>1, <1>1
  <2>2. \E it : Fold(it, DOMAIN keys)
    <3> HIDE DEF Fold
    <3> QED BY <2>1, <1>1
  <2>3. Edited(keys) = (CHOOSE it : Fold(it, DOMAIN keys))[DOMAIN keys]
    BY Zenon DEF Edited, Edit, FoldLeft, MapThenFoldSet
  <2> HIDE DEF Fold
  <2>4. Fold(CHOOSE it : Fold(it, DOMAIN keys), DOMAIN keys)
    BY <2>2, Zenon
  <2> HIDE DEF n
  <2> QED BY <2>3, <2>4, <1>1
<1> DEFINE e == [k \in 0 .. n |-> it[1 .. k]]
<1>5. \A s \in SUBSET (1 .. n) : it[s] = Rec(it, s)
  <2> HIDE DEF Rec, n
  <2> QED BY <1>4
<1>6. e[0] = <<>>
  <2>1. 1 .. 0 = {} /\ {} \in SUBSET (1 .. n) OBVIOUS
  <2>2. it[{}] = <<>> BY <2>1, <1>5
  <2>3. 0 \in 0 .. n BY <1>1
  <2> QED BY <2>1, <2>2, <2>3
<1>7. \A k \in 1 .. n : e[k] = Edit(e[k - 1], keys[k])
  <2> TAKE k \in 1 .. n
  <2>1. /\ 1 .. k \in SUBSET (1 .. n) /\ 1 .. k # {}
        /\ k \in 0 .. n /\ k - 1 \in 0 .. n /\ k \in Nat
    BY <1>1
  <2>2. Max(1 .. k) = k
    <3> DEFINE m == Max(1 .. k)
    <3>1. m \in 1 .. k /\ \A y \in 1 .. k : m >= y
      BY <2>1, MaxIsGreatest
    <3> HIDE DEF m
    <3>2. m = k BY <3>1, <2>1
    <3> QED BY <3>2 DEF m
  <2>3. (1 .. k) \ {k} = 1 .. k - 1 BY <2>1
  <2>4. it[1 .. k] = Rec(it, 1 .. k)
    <3> HIDE DEF Rec
    <3> QED BY <2>1, <1>5
  <2>5. Rec(it, 1 .. k) = Edit(it[1 .. k - 1], keys[k])
    BY <2>1, <2>2, <2>3, Zenon
  <2>6. e[k] = it[1 .. k] /\ e[k - 1] = it[1 .. k - 1] BY <2>1
  <2> HIDE DEF e, Rec
  <2> QED BY <2>4, <2>5, <2>6, Zenon
<1>8. e[n] = it[1 .. n] BY <1>1
<1> HIDE DEF e
<1> QED BY <1>4, <1>6, <1>7, <1>8

\* A key more edits the line that was typed before.
LEMMA EditedAppend ==
  ASSUME NEW keys \in Seq(Char), NEW c \in Char
  PROVE  Edited(Append(keys, c)) = Edit(Edited(keys), c)
<1> DEFINE n == Len(keys)
           more == Append(keys, c)
<1>1. /\ n \in Nat /\ more \in Seq(Char) /\ Len(more) = n + 1 /\ more[n + 1] = c
      /\ \A k \in 1 .. n : more[k] = keys[k]
  OBVIOUS
<1>2. PICK e : /\ e[0] = <<>> /\ \A k \in 1 .. n : e[k] = Edit(e[k - 1], keys[k])
               /\ Edited(keys) = e[n]
  BY EditedKeyByKey
<1> HIDE DEF more
<1>3. PICK f : /\ f[0] = <<>> /\ \A k \in 1 .. Len(more) : f[k] = Edit(f[k - 1], more[k])
               /\ Edited(more) = f[Len(more)]
  BY <1>1, EditedKeyByKey
<1> HIDE DEF n
<1> DEFINE S == {k \in 0 .. n : f[k] = e[k]}
<1>4. n \in S
  <2>1. 0 \in S BY <1>1, <1>2, <1>3
  <2>2. ASSUME NEW k \in 1 .. n, k - 1 \in S PROVE k \in S
    <3>1. k \in 1 .. Len(more) /\ k \in 0 .. n BY <1>1
    <3>2. f[k] = Edit(f[k - 1], more[k]) /\ e[k] = Edit(e[k - 1], keys[k])
      BY <3>1, <1>2, <1>3
    <3>3. f[k - 1] = e[k - 1] /\ more[k] = keys[k] BY <2>2, <1>1
    <3>4. f[k] = e[k] BY <3>2, <3>3, Zenon
    <3> QED BY <3>1, <3>4
  <2>3. 0 .. n \subseteq S
    <3> HIDE DEF S
    <3> QED BY <1>1, <2>1, <2>2, Induction
  <2> HIDE DEF S
  <2> QED BY <2>3, <1>1
<1>5. f[n + 1] = Edit(f[n], more[n + 1])
  <2>1. n + 1 \in 1 .. Len(more) /\ (n + 1) - 1 = n BY <1>1
  <2>2. f[n + 1] = Edit(f[(n + 1) - 1], more[n + 1]) BY <2>1, <1>3
  <2> QED BY <2>1, <2>2, Zenon
<1>6. f[n] = e[n] BY <1>4
<1> QED BY <1>1, <1>2, <1>3, <1>5, <1>6, Zenon DEF more

\* Nothing typed, nothing shown.
LEMMA EditedNothing == Edited(<<>>) = <<>>
<1>1. <<>> \in Seq(Char) /\ Len(<<>>) = 0 OBVIOUS
<1>2. PICK e : e[0] = <<>> /\ Edited(<<>>) = e[Len(<<>>)]
  BY <1>1, EditedKeyByKey
<1> QED BY <1>1, <1>2

\* Each key does to the screen what it does to the line.
LEMMA ScreenStep ==
  ASSUME LineInv, ScreenIsWhatWasTyped, [Next]_vars
  PROVE  ScreenIsWhatWasTyped'
<1> SUFFICES ASSUME reader' = "terminal" PROVE screen' = Edited(typed')
  BY DEF ScreenIsWhatWasTyped
<1>1. typed \in Seq(Char) /\ screen \in Seq(Printable)
  BY DEF LineInv, LineTypes
<1>2. CASE UNCHANGED vars
  BY <1>2 DEF vars, ScreenIsWhatWasTyped
<1>3. CASE NextLine
  <2>1. screen' = <<>> /\ typed' = <<>> BY <1>3 DEF NextLine
  <2> QED BY <2>1, EditedNothing, Zenon
<1>4. ASSUME NEW c \in Char, Receive(c) PROVE screen' = Edited(typed')
  <2>0. typed' = Append(typed, c) /\ reader' = reader
    BY <1>4 DEF Receive, TerminalEnter, TerminalErase, TerminalPrintable,
         TerminalIgnore, GetlineDelimiter, GetlineCharacter, Type
  <2>1. Edited(typed') = Edit(Edited(typed), c)
    BY <2>0, <1>1, EditedAppend
  <2>2. reader = "terminal" /\ screen = Edited(typed)
    BY <2>0 DEF ScreenIsWhatWasTyped
  <2>3. Edited(typed') = Edit(screen, c)
    BY <2>1, <2>2, Zenon
  <2>4. i \in Nat /\ Len(screen) = i
    BY <2>2, LineAssumption DEF LineInv, LineTypes, Holds
  <2>5. screen' = Edit(screen, c)
    <3>1. CASE TerminalPrintable(c)
      <4>1. c \in Printable /\ c \notin Erase /\ screen' = Append(screen, c)
        BY <3>1, LineAssumption DEF TerminalPrintable
      <4> QED BY <4>1 DEF Edit
    <3>2. CASE TerminalErase(c)
      <4>1. c \notin Printable /\ c \in Erase
        BY <3>2, LineAssumption DEF TerminalErase
      <4>2. i > 0 <=> screen # <<>> BY <2>4, <1>1
      <4>3. screen' = IF i > 0 THEN Front(screen) ELSE screen
        BY <3>2 DEF TerminalErase
      <4> QED BY <4>1, <4>2, <4>3 DEF Edit
    <3>3. CASE TerminalEnter(c) \/ TerminalIgnore(c)
      <4>1. c \notin Printable /\ c \notin Erase /\ screen' = screen
        BY <3>3, LineAssumption DEF TerminalEnter, TerminalIgnore, LineComplete
      <4> QED BY <4>1 DEF Edit
    <3>4. ~GetlineDelimiter(c) /\ ~GetlineCharacter(c)
      BY <2>2 DEF GetlineDelimiter, GetlineCharacter
    <3> QED BY <1>4, <3>1, <3>2, <3>3, <3>4 DEF Receive
  <2> QED BY <2>3, <2>5
<1> QED BY <1>2, <1>3, <1>4 DEF Next

\* The terminal shows what was typed, less what was erased, at every key: the
\* echo of terminal() and its erasing never come apart from the keys.
THEOREM ScreenShowsWhatWasTyped == Spec => []ScreenIsWhatWasTyped
<1>1. Init => ScreenIsWhatWasTyped
  <2> SUFFICES ASSUME Init PROVE screen = Edited(typed)
    BY DEF ScreenIsWhatWasTyped
  <2> QED BY EditedNothing DEF Init, Begin
<1>2. LineInv /\ ScreenIsWhatWasTyped /\ [Next]_vars => ScreenIsWhatWasTyped'
  BY ScreenStep
<1> QED BY <1>1, <1>2, LineInvariant, PTL DEF Spec

-----------------------------------------------------------------------------
(* Numbers.                                                                *)

\* Min of FiniteSetsExt is the least element.
LEMMA MinIsLeast ==
  ASSUME NEW T, T \subseteq Nat, T # {}
  PROVE  Min(T) \in T /\ \A y \in T : Min(T) <= y
<1>1. \E x \in T : \A y \in T : x <= y
  BY Least
<1> QED BY <1>1, Zenon DEF Min

\* Accumulate goes from digit to digit.
LEMMA AccumulatedByDigit ==
  ASSUME NEW t \in Seq(Nat), NEW base \in Nat
  PROVE  \E e : /\ e[0] = 0
                /\ \A n \in 1 .. Len(t) : e[n] = (e[n - 1] * base + t[n]) % WORD
                /\ Accumulate(t, base) = e[Len(t)]
<1> DEFINE n == Len(t)
           Step(v, c) == (v * base + c) % WORD
           Rec(it, s) == IF s = {} THEN 0 ELSE Step(it[s \ {Max(s)}], t[Max(s)])
           Fold(it, D) == it = [s \in SUBSET D |-> Rec(it, s)]
           S == {k \in 0 .. n : \E it : Fold(it, 1 .. k)}
<1>1. n \in Nat /\ DOMAIN t = 1 .. n
  OBVIOUS
<1>2. 0 \in S
  <2> DEFINE it == [s \in SUBSET (1 .. 0) |-> 0]
  <2>1. 1 .. 0 = {} OBVIOUS
  <2>2. \A s \in SUBSET (1 .. 0) : Rec(it, s) = 0 BY <2>1
  <2>3. Fold(it, 1 .. 0) BY <2>2
  <2> HIDE DEF Fold, it
  <2> QED BY <1>1, <2>3
<1>3. ASSUME NEW k \in 1 .. n, k - 1 \in S PROVE k \in S
  <2>1. PICK it : Fold(it, 1 .. k - 1)
    <3> HIDE DEF Fold
    <3> QED BY <1>3
  <2> DEFINE jt == [s \in SUBSET (1 .. k) |-> Rec(it, s)]
  <2>2. ASSUME NEW s \in SUBSET (1 .. k) PROVE Rec(jt, s) = Rec(it, s)
    <3>1. CASE s = {} BY <3>1
    <3>2. CASE s # {}
      <4> DEFINE r == s \ {Max(s)}
      <4>0. k \in Nat BY <1>1
      <4>1. Max(s) \in s /\ \A y \in s : Max(s) >= y
        <5> HIDE DEF S, Rec, Fold, jt, n, r
        <5> QED BY <3>2, <4>0, MaxIsGreatest
      <4>2. r \in SUBSET (1 .. k - 1) /\ r \in SUBSET (1 .. k)
        <5> DEFINE m == Max(s)
        <5>1. m \in 1 .. k /\ \A y \in s : y \in 1 .. k /\ m >= y BY <4>1
        <5> HIDE DEF m
        <5>2. s \ {m} \subseteq 1 .. k - 1
          <6> SUFFICES ASSUME NEW y \in s, y # m PROVE y \in 1 .. k - 1
            OBVIOUS
          <6> QED BY <5>1, <4>0
        <5>3. s \ {m} \subseteq 1 .. k BY <5>1
        <5> QED BY <5>2, <5>3 DEF m
      <4>3. it[r] = Rec(it, r)
        <5> HIDE DEF r, Rec
        <5> QED BY <4>2, <2>1
      <4>4. jt[r] = Rec(it, r)
        <5> HIDE DEF r, Rec
        <5> QED BY <4>2
      <4>5. jt[r] = it[r]
        <5> HIDE DEF jt, r, Rec
        <5> QED BY <4>3, <4>4
      <4> HIDE DEF jt, Fold, S, Step
      <4>6. /\ Rec(jt, s) = Step(jt[r], t[Max(s)])
            /\ Rec(it, s) = Step(it[r], t[Max(s)])
        BY <3>2
      <4> HIDE DEF Rec, r
      <4> QED BY <4>5, <4>6, Zenon
    <3> QED BY <3>1, <3>2
  <2>3. Fold(jt, 1 .. k)
    <3> HIDE DEF Rec
    <3> QED BY <2>2, Zenon
  <2> HIDE DEF Fold, jt
  <2>4. \E kt : Fold(kt, 1 .. k) BY <2>3
  <2> QED BY <2>4, <1>1
<1>4. PICK it : Fold(it, 1 .. n) /\ Accumulate(t, base) = it[1 .. n]
  <2>1. n \in S
    <3>1. 0 .. n \subseteq S
      <4> HIDE DEF S, n
      <4> QED BY <1>1, <1>2, <1>3, Induction
    <3> HIDE DEF S
    <3> QED BY <3>1, <1>1
  <2>2. \E it : Fold(it, DOMAIN t)
    <3> HIDE DEF Fold
    <3> QED BY <2>1, <1>1
  <2>3. Accumulate(t, base) = (CHOOSE it : Fold(it, DOMAIN t))[DOMAIN t]
    BY Zenon DEF Accumulate, FoldLeft, MapThenFoldSet
  <2> HIDE DEF Fold
  <2>4. Fold(CHOOSE it : Fold(it, DOMAIN t), DOMAIN t)
    BY <2>2, Zenon
  <2> HIDE DEF n
  <2> QED BY <2>3, <2>4, <1>1
<1> DEFINE e == [k \in 0 .. n |-> it[1 .. k]]
<1>5. \A s \in SUBSET (1 .. n) : it[s] = Rec(it, s)
  <2> HIDE DEF Rec, n
  <2> QED BY <1>4
<1>6. e[0] = 0
  <2>1. 1 .. 0 = {} /\ {} \in SUBSET (1 .. n) OBVIOUS
  <2>2. it[{}] = 0 BY <2>1, <1>5
  <2>3. 0 \in 0 .. n BY <1>1
  <2> QED BY <2>1, <2>2, <2>3
<1>7. \A k \in 1 .. n : e[k] = Step(e[k - 1], t[k])
  <2> TAKE k \in 1 .. n
  <2>1. /\ 1 .. k \in SUBSET (1 .. n) /\ 1 .. k # {}
        /\ k \in 0 .. n /\ k - 1 \in 0 .. n /\ k \in Nat
    <3> HIDE DEF n, e, Step, Rec
    <3>1. k \in Nat /\ k \in 0 .. n /\ k - 1 \in 0 .. n /\ k \in 1 .. k BY <1>1
    <3>2. 1 .. k \subseteq 1 .. n BY <1>1
    <3> QED BY <3>1, <3>2
  <2>2. Max(1 .. k) = k
    <3> DEFINE m == Max(1 .. k)
    <3>1. m \in 1 .. k /\ \A y \in 1 .. k : m >= y
      BY <2>1, MaxIsGreatest
    <3> HIDE DEF m
    <3>2. m = k BY <3>1, <2>1
    <3> QED BY <3>2 DEF m
  <2>3. (1 .. k) \ {k} = 1 .. k - 1 BY <2>1
  <2>4. it[1 .. k] = Rec(it, 1 .. k)
    <3> HIDE DEF Rec
    <3> QED BY <2>1, <1>5
  <2> HIDE DEF Step
  <2>5. Rec(it, 1 .. k) = Step(it[1 .. k - 1], t[k])
    BY <2>1, <2>2, <2>3, Zenon
  <2>6. e[k] = it[1 .. k] /\ e[k - 1] = it[1 .. k - 1] BY <2>1
  <2> HIDE DEF e, Rec
  <2> QED BY <2>4, <2>5, <2>6, Zenon
<1>8. e[n] = it[1 .. n] BY <1>1
<1> HIDE DEF e
<1> QED BY <1>4, <1>6, <1>7, <1>8

\* What Accumulate makes of digits is below WORD.
LEMMA AccumulateType ==
  ASSUME NEW t \in Seq(Nat), NEW base \in Nat
  PROVE  Accumulate(t, base) \in Nat /\ Accumulate(t, base) < WORD
<1>1. PICK e : /\ e[0] = 0
               /\ \A n \in 1 .. Len(t) : e[n] = (e[n - 1] * base + t[n]) % WORD
               /\ Accumulate(t, base) = e[Len(t)]
  BY AccumulatedByDigit
<1> DEFINE m == Len(t)
           S == {k \in 0 .. m : e[k] \in 0 .. WORD - 1}
<1>2. m \in Nat /\ WORD \in Nat \ {0}
  BY NumbersAssumption
<1>3. 0 \in S
  BY <1>1, <1>2
<1>4. ASSUME NEW k \in 1 .. m, k - 1 \in S PROVE k \in S
  <2>1. e[k] = (e[k - 1] * base + t[k]) % WORD BY <1>1
  <2>2. e[k - 1] \in Nat /\ t[k] \in Nat BY <1>2, <1>4
  <2>3. e[k - 1] * base \in Nat BY <2>2
  <2>4. \A z \in Nat : z % WORD \in 0 .. WORD - 1 BY <1>2
  <2>5. e[k - 1] * base + t[k] \in Nat BY <2>2, <2>3
  <2>6. e[k] \in 0 .. WORD - 1 BY <2>1, <2>4, <2>5
  <2> QED BY <2>6
<1>5. 0 .. m \subseteq S
  <2> HIDE DEF S, m
  <2> QED BY <1>2, <1>3, <1>4, Induction
<1>6. m \in S
  <2> HIDE DEF S
  <2> QED BY <1>2, <1>5
<1> QED BY <1>1, <1>2, <1>6

\* No digits are worth nothing.
LEMMA AccumulateNothing ==
  ASSUME NEW base \in Nat
  PROVE  Accumulate(<<>>, base) = 0
<1>1. <<>> \in Seq(Nat) /\ Len(<<>>) = 0 OBVIOUS
<1>2. PICK e : e[0] = 0 /\ Accumulate(<<>>, base) = e[Len(<<>>)]
  BY <1>1, AccumulatedByDigit
<1> QED BY <1>1, <1>2

\* A digit more.
LEMMA AccumulateAppend ==
  ASSUME NEW t \in Seq(Nat), NEW c \in Nat, NEW base \in Nat
  PROVE  Accumulate(Append(t, c), base) = (Accumulate(t, base) * base + c) % WORD
<1> DEFINE n == Len(t)
           more == Append(t, c)
           Step(v, d) == (v * base + d) % WORD
<1>1. /\ n \in Nat /\ more \in Seq(Nat) /\ Len(more) = n + 1 /\ more[n + 1] = c
      /\ \A k \in 1 .. n : more[k] = t[k]
  OBVIOUS
<1>2. PICK e : /\ e[0] = 0 /\ \A k \in 1 .. n : e[k] = Step(e[k - 1], t[k])
               /\ Accumulate(t, base) = e[n]
  BY AccumulatedByDigit
<1> HIDE DEF more
<1>3. PICK f : /\ f[0] = 0 /\ \A k \in 1 .. Len(more) : f[k] = Step(f[k - 1], more[k])
               /\ Accumulate(more, base) = f[Len(more)]
  BY <1>1, AccumulatedByDigit
<1> HIDE DEF n, Step
<1> DEFINE S == {k \in 0 .. n : f[k] = e[k]}
<1>4. n \in S
  <2>1. 0 \in S BY <1>1, <1>2, <1>3
  <2>2. ASSUME NEW k \in 1 .. n, k - 1 \in S PROVE k \in S
    <3>1. k \in 1 .. Len(more) /\ k \in 0 .. n BY <1>1
    <3>2. f[k] = Step(f[k - 1], more[k]) /\ e[k] = Step(e[k - 1], t[k])
      BY <3>1, <1>2, <1>3
    <3>3. f[k - 1] = e[k - 1] /\ more[k] = t[k] BY <2>2, <1>1
    <3>4. f[k] = e[k] BY <3>2, <3>3, Zenon
    <3> QED BY <3>1, <3>4
  <2>3. 0 .. n \subseteq S
    <3> HIDE DEF S
    <3> QED BY <1>1, <2>1, <2>2, Induction
  <2> HIDE DEF S
  <2> QED BY <2>3, <1>1
<1>5. f[n + 1] = Step(f[n], more[n + 1])
  <2>1. n + 1 \in 1 .. Len(more) /\ (n + 1) - 1 = n BY <1>1
  <2>2. f[n + 1] = Step(f[(n + 1) - 1], more[n + 1]) BY <2>1, <1>3
  <2> QED BY <2>1, <2>2, Zenon
<1>6. f[n] = e[n] BY <1>4
<1>7. Accumulate(more, base) = Step(Accumulate(t, base), c)
  BY <1>1, <1>2, <1>3, <1>5, <1>6, Zenon
<1> QED BY <1>7 DEF more, Step

\* Zeros in front do not count: z is t behind k of them.
LEMMA LeadingZeros ==
  ASSUME NEW t \in Seq(Nat), NEW z \in Seq(Nat), NEW k \in Nat, NEW base \in Nat,
         Len(z) = k + Len(t), \A j \in 1 .. k : z[j] = 0,
         \A j \in 1 .. Len(t) : z[k + j] = t[j]
  PROVE  Accumulate(z, base) = Accumulate(t, base)
<1> DEFINE n == Len(t)
           Step(v, d) == (v * base + d) % WORD
<1>0. n \in Nat /\ WORD \in Nat \ {0} BY NumbersAssumption
<1>1. PICK e : /\ e[0] = 0 /\ \A j \in 1 .. n : e[j] = Step(e[j - 1], t[j])
               /\ Accumulate(t, base) = e[n]
  BY AccumulatedByDigit
<1>2. PICK f : /\ f[0] = 0 /\ \A j \in 1 .. Len(z) : f[j] = Step(f[j - 1], z[j])
               /\ Accumulate(z, base) = f[Len(z)]
  BY AccumulatedByDigit
<1>3. Step(0, 0) = 0
  <2>1. 0 * base + 0 = 0 OBVIOUS
  <2>2. 0 % WORD = 0 BY <1>0
  <2> QED BY <2>1, <2>2
<1> HIDE DEF n, Step
<1> DEFINE S == {j \in 0 .. k : f[j] = 0}
           U == {j \in 0 .. n : f[k + j] = e[j]}
<1>4. f[k] = 0
  <2>1. 0 \in S BY <1>2
  <2>2. ASSUME NEW j \in 1 .. k, j - 1 \in S PROVE j \in S
    <3>1. j \in 1 .. Len(z) /\ z[j] = 0 BY <1>0 DEF n
    <3>2. f[j] = Step(f[j - 1], z[j]) BY <3>1, <1>2
    <3>3. f[j - 1] = 0 BY <2>2
    <3>4. f[j] = 0 BY <3>1, <3>2, <3>3, <1>3, Zenon
    <3> QED BY <3>4
  <2>3. 0 .. k \subseteq S
    <3> HIDE DEF S
    <3> QED BY <2>1, <2>2, Induction
  <2> QED BY <2>3
<1>5. 0 \in U BY <1>0, <1>1, <1>4
<1>6. ASSUME NEW j \in 1 .. n, j - 1 \in U PROVE j \in U
  <2>1. k + j \in 1 .. Len(z) /\ z[k + j] = t[j] /\ (k + j) - 1 = k + (j - 1)
    BY <1>0 DEF n
  <2>2. f[k + j] = Step(f[(k + j) - 1], z[k + j]) BY <2>1, <1>2
  <2>3. f[k + (j - 1)] = e[j - 1] BY <1>6
  <2>4. e[j] = Step(e[j - 1], t[j]) BY <1>1
  <2>5. f[k + j] = e[j] BY <2>1, <2>2, <2>3, <2>4, Zenon
  <2> QED BY <2>5
<1>7. n \in U
  <2>1. 0 .. n \subseteq U
    <3> HIDE DEF U
    <3> QED BY <1>0, <1>5, <1>6, Induction
  <2> HIDE DEF U
  <2> QED BY <2>1, <1>0
<1> QED BY <1>1, <1>2, <1>7 DEF n

\* The digits of a number, read again, are the number.
LEMMA DigitsOfNumber ==
  ASSUME NEW n \in Nat, NEW radix \in {2, 8, 10, 16}
  PROVE  LET digits == put_number(n, radix)
         IN /\ digits \in Seq(0 .. radix - 1) /\ digits # <<>>
            /\ n < WORD => Accumulate(digits, radix) = n
<1> DEFINE Body(f, m) == IF m < radix THEN <<m>>
                         ELSE Append(f[m \div radix], m % radix)
           Digits(f, k) == f = [m \in 0 .. k |-> Body(f, m)]
           Good(d, m) == /\ d \in Seq(0 .. radix - 1) /\ d # <<>>
                         /\ m < WORD => Accumulate(d, radix) = m
           S == {k \in 0 .. n : \E f : Digits(f, k)}
<1>0. \A m \in Nat : m >= radix =>
        /\ m \div radix \in 0 .. m - 1 /\ m % radix \in 0 .. radix - 1
        /\ (m \div radix) * radix + (m % radix) = m
  <2> TAKE m \in Nat
  <2> HAVE m >= radix
  <2>1. CASE radix = 2 BY <2>1
  <2>2. CASE radix = 8 BY <2>2
  <2>3. CASE radix = 10 BY <2>3
  <2>4. CASE radix = 16 BY <2>4
  <2> QED BY <2>1, <2>2, <2>3, <2>4
<1>1. 0 \in S
  <2>1. Digits([m \in 0 .. 0 |-> <<m>>], 0) OBVIOUS
  <2> HIDE DEF Digits
  <2>2. \E f : Digits(f, 0) BY <2>1
  <2> QED BY <2>2
<1>2. ASSUME NEW k \in 1 .. n, k - 1 \in S PROVE k \in S
  <2>1. PICK f : Digits(f, k - 1)
    <3> HIDE DEF Digits
    <3> QED BY <1>2
  <2> DEFINE g == [m \in 0 .. k |-> Body(f, m)]
  <2>2. ASSUME NEW m \in 0 .. k PROVE Body(g, m) = Body(f, m)
    <3>1. CASE m < radix BY <3>1
    <3>2. CASE ~(m < radix)
      <4> DEFINE q == m \div radix
      <4>1. q \in 0 .. k - 1 /\ q \in 0 .. k BY <3>2, <1>0
      <4>2. f[q] = Body(f, q)
        <5> HIDE DEF q, Body
        <5> QED BY <4>1, <2>1
      <4>3. g[q] = Body(f, q)
        <5> HIDE DEF q, Body
        <5> QED BY <4>1
      <4>4. g[q] = f[q]
        <5> HIDE DEF Body, g, q
        <5> QED BY <4>2, <4>3
      <4>5. Body(g, m) = Append(g[q], m % radix) /\ Body(f, m) = Append(f[q], m % radix)
        <5> HIDE DEF g
        <5> QED BY <3>2
      <4> HIDE DEF Body, g, q
      <4> QED BY <4>4, <4>5, Zenon
    <3> QED BY <3>1, <3>2
  <2>3. Digits(g, k)
    <3> HIDE DEF Body
    <3> QED BY <2>2, Zenon
  <2> HIDE DEF Digits, g
  <2>4. \E h : Digits(h, k) BY <2>3
  <2> QED BY <2>4
<1>3. PICK f : Digits(f, n) /\ put_number(n, radix) = f[n]
  <2>1. \E f : Digits(f, n)
    <3>1. 0 .. n \subseteq S
      <4> HIDE DEF S
      <4> QED BY <1>1, <1>2, Induction
    <3> HIDE DEF Digits
    <3> QED BY <3>1
  <2>2. put_number(n, radix) = (CHOOSE f : Digits(f, n))[n]
    BY Zenon DEF put_number
  <2> HIDE DEF Digits
  <2>3. Digits(CHOOSE f : Digits(f, n), n)
    BY <2>1, Zenon
  <2> QED BY <2>2, <2>3
<1>4. \A m \in 0 .. n : f[m] = Body(f, m)
  <2> HIDE DEF Body
  <2> QED BY <1>3
<1> DEFINE V == {k \in 0 .. n : \A m \in 0 .. k : Good(f[m], m)}
<1>5. ASSUME NEW m \in 0 .. n, m < radix PROVE Good(f[m], m)
  <2>1. f[m] = <<m>> BY <1>5, <1>4
  <2>2. <<m>> \in Seq(0 .. radix - 1) /\ <<m>> # <<>> BY <1>5
  <2>3. m < WORD => Accumulate(<<m>>, radix) = m
    <3>1. <<>> \in Seq(Nat) /\ m \in Nat /\ radix \in Nat /\ <<m>> = Append(<<>>, m)
      OBVIOUS
    <3>2. Accumulate(<<m>>, radix) = (0 * radix + m) % WORD
      BY <3>1, AccumulateNothing, AccumulateAppend
    <3>3. 0 * radix + m = m /\ (m < WORD => m % WORD = m)
      BY NumbersAssumption
    <3> QED BY <3>2, <3>3
  <2> HIDE DEF Body
  <2> QED BY <2>1, <2>2, <2>3
<1>6. ASSUME NEW k \in 1 .. n, k - 1 \in V PROVE k \in V
  <2>1. Good(f[k], k)
    <3>1. CASE k < radix BY <3>1, <1>5
    <3>2. CASE ~(k < radix)
      <4> DEFINE q == k \div radix
                 c == k % radix
      <4>1. q \in 0 .. k - 1 /\ c \in 0 .. radix - 1 /\ q * radix + c = k
        BY <3>2, <1>0
      <4>2. f[k] = Append(f[q], c)
        <5>1. Body(f, k) = Append(f[q], c) BY <3>2
        <5> HIDE DEF Body
        <5>2. f[k] = Body(f, k) BY <1>4
        <5> QED BY <5>1, <5>2, Zenon
      <4> HIDE DEF q, c, Body
      <4>3. Good(f[q], q)
        <5> HIDE DEF Good
        <5> QED BY <4>1, <1>6
      <4>4. f[q] \in Seq(0 .. radix - 1) /\ (q < WORD => Accumulate(f[q], radix) = q)
        BY <4>3
      <4>5. f[k] \in Seq(0 .. radix - 1) /\ f[k] # <<>>
        <5> DEFINE R == 0 .. radix - 1
                   d == f[q]
        <5>1. d \in Seq(R) /\ c \in R BY <4>1, <4>4
        <5> HIDE DEF R, d
        <5>2. Append(d, c) \in Seq(R) BY <5>1
        <5>3. Append(d, c) # <<>>
          <6>1. Len(Append(d, c)) = Len(d) + 1 /\ Len(d) \in Nat BY <5>1
          <6>2. Len(<<>>) = 0 OBVIOUS
          <6> HIDE DEF d
          <6> QED BY <6>1, <6>2
        <5> QED BY <5>2, <5>3, <4>2 DEF R, d
      <4>6. k < WORD => Accumulate(f[k], radix) = k
        <5> SUFFICES ASSUME k < WORD PROVE Accumulate(f[k], radix) = k
          OBVIOUS
        <5>1. q < WORD BY <4>1, NumbersAssumption
        <5>2. f[q] \in Seq(Nat) /\ c \in Nat /\ radix \in Nat BY <4>1, <4>4
        <5>3. Accumulate(f[k], radix) = (q * radix + c) % WORD
          BY <4>2, <4>4, <5>1, <5>2, AccumulateAppend
        <5>4. k % WORD = k BY NumbersAssumption
        <5> QED BY <4>1, <5>3, <5>4
      <4> QED BY <4>5, <4>6
    <3> QED BY <3>1, <3>2
  <2> HIDE DEF Good
  <2>2. \A m \in 0 .. k : m = k \/ m \in 0 .. k - 1 OBVIOUS
  <2> QED BY <2>1, <2>2, <1>6
<1>7. 0 \in V
  <2>1. 0 < radix /\ \A m \in 0 .. 0 : m = 0 OBVIOUS
  <2> HIDE DEF Good
  <2> QED BY <2>1, <1>5
<1>8. n \in V
  <2>1. 0 .. n \subseteq V
    <3> HIDE DEF V
    <3> QED BY <1>6, <1>7, Induction
  <2> HIDE DEF V
  <2> QED BY <2>1
<1> QED BY <1>3, <1>8

-----------------------------------------------------------------------------
(* Reading.                                                                *)

\* What is left of a text behind n characters.
LEMMA DropIs ==
  ASSUME NEW t \in Seq(Nat), NEW n \in 0 .. Len(t)
  PROVE  /\ Drop(t, n) \in Seq(Nat) /\ Len(Drop(t, n)) = Len(t) - n
         /\ \A k \in 1 .. Len(t) - n : Drop(t, n)[k] = t[n + k]
<1> DEFINE l == Len(t)
<1>1. l \in Nat /\ \A k \in 1 .. l : t[k] \in Nat OBVIOUS
<1>2. Drop(t, n) = SubSeq(t, n + 1, l) BY DEF Drop
<1> HIDE DEF l
<1>3. n \in 0 .. l BY DEF l
<1>4. \A k \in n + 1 .. l : t[k] \in Nat BY <1>1, <1>3
<1>5. n + 1 \in Int /\ l \in Int BY <1>1, <1>3
<1>6. /\ SubSeq(t, n + 1, l) \in Seq(Nat)
      /\ Len(SubSeq(t, n + 1, l)) = IF n + 1 <= l THEN l - (n + 1) + 1 ELSE 0
      /\ \A k \in 1 .. l - (n + 1) + 1 : SubSeq(t, n + 1, l)[k] = t[(n + 1) + k - 1]
  BY <1>4, <1>5, SubSeqProperties
<1>7. (IF n + 1 <= l THEN l - (n + 1) + 1 ELSE 0) = l - n /\ l - (n + 1) + 1 = l - n
  BY <1>1, <1>3
<1>8. \A k \in 1 .. l - n : (n + 1) + k - 1 = n + k
  BY <1>1, <1>3
<1> HIDE DEF Drop
<1>9. Len(Drop(t, n)) = l - n BY <1>2, <1>6, <1>7
<1>10. \A k \in 1 .. l - n : Drop(t, n)[k] = t[n + k]
  BY <1>2, <1>6, <1>7, <1>8
<1> QED BY <1>2, <1>6, <1>9, <1>10 DEF l

\* Two texts of one length and with the same characters are one.
LEMMA SameText ==
  ASSUME NEW s \in Seq(Nat), NEW t \in Seq(Nat), Len(s) = Len(t),
         \A k \in 1 .. Len(s) : s[k] = t[k]
  PROVE  s = t
BY SeqEqual

\* Behind n characters and k more.
LEMMA DropDrop ==
  ASSUME NEW t \in Seq(Nat), NEW n \in 0 .. Len(t), NEW k \in 0 .. Len(t) - n
  PROVE  Drop(Drop(t, n), k) = Drop(t, n + k)
<1> DEFINE d == Drop(t, n)
           a == Drop(d, k)
           b == Drop(t, n + k)
<1>0. Len(t) \in Nat OBVIOUS
<1>1. d \in Seq(Nat) /\ Len(d) = Len(t) - n /\ \A j \in 1 .. Len(t) - n : d[j] = t[n + j]
  BY DropIs
<1> HIDE DEF d
<1>2. k \in 0 .. Len(d) BY <1>1
<1>3. a \in Seq(Nat) /\ Len(a) = Len(d) - k /\ \A j \in 1 .. Len(d) - k : a[j] = d[k + j]
  BY <1>1, <1>2, DropIs
<1>4. n + k \in 0 .. Len(t) BY <1>0
<1>5. /\ b \in Seq(Nat) /\ Len(b) = Len(t) - (n + k)
      /\ \A j \in 1 .. Len(t) - (n + k) : b[j] = t[n + k + j]
  BY <1>4, DropIs
<1> HIDE DEF a, b
<1>6. Len(a) = Len(b) BY <1>0, <1>1, <1>3, <1>5
<1>7. ASSUME NEW j \in 1 .. Len(a) PROVE a[j] = b[j]
  <2> DEFINE l == Len(t)
  <2>1. Len(a) = l - n - k BY <1>1, <1>3
  <2> HIDE DEF l
  <2>2. /\ j \in 1 .. l - (n + k) /\ k + j \in 1 .. l - n /\ n + (k + j) = n + k + j
        /\ j \in 1 .. (l - n) - k
    BY <2>1, <1>0 DEF l
  <2>3. a[j] = d[k + j] BY <2>2, <1>1, <1>3 DEF l
  <2>4. d[k + j] = t[n + (k + j)] BY <2>2, <1>1 DEF l
  <2>5. b[j] = t[n + k + j] BY <2>2, <1>5 DEF l
  <2> QED BY <2>2, <2>3, <2>4, <2>5
<1>8. a = b BY <1>3, <1>5, <1>6, <1>7, SameText
<1> QED BY <1>8 DEF a, b, d

\* All but the first character.
LEMMA TailIsDrop ==
  ASSUME NEW t \in Seq(Nat), Len(t) > 0
  PROVE  Tail(t) = Drop(t, 1)
<1>1. t # <<>> OBVIOUS
<1>2. Tail(t) = SubSeq(t, 2, Len(t)) BY <1>1, TailIsSubSeq
<1> QED BY <1>2 DEF Drop

\* Behind no character is the whole text.
LEMMA DropNothing ==
  ASSUME NEW t \in Seq(Nat)
  PROVE  Drop(t, 0) = t
BY SubSeqFull DEF Drop

\* n blanks in front are skipped.
LEMMA BlanksSkipped ==
  ASSUME NEW t \in Seq(Nat), NEW n \in 0 .. Len(t) - 1,
         \A k \in 1 .. n : t[k] = Space, t[n + 1] # Space
  PROVE  SkipSpaces(t) = Drop(t, n)
<1> DEFINE I == {k \in 1 .. Len(t) : t[k] # Space}
<1>1. Len(t) \in Nat OBVIOUS
<1>2. n + 1 \in I /\ I \subseteq Nat BY <1>1
<1>3. \A k \in I : n + 1 <= k
  <2> SUFFICES ASSUME NEW k \in 1 .. Len(t), t[k] # Space, k < n + 1 PROVE FALSE
    BY <1>1
  <2>1. k \in 1 .. n BY <1>1
  <2> QED BY <2>1
<1>4. SelectInSeq(t, LAMBDA c : c # Space) = IF I # {} THEN Min(I) ELSE 0
  BY Zenon DEF SelectInSeq
<1> HIDE DEF I
<1>5. Min(I) \in I /\ \A y \in I : Min(I) <= y
  BY <1>2, MinIsLeast
<1>6. Min(I) = n + 1
  <2> DEFINE m == Min(I)
  <2>1. m \in Nat /\ n + 1 <= m /\ m <= n + 1 BY <1>2, <1>3, <1>5
  <2> HIDE DEF m
  <2>2. m = n + 1 BY <2>1, <1>1
  <2> QED BY <2>2 DEF m
<1>7. SelectInSeq(t, LAMBDA c : c # Space) = n + 1 BY <1>2, <1>4, <1>6
<1>8. n + 1 # 0 /\ (n + 1) - 1 = n BY <1>1
<1>9. SkipSpaces(t) = IF n + 1 = 0 THEN <<Before>> \o t ELSE Drop(t, (n + 1) - 1)
  BY <1>7, Zenon DEF SkipSpaces
<1> QED BY <1>8, <1>9

\* Without anything else, the view begins in front of the text.
LEMMA OnlyBlanks ==
  ASSUME NEW t \in Seq(Nat), \A k \in 1 .. Len(t) : t[k] = Space
  PROVE  SkipSpaces(t) = <<Before>> \o t
<1> DEFINE I == {k \in 1 .. Len(t) : t[k] # Space}
<1>1. I = {} OBVIOUS
<1>2. SelectInSeq(t, LAMBDA c : c # Space) = IF I # {} THEN Min(I) ELSE 0
  BY Zenon DEF SelectInSeq
<1> HIDE DEF I
<1>3. SelectInSeq(t, LAMBDA c : c # Space) = 0 BY <1>1, <1>2
<1>4. SkipSpaces(t) = IF 0 = 0 THEN <<Before>> \o t ELSE Drop(t, 0 - 1)
  BY <1>3, Zenon DEF SkipSpaces
<1> QED BY <1>4

ValueOfChar(c) == IF c = BigB THEN B ELSE c

HasValues(d, t) == /\ d \in Seq(Nat) /\ Len(d) = Len(t)
                   /\ \A k \in 1 .. Len(t) : d[k] = ValueOfChar(t[k])

\* The values of a text.
LEMMA ValuesAre ==
  ASSUME NEW t \in Seq(Nat)
  PROVE  HasValues(Values(t), t)
<1>1. Values(t) = [k \in 1 .. Len(t) |-> ValueOfChar(t[k])]
  BY Zenon DEF Values, ValueOfChar
<1>2. \A k \in 1 .. Len(t) : ValueOfChar(t[k]) \in Nat
  BY DEF ValueOfChar, B
<1> QED BY <1>1, <1>2 DEF HasValues

\* Without a capital B they are the characters.
LEMMA ValuesAreTheText ==
  ASSUME NEW t \in Seq(Nat), \A k \in 1 .. Len(t) : t[k] # BigB
  PROVE  Values(t) = t
<1>1. \A k \in 1 .. Len(t) : Values(t)[k] = t[k]
  BY ValuesAre DEF ValueOfChar, HasValues
<1> QED BY <1>1, ValuesAre, SameText DEF HasValues

\* A digit of a base up to ten keeps its value, and a letter remains one.
LEMMA ValueOfCharIs ==
  ASSUME NEW c \in Nat, NEW v, v = ValueOfChar(c)
  PROVE  /\ v \in Nat /\ v <= c
         /\ v < 11 => v = c
         /\ c >= 10 => v >= 10
BY DEF ValueOfChar, BigB, B

\* A value of a type is left alone by the conversion to it.
LEMMA InTypeKeeps ==
  ASSUME NEW isSigned \in BOOLEAN, NEW v \in ValuesOf(isSigned)
  PROVE  InType(v, isSigned) = v
<1> DEFINE h == WORD \div 2
<1>1. WORD \in Nat \ {0} /\ h \in Nat /\ WORD = h + h
  BY NumbersAssumption
<1> HIDE DEF h
<1>2. CASE v \in 0 .. WORD - 1
  <2>1. v % WORD = v BY <1>1, <1>2
  <2>2. isSigned => v < h BY <1>1 DEF ValuesOf, h
  <2> QED BY <1>1, <1>2, <2>1, <2>2 DEF InType, h
<1>3. CASE v \notin 0 .. WORD - 1
  <2>1. isSigned /\ v \in -h .. -1 BY <1>1, <1>3 DEF ValuesOf, h
  <2>2. v + WORD \in 0 .. WORD - 1 /\ v = WORD * (-1) + (v + WORD) BY <1>1, <2>1
  <2>3. v % WORD = v + WORD BY <1>1, <2>1, <2>2
  <2>4. v % WORD >= h BY <1>1, <2>1, <2>3
  <2> QED BY <1>1, <2>1, <2>3, <2>4 DEF InType, h
<1> QED BY <1>2, <1>3

\* The conversion to a type yields a value of it, the same modulo the word.
LEMMA InTypeIs ==
  ASSUME NEW isSigned \in BOOLEAN, NEW n \in Int
  PROVE  InType(n, isSigned) \in ValuesOf(isSigned) /\ InType(n, isSigned) % WORD = n % WORD
<1> DEFINE h == WORD \div 2
           r == n % WORD
<1>1. WORD \in Nat \ {0} /\ h \in Nat /\ WORD = h + h
  BY NumbersAssumption
<1>2. r \in 0 .. WORD - 1
  <2>1. \A z \in Int : z % WORD \in 0 .. WORD - 1 BY <1>1
  <2> QED BY <2>1
<1>3. InType(n, isSigned) = IF isSigned /\ r >= h THEN r - WORD ELSE r
  BY Zenon DEF InType
<1> HIDE DEF r, h
<1>4. r % WORD = r BY <1>1, <1>2
<1>5. (r - WORD) % WORD = r
  <2>1. r - WORD = WORD * (-1) + r BY <1>1, <1>2
  <2> QED BY <1>1, <1>2, <2>1
<1>6. InType(n, isSigned) % WORD = r
  BY <1>3, <1>4, <1>5
<1>7. CASE isSigned /\ r >= h
  <2>1. InType(n, isSigned) = r - WORD BY <1>3, <1>7
  <2>2. r - WORD \in -h .. h - 1 BY <1>1, <1>2, <1>7
  <2> QED BY <1>6, <1>7, <2>1, <2>2 DEF ValuesOf, h, r
<1>8. CASE ~ (isSigned /\ r >= h)
  <2>1. InType(n, isSigned) = r BY <1>3, <1>8
  <2>2. isSigned => r \in -h .. h - 1 BY <1>1, <1>2, <1>8
  <2> QED BY <1>2, <1>6, <2>1, <2>2 DEF ValuesOf, h, r
<1> QED BY <1>7, <1>8

\* What is printed of a value, without its sign, is its magnitude.
LEMMA MagnitudeIs ==
  ASSUME NEW isSigned \in BOOLEAN, NEW v \in ValuesOf(isSigned)
  PROVE  /\ Magnitude(v) = IF v < 0 THEN -v ELSE v
         /\ v \in Int /\ Magnitude(v) \in Nat /\ Magnitude(v) < WORD
         /\ v < 0 => isSigned
<1> DEFINE h == WORD \div 2
<1>1. WORD \in Nat \ {0} /\ h \in Nat /\ WORD = h + h
  BY NumbersAssumption
<1> HIDE DEF h
<1>2. v \in Int /\ (v < 0 => isSigned /\ -v \in 1 .. h) /\ (v >= 0 => v < WORD)
  BY <1>1 DEF ValuesOf, h
<1>3. CASE v < 0
  <2>1. InType(-v, TRUE) % WORD = (-v) % WORD
    <3>1. TRUE \in BOOLEAN /\ -v \in Int BY <1>2
    <3> QED BY <3>1, InTypeIs, Zenon
  <2>2. (-v) % WORD = -v BY <1>1, <1>2, <1>3
  <2>3. Magnitude(v) = InType(-v, TRUE) % WORD BY <1>3, Zenon DEF Magnitude
  <2>4. Magnitude(v) = -v BY <2>1, <2>2, <2>3, Zenon
  <2> QED BY <1>1, <1>2, <1>3, <2>4
<1>4. CASE ~ (v < 0)
  BY <1>1, <1>2, <1>4 DEF Magnitude
<1> QED BY <1>3, <1>4

(* What string_to_integral() does, step by step.                           *)
NumberOf(sv, negative) == IF negative THEN Tail(sv) ELSE sv
DigitsOf(number) == Values(IF Base(number) = 10 THEN number ELSE Drop(number, 2))
Okay(digits, base, negative, isSigned) ==
  <<"ok", InType(IF negative THEN -Accumulate(digits, base)
                 ELSE Accumulate(digits, base), isSigned)>>
Outcome(digits, base, negative, isSigned) ==
  IF digits = <<>> THEN <<"empty", 0>>
  ELSE IF \E k \in 1 .. Len(digits) : digits[k] >= base
  THEN <<"invalid_character", 0>>
  ELSE Okay(digits, base, negative, isSigned)

\* For the reader: its parts are named, and the outcome is told from them.
LEMMA ReadInSteps ==
  ASSUME NEW t, NEW isSigned, NEW sv, NEW negative, NEW number,
         sv = SkipSpaces(t), negative = (isSigned /\ sv[1] = Minus),
         number = NumberOf(sv, negative)
  PROVE  string_to_integral(t, isSigned)
           = Outcome(DigitsOf(number), Base(number), negative, isSigned)
BY Zenon DEF string_to_integral, Outcome, Okay, DigitsOf, NumberOf

(* A text spells a number: n blanks, a minus if it is negative, the prefix *)
(* of the base, and digits, behind m characters.                           *)
Layout(t, n, negative, base, m) ==
  /\ m = n + (IF negative THEN 1 ELSE 0) + (IF base = 10 THEN 0 ELSE 2)
  /\ m < Len(t)
  /\ \A k \in 1 .. n : t[k] = Space
  /\ negative => t[n + 1] = Minus
  /\ base = 16 => t[m - 1] = 0 /\ t[m] = X
  /\ base = 2 => t[m - 1] = 0 /\ t[m] = B
  /\ \A k \in m + 1 .. Len(t) : ValueOfChar(t[k]) < base

\* Then that number is read.
LEMMA LayoutIsRead ==
  ASSUME NEW t \in Seq(Nat), NEW n \in Nat, NEW m \in Nat,
         NEW negative \in BOOLEAN, NEW base \in {2, 10, 16}, NEW isSigned \in BOOLEAN,
         negative => isSigned, Layout(t, n, negative, base, m)
  PROVE  string_to_integral(t, isSigned)
           = Okay(Values(Drop(t, m)), base, negative, isSigned)
<1> DEFINE l == Len(t)
           s == IF negative THEN 1 ELSE 0
           p == IF base = 10 THEN 0 ELSE 2
           sv == Drop(t, n)
           number == Drop(t, n + s)
           rest == Drop(t, m)
           digits == Values(rest)
<1>0. l \in Nat /\ m = n + s + p /\ m < l /\ s \in Nat /\ p \in Nat /\ s \in {0, 1}
  BY DEF Layout
<1>1. t[n + 1] # Space /\ (t[n + 1] = Minus <=> negative)
  <2>1. CASE negative BY <2>1 DEF Layout, Space, Minus
  <2>2. CASE ~negative /\ base = 10
    <3>1. n + 1 \in m + 1 .. Len(t) BY <2>2, <1>0
    <3>2. ValueOfChar(t[n + 1]) < 10 BY <2>2, <3>1 DEF Layout
    <3>3. t[n + 1] \in Nat BY <1>0, <3>1
    <3> DEFINE c == t[n + 1]
               v == ValueOfChar(c)
    <3>c. c \in Nat /\ v < 10 BY <3>2, <3>3
    <3>v. v = ValueOfChar(c) OBVIOUS
    <3> HIDE DEF c, v
    <3>d. c < 10 /\ c \in Nat BY <3>c, <3>v, ValueOfCharIs
    <3>4. t[n + 1] # Space /\ t[n + 1] # Minus BY <3>d DEF c, Space, Minus
    <3> QED BY <2>2, <3>4
  <2>3. CASE ~negative /\ base # 10
    <3>1. n + 1 = m - 1 BY <2>3, <1>0
    <3>2. t[m - 1] = 0 BY <2>3 DEF Layout
    <3> QED BY <2>3, <3>1, <3>2 DEF Space, Minus
  <2> QED BY <2>1, <2>2, <2>3
<1> HIDE DEF l, s, p
<1>2. SkipSpaces(t) = sv
  <2>1. n \in 0 .. Len(t) - 1 BY <1>0 DEF l
  <2> QED BY <2>1, <1>1, BlanksSkipped DEF Layout
<1>3. sv \in Seq(Nat) /\ Len(sv) = l - n /\ sv[1] = t[n + 1]
  <2>1. n \in 0 .. Len(t) /\ 1 \in 1 .. Len(t) - n BY <1>0 DEF l
  <2> QED BY <2>1, DropIs DEF l
<1>4. negative = (isSigned /\ sv[1] = Minus)
  <2> HIDE DEF sv
  <2> QED BY <1>1, <1>3
<1>5. NumberOf(sv, negative) = number
  <2>1. CASE negative
    <3>1. s = 1 BY <2>1 DEF s
    <3>2. n \in 0 .. Len(t) /\ 1 \in 0 .. Len(t) - n BY <1>0 DEF l
    <3>3. Drop(sv, 1) = Drop(t, n + 1) BY <3>2, DropDrop
    <3> HIDE DEF sv
    <3>4. Len(sv) > 0 BY <1>0, <1>3
    <3>5. Tail(sv) = Drop(sv, 1) BY <3>4, <1>3, TailIsDrop
    <3> QED BY <2>1, <3>1, <3>3, <3>5 DEF NumberOf
  <2>2. CASE ~negative
    <3>1. n + s = n BY <2>2 DEF s
    <3> QED BY <2>2, <3>1 DEF NumberOf
  <2> QED BY <2>1, <2>2
<1>6. /\ number \in Seq(Nat) /\ Len(number) = l - (n + s)
      /\ \A k \in 1 .. l - (n + s) : number[k] = t[(n + s) + k]
  <2>1. n + s \in 0 .. Len(t) BY <1>0 DEF l
  <2> QED BY <2>1, DropIs DEF l
<1>7. Base(number) = base
  <2> HIDE DEF number
  <2>0. p = IF base = 10 THEN 0 ELSE 2 BY DEF p
  <2>1. CASE base = 10
    <3>1. ASSUME Len(number) >= 2 PROVE number[2] < 10 /\ number[2] \in Nat
      <4>1. (n + s) + 2 \in m + 1 .. l /\ 2 \in 1 .. l - (n + s)
        BY <1>0, <1>6, <3>1, <2>1, <2>0
      <4>2. number[2] = t[(n + s) + 2] BY <4>1, <1>6
      <4>3. ValueOfChar(t[(n + s) + 2]) < base BY <4>1 DEF Layout, l
      <4>4. 2 \in 1 .. Len(number) BY <4>1, <1>6
      <4>5. number[2] \in Nat BY <4>4, <1>6
      <4> DEFINE c == number[2]
                 v == ValueOfChar(c)
      <4>c. c \in Nat /\ v < 10 BY <4>2, <4>3, <4>5, <2>1, Zenon
      <4>v. v = ValueOfChar(c) OBVIOUS
      <4> HIDE DEF c, v
      <4>d. c < 10 /\ c \in Nat BY <4>c, <4>v, ValueOfCharIs
      <4> QED BY <4>d DEF c
    <3> QED BY <3>1, <2>1 DEF Base, StartsWith, X, B
  <2>2. CASE base # 10
    <3>1. /\ 1 \in 1 .. l - (n + s) /\ 2 \in 1 .. l - (n + s)
          /\ (n + s) + 1 = m - 1 /\ (n + s) + 2 = m
      BY <1>0, <2>2, <2>0
    <3>2. number[1] = t[m - 1] /\ number[2] = t[m] /\ Len(number) >= 2
      BY <3>1, <1>6, <1>0
    <3>3. t[m - 1] = 0 /\ t[m] = IF base = 16 THEN X ELSE B
      BY <2>2 DEF Layout
    <3> QED BY <3>2, <3>3, <2>2 DEF Base, StartsWith, X, B
  <2> QED BY <2>1, <2>2
<1>8. DigitsOf(number) = digits
  <2>0. p = IF base = 10 THEN 0 ELSE 2 BY DEF p
  <2>1. CASE base = 10
    <3>1. n + s = m BY <2>0, <2>1, <1>0
    <3>2. number = rest BY <3>1
    <3> HIDE DEF number, rest
    <3> QED BY <1>7, <2>1, <3>2 DEF DigitsOf
  <2>2. CASE base # 10
    <3>1. n + s \in 0 .. Len(t) /\ 2 \in 0 .. Len(t) - (n + s) /\ (n + s) + 2 = m
      BY <1>0, <2>2, <2>0 DEF l
    <3>2. Drop(number, 2) = Drop(t, (n + s) + 2) BY <3>1, DropDrop
    <3>3. Drop(number, 2) = rest BY <3>1, <3>2
    <3> HIDE DEF number, rest
    <3> QED BY <1>7, <2>2, <3>3 DEF DigitsOf
  <2> QED BY <2>1, <2>2
<1>9. digits # <<>> /\ \A k \in 1 .. Len(digits) : ~ (digits[k] >= base)
  <2>1. m \in 0 .. Len(t) BY <1>0 DEF l
  <2>a. /\ rest \in Seq(Nat) /\ Len(rest) = l - m
        /\ \A k \in 1 .. l - m : rest[k] = t[m + k]
    BY <2>1, DropIs DEF l
  <2> HIDE DEF rest
  <2>2. /\ digits \in Seq(Nat) /\ Len(digits) = l - m
        /\ \A k \in 1 .. l - m : digits[k] = ValueOfChar(t[m + k])
    <3>1. HasValues(digits, rest) BY <2>a, ValuesAre
    <3> HIDE DEF digits
    <3> QED BY <2>a, <3>1 DEF HasValues
  <2> HIDE DEF digits
  <2>3. digits # <<>> BY <2>2, <1>0
  <2>4. ASSUME NEW k \in 1 .. Len(digits) PROVE ~ (digits[k] >= base)
    <3>1. m + k \in m + 1 .. Len(t) /\ k \in 1 .. l - m BY <2>2, <1>0 DEF l
    <3>2. ValueOfChar(t[m + k]) < base BY <3>1 DEF Layout
    <3>3. digits[k] = ValueOfChar(t[m + k]) /\ digits[k] \in Nat BY <3>1, <2>2
    <3> QED BY <3>2, <3>3
  <2> QED BY <2>3, <2>4
<1> HIDE DEF sv, number, rest, digits
<1>10. string_to_integral(t, isSigned) = Outcome(digits, base, negative, isSigned)
  <2>1. string_to_integral(t, isSigned)
          = Outcome(DigitsOf(number), Base(number), negative, isSigned)
    BY <1>2, <1>4, <1>5, ReadInSteps
  <2> QED BY <2>1, <1>7, <1>8
<1>11. Outcome(digits, base, negative, isSigned) = Okay(digits, base, negative, isSigned)
  BY <1>9, Zenon DEF Outcome
<1> QED BY <1>10, <1>11, Zenon DEF digits, rest

-----------------------------------------------------------------------------
(* Printing.                                                               *)

\* n copies of a character, and none when n is negative.
LEMMA RepeatIs ==
  ASSUME NEW n \in Int, NEW c \in Nat
  PROVE  /\ Repeat(n, c) \in Seq(Nat) /\ Len(Repeat(n, c)) = (IF n > 0 THEN n ELSE 0)
         /\ \A k \in 1 .. Len(Repeat(n, c)) : Repeat(n, c)[k] = c
BY DEF Repeat

(* The parts of what kprint_integral() puts out.                           *)
SignOf(v, o) == IF v < 0 THEN <<Minus>> ELSE IF o.sign = NoSign THEN <<>> ELSE <<o.sign>>
PrefixOf(v, o) == IF o.printType THEN put_type(v = 0, o.type) ELSE <<>>
DigitsFor(v, o) == put_number(Magnitude(v), o.type)
Fill(v, o) == o.width - Len(SignOf(v, o)) - Len(PrefixOf(v, o)) - Len(DigitsFor(v, o))

\* What is printed, told from its parts.
LEMMA PrintedInParts ==
  ASSUME NEW v \in Int, NEW o
  PROVE  kprint_integral(v, o)
           = IF o.justifyLeft
             THEN SignOf(v, o) \o PrefixOf(v, o) \o DigitsFor(v, o) \o Repeat(Fill(v, o), Space)
             ELSE IF o.pad = Space
                  THEN Repeat(Fill(v, o), Space) \o SignOf(v, o) \o PrefixOf(v, o) \o DigitsFor(v, o)
                  ELSE SignOf(v, o) \o PrefixOf(v, o) \o Repeat(Fill(v, o), o.pad) \o DigitsFor(v, o)
BY Zenon DEF kprint_integral, SignOf, PrefixOf, DigitsFor, Fill

(* Options of any width.                                                   *)
Legal == [width : Nat, sign : {NoSign, Space, Plus}, pad : {0, Space},
          justifyLeft : BOOLEAN, printType : BOOLEAN, type : {2, 8, 10, 16}]

\* The options of a format are among those with a width of any size.
LEMMA OptionsAreLegal == Options \subseteq Legal
BY NumbersAssumption DEF Options, Legal

\* The sign, the prefix and the digits are texts.
LEMMA PartsAreTexts ==
  ASSUME NEW v \in Int, NEW o \in Legal
  PROVE  /\ SignOf(v, o) \in Seq(Nat) /\ PrefixOf(v, o) \in Seq(Nat)
         /\ DigitsFor(v, o) \in Seq(0 .. o.type - 1) /\ DigitsFor(v, o) \in Seq(Nat)
         /\ DigitsFor(v, o) # <<>>
         /\ Magnitude(v) < WORD => Accumulate(DigitsFor(v, o), o.type) = Magnitude(v)
         /\ Fill(v, o) \in Int
<1>1. o.type \in {2, 8, 10, 16} /\ o.sign \in {NoSign, Space, Plus} /\ o.width \in Nat
  BY DEF Legal
<1>2. Magnitude(v) \in Nat
  <2>1. CASE v < 0
    <3>1. WORD \in Nat \ {0} BY NumbersAssumption
    <3>2. InType(-v, TRUE) % WORD = (-v) % WORD
      <4>1. TRUE \in BOOLEAN /\ -v \in Int OBVIOUS
      <4> QED BY <4>1, InTypeIs, Zenon
    <3>3. \A z \in Int : z % WORD \in Nat BY <3>1
    <3>4. Magnitude(v) = InType(-v, TRUE) % WORD BY <2>1, Zenon DEF Magnitude
    <3>5. Magnitude(v) = (-v) % WORD BY <3>2, <3>4, Zenon
    <3> QED BY <3>3, <3>5
  <2>2. CASE ~ (v < 0) BY <2>2 DEF Magnitude
  <2> QED BY <2>1, <2>2
<1>3. /\ DigitsFor(v, o) \in Seq(0 .. o.type - 1) /\ DigitsFor(v, o) # <<>>
      /\ Magnitude(v) < WORD => Accumulate(DigitsFor(v, o), o.type) = Magnitude(v)
  BY <1>1, <1>2, DigitsOfNumber DEF DigitsFor
<1>4. DigitsFor(v, o) \in Seq(Nat)
  <2> DEFINE R == 0 .. o.type - 1
  <2>1. R \subseteq Nat BY <1>1
  <2>2. DigitsFor(v, o) \in Seq(R) BY <1>3
  <2> HIDE DEF R
  <2> QED BY <2>1, <2>2, SeqMonotonic
<1>5. SignOf(v, o) \in Seq(Nat)
  BY <1>1 DEF SignOf, Minus, NoSign, Space, Plus
<1>6. PrefixOf(v, o) \in Seq(Nat)
  BY <1>1 DEF PrefixOf, put_type, B, X
<1>7. Fill(v, o) \in Int
  BY <1>1, <1>4, <1>5, <1>6 DEF Fill
<1> QED BY <1>3, <1>4, <1>5, <1>6, <1>7

\* Two texts, one behind the other.
LEMMA ConcatIs ==
  ASSUME NEW s \in Seq(Nat), NEW u \in Seq(Nat), NEW sl, NEW ul, NEW c,
         sl = Len(s), ul = Len(u), c = s \o u
  PROVE  /\ c \in Seq(Nat) /\ Len(c) = sl + ul
         /\ \A k \in 1 .. sl + ul : c[k] = IF k <= sl THEN s[k] ELSE u[k - sl]
<1>1. /\ s \o u \in Seq(Nat) /\ Len(s \o u) = Len(s) + Len(u)
      /\ \A k \in 1 .. Len(s) + Len(u) :
           (s \o u)[k] = IF k <= Len(s) THEN s[k] ELSE u[k - Len(s)]
  BY ConcatProperties
<1> QED BY <1>1, Zenon

(* Blanks and a sign f, a prefix p, zeros z and digits d.                  *)
Parts(f, p, z, d, n, negative, base) ==
  /\ f \in Seq(Nat) /\ p \in Seq(Nat) /\ z \in Seq(Nat) /\ d \in Seq(Nat)
  /\ n \in Nat /\ negative \in BOOLEAN /\ base \in {2, 10, 16}
  /\ Len(f) = n + (IF negative THEN 1 ELSE 0)
  /\ \A k \in 1 .. n : f[k] = Space
  /\ negative => f[n + 1] = Minus
  /\ p = IF base = 10 THEN <<>> ELSE <<0, IF base = 16 THEN X ELSE B>>
  /\ \A k \in 1 .. Len(z) : z[k] = 0
  /\ d # <<>> /\ \A k \in 1 .. Len(d) : d[k] < base

SpellsNumber(t, m, d, n, negative, base) ==
  /\ t \in Seq(Nat) /\ m \in Nat
  /\ Layout(t, n, negative, base, m)
  /\ Accumulate(Values(Drop(t, m)), base) = Accumulate(d, base)

\* They spell a number.
LEMMA Assembled ==
  ASSUME NEW f, NEW p, NEW z, NEW d, NEW n, NEW negative, NEW base,
         NEW spelled, NEW front, Parts(f, p, z, d, n, negative, base),
         spelled = ((f \o p) \o z) \o d, front = Len(f) + Len(p)
  PROVE  SpellsNumber(spelled, front, d, n, negative, base)
<1> DEFINE fl == Len(f)
           pl == Len(p)
           zl == Len(z)
           dl == Len(d)
           a == f \o p
           b == a \o z
           t == b \o d
           m == fl + pl
<1>t. f \in Seq(Nat) /\ p \in Seq(Nat)
  BY DEF Parts
<1>1. /\ a \in Seq(Nat) /\ Len(a) = fl + pl
      /\ \A k \in 1 .. fl + pl : a[k] = IF k <= fl THEN f[k] ELSE p[k - fl]
  BY <1>t, ConcatProperties
<1> USE DEF Parts
<1>0. fl \in Nat /\ pl \in Nat /\ zl \in Nat /\ dl \in Nat /\ dl > 0
  OBVIOUS
<1>p. pl = IF base = 10 THEN 0 ELSE 2
  OBVIOUS
<1>q. base # 10 => p[1] = 0 /\ p[2] = IF base = 16 THEN X ELSE B
  OBVIOUS
<1> HIDE DEF a
<1>2. /\ b \in Seq(Nat) /\ Len(b) = fl + pl + zl
      /\ \A k \in 1 .. fl + pl + zl : b[k] = IF k <= fl + pl THEN a[k] ELSE z[k - (fl + pl)]
  <2> HIDE DEF fl, pl
  <2> DEFINE al == fl + pl
  <2>1. al = Len(a) BY <1>1
  <2> HIDE DEF al
  <2>2. /\ b \in Seq(Nat) /\ Len(b) = al + zl
        /\ \A k \in 1 .. al + zl : b[k] = IF k <= al THEN a[k] ELSE z[k - al]
    <3>1. a \in Seq(Nat) /\ z \in Seq(Nat) /\ zl = Len(z) /\ b = a \o z BY <1>1
    <3> HIDE DEF zl, b, Parts
    <3> QED BY <2>1, <3>1, ConcatIs
  <2> QED BY <2>2 DEF al
<1> HIDE DEF b
<1>3. /\ t \in Seq(Nat) /\ Len(t) = fl + pl + zl + dl
      /\ \A k \in 1 .. fl + pl + zl + dl :
           t[k] = IF k <= fl + pl + zl THEN b[k] ELSE d[k - (fl + pl + zl)]
  <2> HIDE DEF fl, pl, zl
  <2> DEFINE bl == fl + pl + zl
  <2>1. bl = Len(b) BY <1>2
  <2> HIDE DEF bl
  <2>2. /\ t \in Seq(Nat) /\ Len(t) = bl + dl
        /\ \A k \in 1 .. bl + dl : t[k] = IF k <= bl THEN b[k] ELSE d[k - bl]
    <3>1. b \in Seq(Nat) /\ dl = Len(d) /\ t = b \o d BY <1>2
    <3> HIDE DEF dl, t
    <3> QED BY <2>1, <3>1, ConcatIs
  <2> QED BY <2>2 DEF bl
<1> HIDE DEF t, fl, pl, zl, dl
<1>4. \A k \in 1 .. fl : t[k] = f[k]
  <2> TAKE k \in 1 .. fl
  <2>1. /\ k \in 1 .. fl + pl /\ k \in 1 .. fl + pl + zl /\ k \in 1 .. fl + pl + zl + dl
        /\ k <= fl /\ k <= fl + pl /\ k <= fl + pl + zl
    BY <1>0
  <2> QED BY <2>1, <1>1, <1>2, <1>3
<1>5. \A k \in 1 .. pl : t[fl + k] = p[k]
  <2> TAKE k \in 1 .. pl
  <2> DEFINE j == fl + k
  <2>1. /\ j \in 1 .. fl + pl /\ j \in 1 .. fl + pl + zl /\ j \in 1 .. fl + pl + zl + dl
        /\ ~ (j <= fl) /\ j <= fl + pl /\ j <= fl + pl + zl /\ j - fl = k
    BY <1>0
  <2> HIDE DEF j
  <2>2. t[j] = b[j] /\ b[j] = a[j] /\ a[j] = p[j - fl] BY <2>1, <1>1, <1>2, <1>3
  <2>3. t[j] = p[k] BY <2>1, <2>2
  <2> QED BY <2>3 DEF j
<1>6. \A k \in 1 .. zl : t[m + k] = 0
  <2> TAKE k \in 1 .. zl
  <2> DEFINE j == m + k
  <2>1. /\ j \in 1 .. fl + pl + zl /\ j \in 1 .. fl + pl + zl + dl
        /\ ~ (j <= fl + pl) /\ j <= fl + pl + zl /\ j - (fl + pl) = k
    BY <1>0
  <2> HIDE DEF j, m
  <2>2. t[j] = b[j] /\ b[j] = z[j - (fl + pl)] BY <2>1, <1>2, <1>3
  <2>3. t[j] = z[k] BY <2>1, <2>2
  <2>4. z[k] = 0 BY DEF zl
  <2> QED BY <2>3, <2>4 DEF j
<1>7. \A k \in 1 .. dl : t[m + zl + k] = d[k]
  <2> TAKE k \in 1 .. dl
  <2> DEFINE j == m + zl + k
  <2>1. /\ j \in 1 .. fl + pl + zl + dl
        /\ ~ (j <= fl + pl + zl) /\ j - (fl + pl + zl) = k
    BY <1>0
  <2> HIDE DEF j, m
  <2>2. t[j] = d[j - (fl + pl + zl)] BY <2>1, <1>3
  <2>3. t[j] = d[k] BY <2>1, <2>2
  <2> QED BY <2>3 DEF j
<1>8. Layout(t, n, negative, base, m)
  <2>0. fl = n + (IF negative THEN 1 ELSE 0) BY DEF fl
  <2>1. m = n + (IF negative THEN 1 ELSE 0) + (IF base = 10 THEN 0 ELSE 2)
    BY <2>0, <1>p
  <2>2. m < Len(t) BY <1>0, <1>3
  <2>3. \A k \in 1 .. n : t[k] = Space
    <3> TAKE k \in 1 .. n
    <3>1. k \in 1 .. fl BY <2>0
    <3> QED BY <3>1, <1>4
  <2>4. negative => t[n + 1] = Minus
    <3> HAVE negative
    <3>1. n + 1 \in 1 .. fl BY <2>0
    <3> QED BY <3>1, <1>4
  <2>5. base # 10 => t[m - 1] = 0 /\ t[m] = IF base = 16 THEN X ELSE B
    <3> HAVE base # 10
    <3>1. 1 \in 1 .. pl /\ 2 \in 1 .. pl /\ fl + 1 = m - 1 /\ fl + 2 = m
      BY <1>0, <1>p
    <3>2. t[fl + 1] = p[1] /\ t[fl + 2] = p[2] BY <3>1, <1>5
    <3> QED BY <3>1, <3>2, <1>q
  <2>a. ASSUME NEW k \in m + 1 .. Len(t) PROVE t[k] < base
    <3>1. CASE k <= m + zl
      <4>1. k - m \in 1 .. zl /\ m + (k - m) = k BY <3>1, <1>0
      <4>2. t[k] = 0 BY <4>1, <1>6
      <4> QED BY <4>2
    <3>2. CASE ~ (k <= m + zl)
      <4> DEFINE j == k - (m + zl)
      <4>0. m \in Nat /\ Len(t) = m + zl + dl BY <1>0, <1>3
      <4>1. j \in 1 .. dl /\ m + zl + j = k
        <5> HIDE DEF m
        <5> QED BY <3>2, <1>0, <4>0
      <4> HIDE DEF j, m
      <4>2. t[k] = d[j] BY <4>1, <1>7
      <4>3. d[j] < base BY <4>1 DEF dl
      <4> QED BY <4>2, <4>3
    <3> QED BY <3>1, <3>2
  <2>6. ASSUME NEW k \in m + 1 .. Len(t) PROVE ValueOfChar(t[k]) < base
    <3>1. t[k] \in Nat
      <4>0. m \in Nat /\ Len(t) \in Nat BY <1>0, <1>3
      <4>1. k \in 1 .. Len(t)
        <5> HIDE DEF m
        <5> QED BY <4>0
      <4>2. t \in Seq(Nat) BY <1>3
      <4> QED BY <4>1, <4>2, ElementOfSeq
    <3>2. t[k] < base BY <2>a
    <3> DEFINE c == t[k]
               v == ValueOfChar(c)
    <3>c. c \in Nat /\ c < base /\ base \in Nat BY <3>1, <3>2
    <3>v. v = ValueOfChar(c) OBVIOUS
    <3> HIDE DEF c, v
    <3>d. v < base BY <3>c, <3>v, ValueOfCharIs
    <3> QED BY <3>d DEF c, v
  <2> HIDE DEF m
  <2> QED BY <2>1, <2>2, <2>3, <2>4, <2>5, <2>6 DEF Layout
<1>9. Accumulate(Values(Drop(t, m)), base) = Accumulate(d, base)
  <2> DEFINE r == Drop(t, m)
  <2>1. m \in 0 .. Len(t) /\ Len(t) - m = zl + dl BY <1>0, <1>3
  <2>2. /\ r \in Seq(Nat) /\ Len(r) = Len(t) - m
        /\ \A k \in 1 .. Len(t) - m : r[k] = t[m + k]
    BY <2>1, <1>3, DropIs
  <2> HIDE DEF r, m
  <2>3. Len(r) = zl + Len(d) BY <2>1, <2>2 DEF dl
  <2>4. \A k \in 1 .. zl : r[k] = 0
    <3> TAKE k \in 1 .. zl
    <3>1. k \in 1 .. Len(t) - m BY <1>0, <2>1
    <3> QED BY <3>1, <2>2, <1>6
  <2>5. \A k \in 1 .. Len(d) : r[zl + k] = d[k]
    <3> TAKE k \in 1 .. Len(d)
    <3>1. k \in 1 .. dl /\ zl + k \in 1 .. Len(t) - m BY <1>0, <2>1 DEF dl
    <3>2. m + (zl + k) = m + zl + k BY <1>0 DEF m
    <3>3. r[zl + k] = t[m + (zl + k)] BY <3>1, <2>2
    <3> QED BY <3>1, <3>2, <3>3, <1>7
  <2>6. zl \in Nat /\ base \in Nat BY <1>0
  <2>7. Accumulate(r, base) = Accumulate(d, base)
    BY <2>2, <2>3, <2>4, <2>5, <2>6, LeadingZeros
  <2>8. \A k \in 1 .. Len(r) : r[k] # BigB
    <3> TAKE k \in 1 .. Len(r)
    <3>1. CASE k <= zl
      <4>1. k \in 1 .. zl BY <3>1, <1>0
      <4> QED BY <4>1, <2>4 DEF BigB
    <3>2. CASE ~ (k <= zl)
      <4>1. k - zl \in 1 .. Len(d) /\ zl + (k - zl) = k BY <3>2, <1>0, <2>3
      <4>2. r[k] = d[k - zl] /\ d[k - zl] < base BY <4>1, <2>5
      <4> QED BY <4>2 DEF BigB
    <3> QED BY <3>1, <3>2
  <2>9. Values(r) = r BY <2>2, <2>8, ValuesAreTheText
  <2> QED BY <2>7, <2>9 DEF r
<1> QED BY <1>0, <1>3, <1>8, <1>9 DEF t, b, a, fl, pl, SpellsNumber

\* What is printed with a prefix, or is decimal, and is not followed by
\* blanks, is read as the number that was printed.
LEMMA PrintedIsRead ==
  ASSUME NEW isSigned \in BOOLEAN, NEW v \in ValuesOf(isSigned),
         NEW o \in Legal, Readable(o)
  PROVE  string_to_integral(kprint_integral(v, o), isSigned) = <<"ok", v>>
<1> DEFINE sign == SignOf(v, o)
           prefix == PrefixOf(v, o)
           digits == DigitsFor(v, o)
           fill == Fill(v, o)
           negative == v < 0
           base == o.type
           t == kprint_integral(v, o)
           Spells(f, z) ==
             /\ f \in Seq(Nat) /\ z \in Seq(Nat)
             /\ t = ((f \o prefix) \o z) \o digits
             /\ \A k \in 1 .. Len(z) : z[k] = 0
             /\ \E n \in Nat : /\ Len(f) = n + (IF negative THEN 1 ELSE 0)
                               /\ \A k \in 1 .. n : f[k] = Space
                               /\ negative => f[n + 1] = Minus
<1>0. /\ base \in {2, 10, 16} /\ o.sign \in {NoSign, Space} /\ o.width \in Nat
      /\ o.pad \in {0, Space} /\ o.justifyLeft \in BOOLEAN
      /\ o.justifyLeft => o.width = 0
      /\ base # 10 => o.printType = TRUE
  BY DEF Legal, Readable, NoSign, Space, Plus
<1>v. /\ v \in Int /\ Magnitude(v) \in Nat /\ Magnitude(v) < WORD
      /\ Magnitude(v) = IF v < 0 THEN -v ELSE v
      /\ v < 0 => isSigned
  BY MagnitudeIs
<1>1. /\ sign \in Seq(Nat) /\ prefix \in Seq(Nat) /\ digits \in Seq(Nat)
      /\ digits \in Seq(0 .. base - 1) /\ digits # <<>>
      /\ Accumulate(digits, base) = Magnitude(v)
      /\ fill \in Int
  BY <1>v, PartsAreTexts
<1>2. prefix = IF base = 10 THEN <<>> ELSE <<0, IF base = 16 THEN X ELSE B>>
  <2>1. CASE base = 10 BY <2>1 DEF PrefixOf, put_type
  <2>2. CASE base = 16 BY <2>2, <1>0 DEF PrefixOf, put_type
  <2>3. CASE base = 2 BY <2>3, <1>0 DEF PrefixOf, put_type
  <2> QED BY <1>0, <2>1, <2>2, <2>3
<1>3. /\ negative => sign = <<Minus>>
      /\ ~negative => sign = <<>> \/ sign = <<Space>>
  BY <1>0 DEF SignOf
<1>4. t = IF o.justifyLeft THEN sign \o prefix \o digits \o Repeat(fill, Space)
          ELSE IF o.pad = Space THEN Repeat(fill, Space) \o sign \o prefix \o digits
               ELSE sign \o prefix \o Repeat(fill, o.pad) \o digits
  BY <1>v, PrintedInParts, Zenon
<1>5. /\ Repeat(fill, Space) \in Seq(Nat)
      /\ Len(Repeat(fill, Space)) = IF fill > 0 THEN fill ELSE 0
      /\ \A k \in 1 .. Len(Repeat(fill, Space)) : Repeat(fill, Space)[k] = Space
  BY <1>1, RepeatIs DEF Space
<1>6. /\ Repeat(fill, 0) \in Seq(Nat)
      /\ \A k \in 1 .. Len(Repeat(fill, 0)) : Repeat(fill, 0)[k] = 0
  BY <1>1, RepeatIs
<1>7. o.justifyLeft => Repeat(fill, Space) = <<>>
  <2> HAVE o.justifyLeft
  <2>1. o.width = 0 BY <1>0
  <2>2. Len(sign) \in Nat /\ Len(prefix) \in Nat /\ Len(digits) \in Nat BY <1>1
  <2>3. fill = o.width - Len(sign) - Len(prefix) - Len(digits) BY DEF Fill
  <2> HIDE DEF fill, sign, prefix, digits
  <2>4. ~ (fill > 0) BY <2>1, <2>2, <2>3
  <2>5. Len(Repeat(fill, Space)) = 0 BY <2>4, <1>5
  <2> QED BY <2>5, <1>5
<1> HIDE DEF sign, prefix, digits, fill, t
<1>8. /\ sign \in Seq(Nat)
      /\ \E n \in Nat : /\ Len(sign) = n + (IF negative THEN 1 ELSE 0)
                        /\ \A k \in 1 .. n : sign[k] = Space
                        /\ negative => sign[n + 1] = Minus
  <2>1. CASE negative
    <3>1. /\ Len(sign) = 0 + (IF negative THEN 1 ELSE 0)
          /\ \A k \in 1 .. 0 : sign[k] = Space
          /\ negative => sign[0 + 1] = Minus
      BY <2>1, <1>3
    <3> QED BY <3>1, <1>1
  <2>2. CASE ~negative /\ sign = <<>>
    <3>1. /\ Len(sign) = 0 + (IF negative THEN 1 ELSE 0)
          /\ \A k \in 1 .. 0 : sign[k] = Space
          /\ negative => sign[0 + 1] = Minus
      BY <2>2
    <3> QED BY <3>1, <1>1
  <2>3. CASE ~negative /\ sign = <<Space>>
    <3>1. /\ Len(sign) = 1 + (IF negative THEN 1 ELSE 0)
          /\ \A k \in 1 .. 1 : sign[k] = Space
          /\ negative => sign[1 + 1] = Minus
      BY <2>3
    <3> QED BY <3>1, <1>1
  <2> QED BY <1>3, <2>1, <2>2, <2>3
<1>9. \E f, z : Spells(f, z)
  <2>1. CASE o.justifyLeft
    <3>1. t = ((sign \o prefix) \o digits) \o <<>> BY <2>1, <1>4, <1>7
    <3>2. (sign \o prefix) \in Seq(Nat) /\ ((sign \o prefix) \o digits) \in Seq(Nat)
      BY <1>1
    <3>3. t = ((sign \o prefix) \o <<>>) \o digits
      BY <3>1, <3>2, ConcatEmptySeq
    <3>4. Spells(sign, <<>>) BY <1>8, <3>3
    <3> HIDE DEF Spells
    <3> QED BY <3>4
  <2>2. CASE ~o.justifyLeft /\ o.pad = Space
    <3> DEFINE r == Repeat(fill, Space)
               f == r \o sign
    <3>0. t = ((r \o sign) \o prefix) \o digits BY <2>2, <1>4
    <3> DEFINE rl == Len(r)
               sl == Len(sign)
    <3>a. r \in Seq(Nat) /\ \A k \in 1 .. rl : r[k] = Space BY <1>5
    <3> HIDE DEF r
    <3>b. rl \in Nat /\ sl \in Nat /\ rl = Len(r) /\ sl = Len(sign) /\ f = r \o sign
      BY <3>a, <1>1
    <3> HIDE DEF f, rl, sl
    <3>1. /\ f \in Seq(Nat) /\ Len(f) = rl + sl
          /\ \A k \in 1 .. rl + sl : f[k] = IF k <= rl THEN r[k] ELSE sign[k - rl]
      BY <3>a, <3>b, <1>1, ConcatIs
    <3>2. (f \o prefix) \in Seq(Nat)
      BY <3>1, <1>1
    <3>3. t = ((f \o prefix) \o <<>>) \o digits
      BY <3>0, <3>b, <3>2, ConcatEmptySeq DEF r
    <3>4. PICK n \in Nat : /\ Len(sign) = n + (IF negative THEN 1 ELSE 0)
                           /\ \A k \in 1 .. n : sign[k] = Space
                           /\ negative => sign[n + 1] = Minus
      BY <1>8
    <3> DEFINE s == IF negative THEN 1 ELSE 0
               nl == rl + n
    <3>6. sl = n + s /\ s \in Nat /\ (negative => s = 1)
      BY <3>b, <3>4
    <3> HIDE DEF s
    <3> HIDE DEF negative
    <3>7. Len(f) = nl + s /\ nl \in Nat
      BY <3>1, <3>6, <3>b
    <3>8. \A k \in 1 .. nl : f[k] = Space
      <4> TAKE k \in 1 .. nl
      <4>0. k \in 1 .. rl + sl BY <3>6, <3>b
      <4>1. CASE k <= rl
        <5>1. k \in 1 .. rl BY <4>1, <3>b
        <5> QED BY <4>0, <4>1, <5>1, <3>1, <3>a
      <4>2. CASE ~ (k <= rl)
        <5>1. k - rl \in 1 .. n BY <4>2, <3>b
        <5> QED BY <4>0, <4>2, <5>1, <3>1, <3>4
      <4> QED BY <4>1, <4>2
    <3>9. negative => f[nl + 1] = Minus
      <4> HAVE negative
      <4>1. nl + 1 \in 1 .. rl + sl /\ ~ (nl + 1 <= rl) /\ (nl + 1) - rl = n + 1
        BY <3>b, <3>6
      <4> HIDE DEF nl
      <4>2. f[nl + 1] = sign[(nl + 1) - rl] BY <4>1, <3>1
      <4> QED BY <4>1, <4>2, <3>4
    <3>10. Spells(f, <<>>)
      <4>1. <<>> \in Seq(Nat) /\ \A k \in 1 .. Len(<<>>) : <<>>[k] = 0 OBVIOUS
      <4>2. Len(f) = nl + (IF negative THEN 1 ELSE 0) BY <3>7 DEF s
      <4> HIDE DEF nl
      <4>3. \E nn \in Nat : /\ Len(f) = nn + (IF negative THEN 1 ELSE 0)
                            /\ \A k \in 1 .. nn : f[k] = Space
                            /\ negative => f[nn + 1] = Minus
        BY <4>2, <3>7, <3>8, <3>9
      <4> QED BY <3>1, <3>3, <4>1, <4>3
    <3> HIDE DEF Spells
    <3> QED BY <3>10
  <2>3. CASE ~o.justifyLeft /\ o.pad # Space
    <3> DEFINE z == Repeat(fill, 0)
    <3>1. t = ((sign \o prefix) \o z) \o digits BY <2>3, <1>0, <1>4
    <3>2. z \in Seq(Nat) /\ \A k \in 1 .. Len(z) : z[k] = 0 BY <1>6
    <3> HIDE DEF z
    <3>3. Spells(sign, z) BY <1>8, <3>1, <3>2
    <3> HIDE DEF Spells
    <3> QED BY <3>3
  <2> QED BY <1>0, <2>1, <2>2, <2>3
<1>10. PICK f, z : Spells(f, z)
  <2> HIDE DEF Spells
  <2> QED BY <1>9
<1>11. PICK n \in Nat : /\ Len(f) = n + (IF negative THEN 1 ELSE 0)
                        /\ \A k \in 1 .. n : f[k] = Space
                        /\ negative => f[n + 1] = Minus
  BY <1>10
<1>12. \A k \in 1 .. Len(digits) : digits[k] < base
  <2> TAKE k \in 1 .. Len(digits)
  <2>1. digits[k] \in 0 .. base - 1 BY <1>1, ElementOfSeq
  <2> QED BY <2>1, <1>0
<1> DEFINE m == Len(f) + Len(prefix)
<1>13. /\ t \in Seq(Nat) /\ m \in Nat
       /\ Layout(t, n, negative, base, m)
       /\ Accumulate(Values(Drop(t, m)), base) = Accumulate(digits, base)
  <2>1. negative \in BOOLEAN OBVIOUS
  <2>2. /\ f \in Seq(Nat) /\ z \in Seq(Nat) /\ t = ((f \o prefix) \o z) \o digits
        /\ \A k \in 1 .. Len(z) : z[k] = 0
    BY <1>10
  <2>3. base \in {2, 10, 16} BY <1>0
  <2> HIDE DEF negative, base, Spells
  <2>5. Parts(f, prefix, z, digits, n, negative, base)
    BY <2>1, <2>2, <2>3, <1>1, <1>2, <1>11, <1>12 DEF Parts
  <2> HIDE DEF m
  <2>4. m = Len(f) + Len(prefix) BY DEF m
  <2>6. t = ((f \o prefix) \o z) \o digits BY <2>2
  <2>7. SpellsNumber(t, m, digits, n, negative, base)
    BY <2>4, <2>5, <2>6, Assembled
  <2> QED BY <2>7 DEF SpellsNumber
<1>14. string_to_integral(t, isSigned) = Okay(Values(Drop(t, m)), base, negative, isSigned)
  <2>1. negative \in BOOLEAN /\ (negative => isSigned) BY <1>v
  <2> HIDE DEF negative, base, m
  <2> QED BY <2>1, <1>0, <1>13, LayoutIsRead
<1>15. (IF negative THEN -Magnitude(v) ELSE Magnitude(v)) = v
  BY <1>v
<1>16. Accumulate(Values(Drop(t, m)), base) = Magnitude(v)
  BY <1>1, <1>13
<1>17. InType(v, isSigned) = v
  BY InTypeKeeps
<1> HIDE DEF negative, base, m
<1>18. Okay(Values(Drop(t, m)), base, negative, isSigned) = <<"ok", v>>
  BY <1>15, <1>16, <1>17, Zenon DEF Okay
<1> QED BY <1>14, <1>18 DEF t

\* The greater of two.
LEMMA MaxOfTwo ==
  ASSUME NEW a \in Nat, NEW b \in Nat
  PROVE  Max({a, b}) = IF a >= b THEN a ELSE b
<1> DEFINE T == {a, b}
<1>1. \E x \in T : \A y \in T : x >= y
  OBVIOUS
<1> HIDE DEF T
<1>2. Max(T) \in T /\ \A y \in T : Max(T) >= y
  BY <1>1, Zenon DEF Max
<1> DEFINE m == Max(T)
<1>3. m \in T /\ \A y \in T : m >= y BY <1>2
<1> HIDE DEF m
<1>4. m = IF a >= b THEN a ELSE b BY <1>3 DEF T
<1> QED BY <1>4 DEF m, T

\* Four texts, one behind the other.
LEMMA LengthOfFour ==
  ASSUME NEW a \in Seq(Nat), NEW b \in Seq(Nat), NEW c \in Seq(Nat), NEW d \in Seq(Nat)
  PROVE  Len(((a \o b) \o c) \o d) = Len(a) + Len(b) + Len(c) + Len(d)
<1> DEFINE x == a \o b
           y == x \o c
<1>1. x \in Seq(Nat) /\ Len(x) = Len(a) + Len(b) BY ConcatProperties
<1> HIDE DEF x
<1>2. y \in Seq(Nat) /\ Len(y) = Len(x) + Len(c) BY <1>1, ConcatProperties
<1> HIDE DEF y
<1>3. Len(y \o d) = Len(y) + Len(d) BY <1>2, ConcatProperties
<1> QED BY <1>1, <1>2, <1>3 DEF y, x

(* The columns that a number takes at least.                               *)
Columns(v, o) == Len(SignOf(v, o)) + Len(PrefixOf(v, o)) + Len(DigitsFor(v, o))

\* Behind the last part there is nothing, or what fills the width.
LEMMA PrintedLength ==
  ASSUME NEW v \in Int, NEW o \in Legal
  PROVE  /\ Columns(v, o) \in Nat
         /\ Len(kprint_integral(v, o)) = IF o.width > Columns(v, o) THEN o.width ELSE Columns(v, o)
<1> DEFINE s == SignOf(v, o)
           p == PrefixOf(v, o)
           d == DigitsFor(v, o)
           fill == Fill(v, o)
           t == kprint_integral(v, o)
<1>1. s \in Seq(Nat) /\ p \in Seq(Nat) /\ d \in Seq(Nat) /\ fill \in Int
  BY PartsAreTexts
<1>2. /\ o.pad \in Nat /\ o.width \in Nat /\ o.justifyLeft \in BOOLEAN
      /\ o.pad \in {0, Space}
  BY DEF Legal, Space
<1>3. t = IF o.justifyLeft THEN s \o p \o d \o Repeat(fill, Space)
          ELSE IF o.pad = Space THEN Repeat(fill, Space) \o s \o p \o d
               ELSE s \o p \o Repeat(fill, o.pad) \o d
  BY PrintedInParts, Zenon
<1>4. ASSUME NEW c \in Nat
      PROVE  /\ Repeat(fill, c) \in Seq(Nat)
             /\ Len(Repeat(fill, c)) = IF fill > 0 THEN fill ELSE 0
  BY <1>1, RepeatIs
<1>5. fill = o.width - Len(s) - Len(p) - Len(d)
  BY DEF Fill
<1>6. Columns(v, o) = Len(s) + Len(p) + Len(d)
  BY DEF Columns
<1> HIDE DEF s, p, d, fill, t
<1>7. Len(t) = Len(s) + Len(p) + Len(d) + (IF fill > 0 THEN fill ELSE 0)
  <2>1. CASE o.justifyLeft
    <3> DEFINE r == Repeat(fill, Space)
    <3>1. t = ((s \o p) \o d) \o r BY <2>1, <1>3
    <3>2. r \in Seq(Nat) /\ Len(r) = IF fill > 0 THEN fill ELSE 0 BY <1>4 DEF Space
    <3> HIDE DEF r
    <3>5. s \in Seq(Nat) /\ p \in Seq(Nat) /\ d \in Seq(Nat) /\ r \in Seq(Nat)
      BY <1>1, <3>2
    <3>6. Len(((s \o p) \o d) \o r) = Len(s) + Len(p) + Len(d) + Len(r)
      BY <3>5, LengthOfFour
    <3>3. Len(t) = Len(s) + Len(p) + Len(d) + Len(r) BY <3>1, <3>6, Zenon
    <3> QED BY <3>2, <3>3
  <2>2. CASE ~o.justifyLeft /\ o.pad = Space
    <3> DEFINE r == Repeat(fill, Space)
    <3>1. t = ((r \o s) \o p) \o d BY <2>2, <1>3
    <3>2. r \in Seq(Nat) /\ Len(r) = IF fill > 0 THEN fill ELSE 0 BY <1>4 DEF Space
    <3> HIDE DEF r
    <3>5. s \in Seq(Nat) /\ p \in Seq(Nat) /\ d \in Seq(Nat) /\ r \in Seq(Nat)
      BY <1>1, <3>2
    <3>6. Len(((r \o s) \o p) \o d) = Len(r) + Len(s) + Len(p) + Len(d)
      BY <3>5, LengthOfFour
    <3>3. Len(t) = Len(r) + Len(s) + Len(p) + Len(d) BY <3>1, <3>6, Zenon
    <3>4. Len(s) \in Nat /\ Len(p) \in Nat /\ Len(d) \in Nat /\ Len(r) \in Nat BY <1>1, <3>2
    <3> QED BY <3>2, <3>3, <3>4
  <2>3. CASE ~o.justifyLeft /\ o.pad # Space
    <3> DEFINE r == Repeat(fill, o.pad)
    <3>1. t = ((s \o p) \o r) \o d BY <2>3, <1>3
    <3>2. r \in Seq(Nat) /\ Len(r) = IF fill > 0 THEN fill ELSE 0 BY <1>2, <1>4
    <3> HIDE DEF r
    <3>5. s \in Seq(Nat) /\ p \in Seq(Nat) /\ d \in Seq(Nat) /\ r \in Seq(Nat)
      BY <1>1, <3>2
    <3>6. Len(((s \o p) \o r) \o d) = Len(s) + Len(p) + Len(r) + Len(d)
      BY <3>5, LengthOfFour
    <3>3. Len(t) = Len(s) + Len(p) + Len(r) + Len(d) BY <3>1, <3>6, Zenon
    <3>4. Len(s) \in Nat /\ Len(p) \in Nat /\ Len(d) \in Nat /\ Len(r) \in Nat BY <1>1, <3>2
    <3> QED BY <3>2, <3>3, <3>4
  <2> QED BY <1>2, <2>1, <2>2, <2>3
<1>8. Len(s) \in Nat /\ Len(p) \in Nat /\ Len(d) \in Nat BY <1>1
<1> DEFINE sl == Len(s)
           pl == Len(p)
           dl == Len(d)
<1> HIDE DEF sl, pl, dl
<1>9. Len(t) = IF o.width > Columns(v, o) THEN o.width ELSE Columns(v, o)
  BY <1>2, <1>5, <1>6, <1>7, <1>8 DEF sl, pl, dl
<1> QED BY <1>6, <1>8, <1>9 DEF t

\* A number takes the width, or the columns it takes without one.
LEMMA WidthOfNumber ==
  ASSUME NEW v \in Int, NEW o \in Legal
  PROVE  Len(kprint_integral(v, o))
           = Max({Len(kprint_integral(v, [o EXCEPT !.width = 0])), o.width})
<1> DEFINE bare == [o EXCEPT !.width = 0]
<1>1. /\ bare \in Legal /\ bare.width = 0 /\ o.width \in Nat
      /\ bare.sign = o.sign /\ bare.printType = o.printType /\ bare.type = o.type
  BY DEF Legal
<1> HIDE DEF bare
<1>2. Columns(v, bare) = Columns(v, o)
  <2>1. SignOf(v, bare) = SignOf(v, o) BY <1>1, Zenon DEF SignOf
  <2>2. PrefixOf(v, bare) = PrefixOf(v, o) BY <1>1, Zenon DEF PrefixOf
  <2>3. DigitsFor(v, bare) = DigitsFor(v, o) BY <1>1, Zenon DEF DigitsFor
  <2> QED BY <2>1, <2>2, <2>3, Zenon DEF Columns
<1> DEFINE c == Columns(v, o)
           l == Len(kprint_integral(v, bare))
<1>3. c \in Nat /\ Len(kprint_integral(v, o)) = IF o.width > c THEN o.width ELSE c
  BY PrintedLength
<1>4. l = IF bare.width > Columns(v, bare) THEN bare.width ELSE Columns(v, bare)
  BY <1>1, PrintedLength
<1>5. l = c
  <2> HIDE DEF l
  <2>1. l = IF 0 > c THEN 0 ELSE c BY <1>1, <1>2, <1>4
  <2> HIDE DEF c
  <2> QED BY <2>1, <1>3
<1> HIDE DEF c, l
<1>6. Max({l, o.width}) = IF l >= o.width THEN l ELSE o.width
  BY <1>1, <1>3, <1>5, MaxOfTwo
<1>7. Len(kprint_integral(v, o)) = Max({l, o.width})
  <2> DEFINE w == o.width
             x == Len(kprint_integral(v, o))
             m == Max({l, w})
  <2>1. w \in Nat /\ x = (IF w > c THEN w ELSE c) /\ m = (IF c >= w THEN c ELSE w)
    BY <1>1, <1>3, <1>5, <1>6
  <2> HIDE DEF w, x, m
  <2>2. x = m BY <2>1, <1>3
  <2> QED BY <2>2 DEF x, m, w
<1> QED BY <1>7 DEF l, bare

\* A string takes the width, or its length.
LEMMA WidthOfString ==
  ASSUME NEW s \in Seq(Nat), NEW o \in Legal
  PROVE  Len(aligned(s, o)) = Max({Len(s), o.width})
<1> DEFINE r == Repeat(o.width - Len(s), o.pad)
           l == Len(s)
           w == o.width
<1>1. w \in Nat /\ o.pad \in Nat /\ l \in Nat /\ o.justifyLeft \in BOOLEAN
  BY DEF Legal, Space
<1>2. r \in Seq(Nat) /\ Len(r) = IF w - l > 0 THEN w - l ELSE 0
  <2> DEFINE n == w - l
             c == o.pad
  <2>1. n \in Int /\ c \in Nat BY <1>1
  <2> HIDE DEF n, c
  <2>2. Repeat(n, c) \in Seq(Nat) /\ Len(Repeat(n, c)) = IF n > 0 THEN n ELSE 0
    BY <2>1, RepeatIs
  <2> QED BY <2>2 DEF n, c
<1>3. aligned(s, o) = IF o.justifyLeft THEN s \o r ELSE r \o s
  BY DEF aligned
<1> HIDE DEF r
<1>4. Len(aligned(s, o)) = Len(s) + Len(r)
  <2>1. Len(s \o r) = Len(s) + Len(r) /\ Len(r \o s) = Len(r) + Len(s) BY <1>2
  <2>2. Len(r) \in Nat /\ Len(s) \in Nat BY <1>2
  <2> QED BY <1>3, <2>1, <2>2
<1> HIDE DEF l, w
<1>5. Max({l, w}) = IF l >= w THEN l ELSE w BY <1>1, MaxOfTwo
<1>6. Len(aligned(s, o)) = Max({l, w})
  <2> DEFINE x == Len(aligned(s, o))
             m == Max({l, w})
  <2>1. x = l + (IF w - l > 0 THEN w - l ELSE 0) /\ m = (IF l >= w THEN l ELSE w)
    BY <1>2, <1>4, <1>5 DEF l
  <2> HIDE DEF x, m
  <2>2. x = m BY <2>1, <1>1
  <2> QED BY <2>2 DEF x, m
<1> QED BY <1>6 DEF l, w

-----------------------------------------------------------------------------
(* The value that is printed, or the text that is read, and what becomes   *)
(* of it.                                                                  *)
NumberIsLegal ==
  /\ options \in Options /\ signed \in BOOLEAN
  /\ value \in ValuesOf(signed)

NumbersInv ==
  /\ phase \in {"value", "printed", "printed_read"} => NumberIsLegal
  /\ phase \in {"printed", "printed_read"} => text = kprint_integral(value, options)
  /\ phase \in {"string", "aligned"} => options \in Options
  /\ phase = "string" => text \in Strings /\ value = Len(text)
  /\ phase = "aligned" => \E s \in Strings : text = aligned(s, options) /\ value = Len(s)
  /\ phase \in {"typed", "typed_read"} =>
       text \in BoundedSeq(Alphabet, MaxLen) /\ signed \in BOOLEAN
  /\ phase \in {"printed_read", "typed_read"} => parsed = string_to_integral(text, signed)

\* At first nothing is printed or read.
LEMMA NumbersStart == NumbersInit => NumbersInv
<1> SUFFICES ASSUME NumbersInit PROVE NumbersInv
  OBVIOUS
<1>1. CASE phase = "value"
  BY <1>1 DEF NumbersInit, NumbersInv, NumberIsLegal
<1>2. CASE phase = "string"
  BY <1>2 DEF NumbersInit, NumbersInv
<1>3. CASE phase = "typed"
  BY <1>3 DEF NumbersInit, NumbersInv
<1>4. CASE phase = "format"
  BY <1>4 DEF NumbersInv
<1> QED BY <1>1, <1>2, <1>3, <1>4 DEF NumbersInit

\* What is printed or read is not touched again.
LEMMA NumbersStep == NumbersInv /\ [NumbersNext]_numberVars => NumbersInv'
<1> SUFFICES ASSUME NumbersInv, [NumbersNext]_numberVars PROVE NumbersInv'
  OBVIOUS
<1> USE DEF NumbersInv, NumberIsLegal
<1>1. CASE Put BY <1>1 DEF Put
<1>2. CASE PutString BY <1>2 DEF PutString
<1>3. CASE Read BY <1>3 DEF Read
<1>4. CASE PutFormat BY <1>4 DEF PutFormat
<1>5. CASE UNCHANGED numberVars BY <1>5 DEF numberVars
<1> QED BY <1>1, <1>2, <1>3, <1>4, <1>5 DEF NumbersNext

\* What is printed, and what is read, are as the code computes them.
LEMMA NumbersInvariant == NumbersSpec => []NumbersInv
BY NumbersStart, NumbersStep, PTL DEF NumbersSpec

\* A number that is printed with its prefix, or in decimal, is read back: for
\* every word, width and options, whatever is in front of the text.
THEOREM AllPrintedCanBeRead == NumbersSpec => []PrintedCanBeRead
<1>1. NumbersInv => PrintedCanBeRead
  <2> SUFFICES ASSUME NumbersInv, phase = "printed_read", Readable(options)
               PROVE  parsed = <<"ok", value>>
    BY DEF PrintedCanBeRead
  <2>1. NumberIsLegal /\ parsed = string_to_integral(kprint_integral(value, options), signed)
    BY DEF NumbersInv
  <2>2. options \in Legal BY <2>1, OptionsAreLegal DEF NumberIsLegal
  <2>3. string_to_integral(kprint_integral(value, options), signed) = <<"ok", value>>
    BY <2>1, <2>2, PrintedIsRead DEF NumberIsLegal
  <2> QED BY <2>1, <2>3
<1> QED BY <1>1, NumbersInvariant, PTL

\* Every number and string takes the columns that were asked for, and more
\* only when it must.
THEOREM WidthIsAlwaysKept == NumbersSpec => []WidthIsKept
<1>1. NumbersInv => WidthIsKept
  <2> SUFFICES ASSUME NumbersInv PROVE WidthIsKept
    OBVIOUS
  <2>1. CASE phase = "printed"
    <3>1. /\ NumberIsLegal /\ text = kprint_integral(value, options)
      BY <2>1 DEF NumbersInv
    <3>2. options \in Legal /\ value \in Int
      BY <3>1, OptionsAreLegal, MagnitudeIs DEF NumberIsLegal
    <3>3. Len(text) = Max({Len(kprint_integral(value, [options EXCEPT !.width = 0])), options.width})
      BY <3>1, <3>2, WidthOfNumber
    <3> QED BY <2>1, <3>3 DEF WidthIsKept
  <2>2. CASE phase = "aligned"
    <3>1. PICK s \in Strings : text = aligned(s, options) /\ value = Len(s)
      BY <2>2 DEF NumbersInv
    <3>2. options \in Legal
      BY <2>2, OptionsAreLegal DEF NumbersInv
    <3>3. s \in Seq(Nat)
      <4>1. <<10>> \in Seq(Nat) /\ <<10, 11, 33, 10, 9>> \in Seq(Nat) OBVIOUS
      <4> QED BY <4>1, Zenon DEF Strings
    <3>4. Len(text) = Max({value, options.width})
      BY <3>1, <3>2, <3>3, WidthOfString
    <3> QED BY <2>2, <3>4 DEF WidthIsKept
  <2> QED BY <2>1, <2>2 DEF WidthIsKept
<1> QED BY <1>1, NumbersInvariant, PTL

-----------------------------------------------------------------------------
(* What numerals mean.                                                     *)

\* Powers, from one to the next.
LEMMA PowerIs ==
  ASSUME NEW base \in Nat, NEW n \in Nat
  PROVE  \E f \in [0 .. n -> Nat] :
           /\ f[0] = 1 /\ \A k \in 1 .. n : f[k] = base * f[k - 1]
           /\ Power(base, n) = f[n]
<1> DEFINE Body(f, k) == IF k = 0 THEN 1 ELSE base * f[k - 1]
           Powers(f, m) == f = [k \in 0 .. m |-> Body(f, k)]
           S == {m \in 0 .. n : \E f : Powers(f, m)}
<1>1. 0 \in S
  <2>1. Powers([k \in 0 .. 0 |-> 1], 0) OBVIOUS
  <2> HIDE DEF Powers
  <2>2. \E f : Powers(f, 0) BY <2>1
  <2> QED BY <2>2
<1>2. ASSUME NEW m \in 1 .. n, m - 1 \in S PROVE m \in S
  <2>1. PICK f : Powers(f, m - 1)
    <3> HIDE DEF Powers
    <3> QED BY <1>2
  <2> DEFINE g == [k \in 0 .. m |-> Body(f, k)]
  <2>2. ASSUME NEW k \in 0 .. m PROVE Body(g, k) = Body(f, k)
    <3>1. CASE k = 0 BY <3>1
    <3>2. CASE k # 0
      <4> DEFINE q == k - 1
      <4>1. q \in 0 .. m - 1 /\ q \in 0 .. m BY <3>2
      <4>2. f[q] = Body(f, q)
        <5> HIDE DEF q, Body
        <5> QED BY <4>1, <2>1
      <4>3. g[q] = Body(f, q)
        <5> HIDE DEF q, Body
        <5> QED BY <4>1
      <4>4. Body(g, k) = base * g[q] /\ Body(f, k) = base * f[q]
        <5> HIDE DEF g
        <5> QED BY <3>2
      <4> HIDE DEF Body, g, q
      <4>5. g[q] = f[q] BY <4>2, <4>3, Zenon
      <4> QED BY <4>4, <4>5, Zenon
    <3> QED BY <3>1, <3>2
  <2>3. Powers(g, m)
    <3> HIDE DEF Body
    <3> QED BY <2>2, Zenon
  <2> HIDE DEF Powers, g
  <2>4. \E h : Powers(h, m) BY <2>3
  <2> QED BY <2>4
<1>3. PICK f : Powers(f, n) /\ Power(base, n) = f[n]
  <2>1. \E f : Powers(f, n)
    <3>1. 0 .. n \subseteq S
      <4> HIDE DEF S
      <4> QED BY <1>1, <1>2, Induction
    <3> HIDE DEF Powers
    <3> QED BY <3>1
  <2>2. Power(base, n) = (CHOOSE f : Powers(f, n))[n]
    BY Zenon DEF Power
  <2> HIDE DEF Powers
  <2>3. Powers(CHOOSE f : Powers(f, n), n)
    BY <2>1, Zenon
  <2> QED BY <2>2, <2>3
<1>4. \A k \in 0 .. n : f[k] = Body(f, k)
  <2> HIDE DEF Body
  <2> QED BY <1>3
<1>5. f[0] = 1 /\ \A k \in 1 .. n : f[k] = base * f[k - 1]
  BY <1>4
<1>6. DOMAIN f = 0 .. n /\ f = [k \in 0 .. n |-> f[k]]
  <2> HIDE DEF Body
  <2>1. f = [k \in 0 .. n |-> Body(f, k)] BY <1>3
  <2>2. DOMAIN f = 0 .. n BY <2>1, Zenon
  <2> QED BY <2>1, <2>2, <1>4, Zenon
<1> DEFINE U == {k \in 0 .. n : f[k] \in Nat}
<1>7. \A k \in 0 .. n : f[k] \in Nat
  <2>1. 0 \in U BY <1>5
  <2>2. ASSUME NEW k \in 1 .. n, k - 1 \in U PROVE k \in U
    <3>1. f[k] = base * f[k - 1] /\ f[k - 1] \in Nat BY <2>2, <1>5
    <3> QED BY <3>1
  <2>3. 0 .. n \subseteq U
    <3> HIDE DEF U
    <3> QED BY <2>1, <2>2, Induction
  <2> QED BY <2>3
<1>8. f \in [0 .. n -> Nat] BY <1>6, <1>7
<1> QED BY <1>3, <1>5, <1>8

\* The power of the last digit.
LEMMA PowerZero ==
  ASSUME NEW base \in Nat
  PROVE  Power(base, 0) = 1
BY PowerIs

\* A power is a number.
LEMMA PowerType ==
  ASSUME NEW base \in Nat, NEW n \in Nat
  PROVE  Power(base, n) \in Nat
<1>1. PICK f \in [0 .. n -> Nat] : Power(base, n) = f[n]
  BY PowerIs
<1>2. n \in 0 .. n OBVIOUS
<1> QED BY <1>1, <1>2

\* The power of the digit in front.
LEMMA PowerNext ==
  ASSUME NEW base \in Nat, NEW n \in Nat
  PROVE  Power(base, n + 1) = base * Power(base, n)
<1>1. PICK f \in [0 .. n -> Nat] :
        /\ f[0] = 1 /\ \A k \in 1 .. n : f[k] = base * f[k - 1]
        /\ Power(base, n) = f[n]
  BY PowerIs
<1>2. PICK g \in [0 .. n + 1 -> Nat] :
        /\ g[0] = 1 /\ \A k \in 1 .. n + 1 : g[k] = base * g[k - 1]
        /\ Power(base, n + 1) = g[n + 1]
  <2>1. n + 1 \in Nat OBVIOUS
  <2> QED BY <2>1, PowerIs
<1> DEFINE S == {k \in 0 .. n : f[k] = g[k]}
<1>3. 0 \in S BY <1>1, <1>2
<1>4. ASSUME NEW k \in 1 .. n, k - 1 \in S PROVE k \in S
  <2>1. f[k] = base * f[k - 1] BY <1>1
  <2>2. g[k] = base * g[k - 1] BY <1>2
  <2>3. f[k - 1] = g[k - 1] BY <1>4
  <2>4. f[k] = g[k] BY <2>1, <2>2, <2>3, Zenon
  <2> QED BY <2>4
<1>5. n \in S
  <2>1. 0 .. n \subseteq S
    <3> HIDE DEF S
    <3> QED BY <1>3, <1>4, Induction
  <2> QED BY <2>1
<1>6. n + 1 \in 1 .. n + 1 /\ (n + 1) - 1 = n OBVIOUS
<1>7. g[n + 1] = base * g[(n + 1) - 1] BY <1>2, <1>6
<1>8. f[n] = g[n] BY <1>5
<1> QED BY <1>1, <1>2, <1>6, <1>7, <1>8, Zenon

\* A remainder is unique.
LEMMA RemainderIs ==
  ASSUME NEW w \in Nat \ {0}, NEW q \in Nat, NEW r \in 0 .. w - 1, NEW x, x = q * w + r
  PROVE  x % w = r
<1> DEFINE d == x \div w
           e == x % w
<1>0. q * w \in Nat OBVIOUS
<1>1. x \in Nat BY <1>0
<1>2. d \in Nat /\ e \in 0 .. w - 1 /\ x = w * d + e
  BY <1>1
<1> HIDE DEF d, e
<1>3. d = q
  <2>1. w * d \in Nat /\ w * q \in Nat /\ w * q = q * w BY <1>2
  <2>2. w * d + e = w * q + r BY <1>2, <2>1
  <2>3. ASSUME d > q PROVE FALSE
    <3>1. PICK k \in Nat : d = q + 1 + k
      <4>1. d - q - 1 \in Nat /\ d = q + 1 + (d - q - 1) BY <1>2, <2>3
      <4> QED BY <4>1
    <3>2. w * d = w * q + w + w * k BY <3>1
    <3>3. w * k \in Nat BY <3>1
    <3> QED BY <3>2, <3>3, <2>1, <2>2, <1>2
  <2>4. ASSUME q > d PROVE FALSE
    <3>1. PICK k \in Nat : q = d + 1 + k
      <4>1. q - d - 1 \in Nat /\ q = d + 1 + (q - d - 1) BY <1>2, <2>4
      <4> QED BY <4>1
    <3>2. w * q = w * d + w + w * k BY <3>1, <1>2
    <3>3. w * k \in Nat BY <3>1
    <3> QED BY <3>2, <3>3, <2>1, <2>2, <1>2
  <2> QED BY <2>3, <2>4, <1>2
<1>4. w * d = q * w BY <1>2, <1>3
<1>5. e = r BY <1>0, <1>2, <1>4
<1> QED BY <1>5 DEF e

\* A digit more: it does not matter whether what is in front has wrapped.
LEMMA WrapFirst ==
  ASSUME NEW w \in Nat \ {0}, NEW v \in Nat, NEW b \in Nat, NEW c \in Nat
  PROVE  ((v % w) * b + c) % w = (v * b + c) % w
<1> DEFINE q == v \div w
           r == v % w
           y == r * b + c
           s == y \div w
           z == y % w
<1>1. q \in Nat /\ r \in 0 .. w - 1 /\ v = w * q + r
  OBVIOUS
<1> HIDE DEF q, r
<1>2. r \in Nat /\ r * b \in Nat BY <1>1
<1>3. y \in Nat BY <1>2
<1> HIDE DEF y
<1>4. s \in Nat /\ z \in 0 .. w - 1 /\ y = w * s + z
  BY <1>3
<1> HIDE DEF s, z
<1>5. v * b + c = (q * b + s) * w + z
  <2>1. v * b = (w * q) * b + r * b BY <1>1
  <2>2. (w * q) * b = (q * b) * w BY <1>1
  <2>3. (q * b + s) * w = (q * b) * w + w * s BY <1>1, <1>4
  <2>4. y = r * b + c BY DEF y
  <2>5. (q * b) * w \in Nat /\ w * s \in Nat BY <1>1, <1>4
  <2> DEFINE vb == v * b
             rb == r * b
             qb == (q * b) * w
             ws == w * s
             all == (q * b + s) * w
  <2>6. vb = qb + rb /\ all = qb + ws /\ y = rb + c /\ y = ws + z
    BY <2>1, <2>2, <2>3, <2>4, <1>4
  <2>7. qb \in Nat /\ ws \in Nat /\ rb \in Nat BY <2>5, <1>2
  <2> HIDE DEF vb, rb, qb, ws, all
  <2>8. vb + c = all + z BY <2>6, <2>7, <1>4
  <2> QED BY <2>8 DEF vb, all
<1>6. q * b + s \in Nat BY <1>1, <1>4
<1>7. (v * b + c) % w = z BY <1>4, <1>5, <1>6, RemainderIs
<1> QED BY <1>7 DEF z, y, r

\* A sum over the indices of a numeral is taken from any index: MapThenSumSet
\* takes them in an order that nobody knows.
LEMMA SumInOrder ==
  ASSUME NEW d \in Seq(Nat), NEW base \in Nat
  PROVE  \E e \in [0 .. Len(d) -> Nat] :
           /\ e[0] = 0
           /\ \A k \in 1 .. Len(d) : e[k] = e[k - 1] + d[k] * Power(base, Len(d) - k)
           /\ Meaning(d, base) = e[Len(d)] % WORD
<1> DEFINE l == Len(d)
           w(k) == d[k] * Power(base, l - k)
           any(s) == CHOOSE x \in s : TRUE
           Rec(it, s) == IF s = {} THEN 0 ELSE w(any(s)) + it[s \ {any(s)}]
           Few(m) == {s \in SUBSET (1 .. l) : Cardinality(s) <= m}
           Sums(it, D) == it = [s \in D |-> Rec(it, s)]
           S == {m \in 0 .. l : \E it : Sums(it, Few(m))}
<1>0. l \in Nat /\ \A k \in 1 .. l : w(k) \in Nat
  <2>1. l \in Nat OBVIOUS
  <2>2. ASSUME NEW k \in 1 .. l PROVE w(k) \in Nat
    <3>1. l - k \in Nat OBVIOUS
    <3>2. Power(base, l - k) \in Nat BY <3>1, PowerType
    <3>3. d[k] \in Nat OBVIOUS
    <3> QED BY <3>2, <3>3
  <2> QED BY <2>1, <2>2
<1> HIDE DEF l, w
<1>1. \A s \in SUBSET (1 .. l) :
        /\ IsFiniteSet(s) /\ Cardinality(s) \in 0 .. l
        /\ Cardinality(s) = 0 <=> s = {}
        /\ \A x \in s : Cardinality(s \ {x}) = Cardinality(s) - 1
  <2>1. IsFiniteSet(1 .. l) /\ Cardinality(1 .. l) = l
    BY <1>0, FS_Interval
  <2> TAKE s \in SUBSET (1 .. l)
  <2>2. IsFiniteSet(s) /\ Cardinality(s) <= l
    BY <2>1, FS_Subset
  <2>3. Cardinality(s) \in Nat BY <2>2, FS_CardinalityType
  <2>4. Cardinality(s) = 0 <=> s = {} BY <2>2, FS_EmptySet
  <2>5. \A x \in s : Cardinality(s \ {x}) = Cardinality(s) - 1
    BY <2>2, FS_RemoveElement
  <2> QED BY <1>0, <2>2, <2>3, <2>4, <2>5
<1>2. \A s : s # {} => any(s) \in s
  OBVIOUS
<1>3. 0 \in S
  <2> DEFINE it == [s \in Few(0) |-> 0]
  <2>1. \A s \in Few(0) : s = {} BY <1>1
  <2>2. \A s \in Few(0) : Rec(it, s) = 0 BY <2>1
  <2> HIDE DEF Few, Rec
  <2>3. Sums(it, Few(0)) BY <2>2
  <2> HIDE DEF Sums, it
  <2>4. \E jt : Sums(jt, Few(0)) BY <2>3
  <2> QED BY <1>0, <2>4
<1>4. ASSUME NEW m \in 1 .. l, m - 1 \in S PROVE m \in S
  <2>1. PICK it : Sums(it, Few(m - 1))
    <3> HIDE DEF Sums
    <3> QED BY <1>4
  <2> DEFINE jt == [s \in Few(m) |-> Rec(it, s)]
  <2>2. ASSUME NEW s \in Few(m) PROVE Rec(jt, s) = Rec(it, s)
    <3>1. CASE s = {} BY <3>1
    <3>2. CASE s # {}
      <4> DEFINE r == s \ {any(s)}
      <4>1. any(s) \in s BY <1>2, <3>2
      <4>2. r \in Few(m - 1) /\ r \in Few(m)
        <5> DEFINE c == any(s)
        <5> HIDE DEF any, c
        <5>0. s \in SUBSET (1 .. l) /\ Cardinality(s) <= m
          OBVIOUS
        <5>1. c \in s BY <4>1 DEF c
        <5> HIDE DEF Few
        <5>2. Cardinality(s \ {c}) = Cardinality(s) - 1 /\ Cardinality(s) \in 0 .. l
          BY <5>0, <5>1, <1>1
        <5>3. s \ {c} \in SUBSET (1 .. l) BY <5>0
        <5>4. Cardinality(s \ {c}) <= m - 1 /\ Cardinality(s \ {c}) <= m
          BY <5>0, <5>2, <1>0
        <5>5. r = s \ {c} BY DEF c
        <5> HIDE DEF r
        <5> QED BY <5>3, <5>4, <5>5 DEF Few
      <4> HIDE DEF Few
      <4>3. it[r] = Rec(it, r)
        <5> HIDE DEF r, Rec
        <5> QED BY <4>2, <2>1
      <4>4. jt[r] = Rec(it, r)
        <5> HIDE DEF r, Rec
        <5> QED BY <4>2
      <4>5. jt[r] = it[r]
        <5> HIDE DEF jt, r, Rec
        <5> QED BY <4>3, <4>4
      <4> HIDE DEF jt, Sums, S
      <4>6. /\ Rec(jt, s) = w(any(s)) + jt[r]
            /\ Rec(it, s) = w(any(s)) + it[r]
        <5> HIDE DEF any
        <5> QED BY <3>2
      <4> HIDE DEF Rec, r
      <4> QED BY <4>5, <4>6, Zenon
    <3> QED BY <3>1, <3>2
  <2>3. Sums(jt, Few(m))
    <3> HIDE DEF Rec, Few
    <3> QED BY <2>2, Zenon
  <2> HIDE DEF Sums, jt, Few
  <2>4. \E kt : Sums(kt, Few(m)) BY <2>3
  <2> QED BY <2>4, <1>0
<1>5. PICK it : /\ \A s \in SUBSET (1 .. l) : it[s] = Rec(it, s)
                /\ Meaning(d, base) = it[1 .. l] % WORD
  <2>1. l \in S
    <3>1. 0 .. l \subseteq S
      <4> HIDE DEF S
      <4> QED BY <1>0, <1>3, <1>4, Induction
    <3> HIDE DEF S
    <3> QED BY <3>1, <1>0
  <2>2. Few(l) = SUBSET (1 .. l) BY <1>1, <1>0
  <2>3. \E it : Sums(it, SUBSET (1 .. l))
    <3> HIDE DEF Sums, Few
    <3> QED BY <2>1, <2>2
  <2>4. Meaning(d, base) = (CHOOSE it : Sums(it, SUBSET (1 .. l)))[1 .. l] % WORD
    BY Zenon DEF Meaning, MapThenSumSet, MapThenFoldSet, l, w
  <2> HIDE DEF Sums
  <2>5. Sums(CHOOSE it : Sums(it, SUBSET (1 .. l)), SUBSET (1 .. l))
    BY <2>3, Zenon
  <2> DEFINE it == CHOOSE it : Sums(it, SUBSET (1 .. l))
  <2>6. Sums(it, SUBSET (1 .. l)) /\ Meaning(d, base) = it[1 .. l] % WORD
    BY <2>4, <2>5
  <2> HIDE DEF it, Rec
  <2>7. \A s \in SUBSET (1 .. l) : it[s] = Rec(it, s)
    BY <2>6 DEF Sums
  <2> QED BY <2>6, <2>7
<1> HIDE DEF any
(* Any index may be taken first.                                           *)
<1> DEFINE Free(s) == /\ it[s] \in Nat
                      /\ \A x \in s : it[s] = w(x) + it[s \ {x}]
           T == {m \in 0 .. l : \A s \in SUBSET (1 .. l) : Cardinality(s) <= m => Free(s)}
<1>6. ASSUME NEW m \in 1 .. l, m - 1 \in T PROVE m \in T
  <2> SUFFICES ASSUME NEW s \in SUBSET (1 .. l), Cardinality(s) <= m PROVE Free(s)
    BY <1>0
  <2>0. \A r \in SUBSET (1 .. l) : Cardinality(r) <= m - 1 => Free(r)
    BY <1>6
  <2>1. CASE s = {}
    <3>1. it[s] = 0 BY <2>1, <1>5
    <3> QED BY <2>1, <3>1
  <2>2. CASE s # {}
    <3> DEFINE c == any(s)
               r == s \ {c}
    <3>1. c \in s BY <2>2, <1>2
    <3>2. r \in SUBSET (1 .. l) /\ Cardinality(r) <= m - 1
      <4> HIDE DEF c, Free, T
      <4>1. Cardinality(r) = Cardinality(s) - 1 /\ Cardinality(s) \in 0 .. l
        BY <3>1, <1>1
      <4>2. r \in SUBSET (1 .. l) OBVIOUS
      <4> HIDE DEF r
      <4> QED BY <4>1, <4>2, <1>0
    <3>3. it[s] = w(c) + it[r]
      <4>1. it[s] = Rec(it, s) BY <1>5
      <4> QED BY <4>1, <2>2
    <3> HIDE DEF c
    <3>4. Free(r)
      <4> HIDE DEF Free, r
      <4> QED BY <3>2, <2>0
    <3>5. w(c) \in Nat BY <3>1, <1>0
    <3>6. it[s] \in Nat BY <3>3, <3>4, <3>5
    <3>7. ASSUME NEW x \in s PROVE it[s] = w(x) + it[s \ {x}]
      <4>1. CASE x = c BY <4>1, <3>3
      <4>2. CASE x # c
        <5> DEFINE u == s \ {x}
                   v == s \ {x, c}
        <5>1. x \in r /\ c \in u /\ r \ {x} = v /\ u \ {c} = v BY <4>2, <3>1
        <5>2. it[r] = w(x) + it[v]
          <6>1. it[r] = w(x) + it[r \ {x}] BY <3>4, <5>1
          <6> QED BY <6>1, <5>1
        <5>3. u \in SUBSET (1 .. l) /\ Cardinality(u) <= m - 1
          <6>1. Cardinality(u) = Cardinality(s) - 1 /\ Cardinality(s) \in Nat
            BY <1>1
          <6> QED BY <6>1, <1>0
        <5> HIDE DEF u, v, r
        <5>4. Free(u)
          <6> HIDE DEF Free
          <6> QED BY <5>3, <2>0
        <5>5. it[u] = w(c) + it[v]
          <6>1. it[u] = w(c) + it[u \ {c}] BY <5>4, <5>1
          <6> QED BY <6>1, <5>1
        <5>6. it[v] \in Nat
          <6>1. v \in SUBSET (1 .. l) /\ Cardinality(v) <= m - 1
            <7>1. Cardinality(v) = Cardinality(u) - 1 /\ Cardinality(u) \in Nat
              BY <5>1, <5>3, <1>1
            <7>2. v \in SUBSET (1 .. l) BY DEF v
            <7> QED BY <7>1, <7>2, <5>3, <1>0
          <6>2. Free(v)
            <7> HIDE DEF Free
            <7> QED BY <6>1, <2>0
          <6> QED BY <6>2
        <5>7. w(x) \in Nat BY <1>0
        <5>8. it[s] = w(x) + it[u]
          BY <3>3, <5>2, <5>5, <5>6, <5>7, <3>5
        <5> QED BY <5>8 DEF u
      <4> QED BY <4>1, <4>2
    <3> QED BY <3>6, <3>7
  <2> QED BY <2>1, <2>2
<1>7. 0 \in T
  <2>1. ASSUME NEW s \in SUBSET (1 .. l), Cardinality(s) <= 0 PROVE Free(s)
    <3>1. s = {} BY <2>1, <1>1
    <3>2. it[s] = 0 BY <3>1, <1>5
    <3> QED BY <3>1, <3>2
  <2> HIDE DEF Free
  <2> QED BY <2>1, <1>0
<1>8. \A s \in SUBSET (1 .. l) : Free(s)
  <2>1. 0 .. l \subseteq T
    <3> HIDE DEF T
    <3> QED BY <1>0, <1>6, <1>7, Induction
  <2> HIDE DEF Free
  <2>2. l \in T BY <2>1, <1>0
  <2> QED BY <2>2, <1>1
<1> HIDE DEF Rec
<1> DEFINE e == [k \in 0 .. l |-> it[1 .. k]]
<1>9. e \in [0 .. l -> Nat]
  <2>1. ASSUME NEW k \in 0 .. l PROVE it[1 .. k] \in Nat
    <3>1. 1 .. k \in SUBSET (1 .. l) BY <1>0
    <3>2. Free(1 .. k)
      <4> HIDE DEF Free
      <4> QED BY <3>1, <1>8
    <3> QED BY <3>2
  <2> QED BY <2>1
<1>10. e[0] = 0
  <2>1. 1 .. 0 = {} /\ {} \in SUBSET (1 .. l) /\ 0 \in 0 .. l BY <1>0
  <2>2. it[{}] = 0 BY <2>1, <1>5 DEF Rec
  <2> QED BY <2>1, <2>2
<1>11. \A k \in 1 .. l : e[k] = e[k - 1] + w(k)
  <2> TAKE k \in 1 .. l
  <2>1. 1 .. k \in SUBSET (1 .. l) /\ k \in 1 .. k /\ (1 .. k) \ {k} = 1 .. k - 1
    BY <1>0
  <2>2. it[1 .. k] = w(k) + it[(1 .. k) \ {k}]
    <3>1. Free(1 .. k)
      <4> HIDE DEF Free
      <4> QED BY <2>1, <1>8
    <3> QED BY <3>1, <2>1
  <2>3. k \in 0 .. l /\ k - 1 \in 0 .. l BY <1>0
  <2>4. e[k] = w(k) + e[k - 1] BY <2>1, <2>2, <2>3
  <2>5. e[k - 1] \in Nat /\ w(k) \in Nat
    <3> HIDE DEF e
    <3> QED BY <2>3, <1>9, <1>0
  <2> HIDE DEF e
  <2> QED BY <2>4, <2>5
<1>12. Meaning(d, base) = e[l] % WORD BY <1>0, <1>5
<1> HIDE DEF e
<1> QED BY <1>9, <1>10, <1>11, <1>12 DEF l, w

\* The digits read one by one are what the numeral means.
LEMMA MeaningIsAccumulated ==
  ASSUME NEW d \in Seq(Nat), NEW base \in Nat
  PROVE  Meaning(d, base) = Accumulate(d, base)
<1> DEFINE l == Len(d)
           p(k) == Power(base, l - k)
<1>0. l \in Nat /\ (\A k \in 1 .. l : d[k] \in Nat) /\ WORD \in Nat \ {0}
  BY NumbersAssumption
<1>1. PICK e \in [0 .. l -> Nat] :
        /\ e[0] = 0
        /\ \A k \in 1 .. l : e[k] = e[k - 1] + d[k] * p(k)
        /\ Meaning(d, base) = e[l] % WORD
  BY SumInOrder
<1>2. PICK a : /\ a[0] = 0
               /\ \A k \in 1 .. l : a[k] = (a[k - 1] * base + d[k]) % WORD
               /\ Accumulate(d, base) = a[l]
  BY AccumulatedByDigit
<1> HIDE DEF l
<1>3. /\ \A k \in 0 .. l : p(k) \in Nat
      /\ \A k \in 1 .. l : p(k - 1) = base * p(k)
      /\ p(l) = 1
  <2>1. ASSUME NEW k \in 0 .. l PROVE p(k) \in Nat
    <3>1. l - k \in Nat BY <1>0
    <3> QED BY <3>1, PowerType
  <2>2. ASSUME NEW k \in 1 .. l PROVE p(k - 1) = base * p(k)
    <3>1. l - k \in Nat /\ l - (k - 1) = (l - k) + 1 BY <1>0
    <3>2. Power(base, (l - k) + 1) = base * Power(base, l - k) BY <3>1, PowerNext
    <3> QED BY <3>1, <3>2
  <2>3. p(l) = 1
    <3>1. l - l = 0 BY <1>0
    <3> QED BY <3>1, PowerZero
  <2> QED BY <2>1, <2>2, <2>3
<1> HIDE DEF p
<1> DEFINE S == {k \in 0 .. l : \E u \in Nat : e[k] = u * p(k) /\ u % WORD = a[k]}
<1>4. 0 \in S
  <2>1. e[0] = 0 * p(0) /\ 0 % WORD = a[0] /\ 0 \in 0 .. l
    BY <1>0, <1>1, <1>2, <1>3
  <2> QED BY <2>1
<1>5. ASSUME NEW k \in 1 .. l, k - 1 \in S PROVE k \in S
  <2>1. PICK u \in Nat : e[k - 1] = u * p(k - 1) /\ u % WORD = a[k - 1]
    BY <1>5
  <2> DEFINE v == u * base + d[k]
  <2>2. d[k] \in Nat /\ p(k) \in Nat /\ k \in 0 .. l BY <1>0, <1>3
  <2>3. v \in Nat
    <3>1. u * base \in Nat OBVIOUS
    <3> QED BY <3>1, <2>2
  <2>4. e[k] = v * p(k)
    <3>1. e[k] = e[k - 1] + d[k] * p(k) BY <1>1
    <3>2. e[k - 1] = u * (base * p(k)) BY <2>1, <1>3
    <3>3. v * p(k) = u * (base * p(k)) + d[k] * p(k)
      <4> DEFINE c == d[k]
                 q == p(k)
      <4>1. c \in Nat /\ q \in Nat BY <2>2
      <4> HIDE DEF c, q
      <4>2. (u * base + c) * q = u * (base * q) + c * q BY <4>1
      <4> QED BY <4>2 DEF c, q
    <3> HIDE DEF v
    <3> QED BY <3>1, <3>2, <3>3
  <2>5. v % WORD = a[k]
    <3>1. ((u % WORD) * base + d[k]) % WORD = v % WORD
      <4>1. \A c \in Nat : ((u % WORD) * base + c) % WORD = (u * base + c) % WORD
        BY <1>0, WrapFirst
      <4> QED BY <4>1, <2>2
    <3>2. a[k] = (a[k - 1] * base + d[k]) % WORD BY <1>2
    <3> HIDE DEF v
    <3> QED BY <3>1, <3>2, <2>1
  <2> HIDE DEF v
  <2> QED BY <2>2, <2>3, <2>4, <2>5
<1>6. l \in S
  <2>1. 0 .. l \subseteq S
    <3> HIDE DEF S
    <3> QED BY <1>0, <1>4, <1>5, Induction
  <2> HIDE DEF S
  <2> QED BY <2>1, <1>0
<1>7. PICK u \in Nat : e[l] = u * p(l) /\ u % WORD = a[l]
  BY <1>6
<1>8. e[l] = u BY <1>7, <1>3
<1> QED BY <1>1, <1>2, <1>7, <1>8

\* The numbers of a text that is typed.
LEMMA TypedIsText ==
  ASSUME NEW t \in BoundedSeq(Alphabet, MaxLen)
  PROVE  t \in Seq(Nat) /\ \A k \in 1 .. Len(t) : t[k] \in Alphabet
<1>1. Alphabet \subseteq Nat /\ MaxLen \in Nat
  <2>1. 0 .. 40 \subseteq Nat OBVIOUS
  <2> QED BY <2>1, NumbersAssumption
<1>2. t \in UNION {[1 .. n -> Alphabet] : n \in 0 .. MaxLen}
  BY <1>1, Zenon DEF BoundedSeq, SeqOf
<1>3. PICK n \in 0 .. MaxLen : t \in [1 .. n -> Alphabet]
  BY <1>2
<1>4. n \in Nat /\ t \in [1 .. n -> Nat]
  <2>1. n \in Nat BY <1>1
  <2>2. \A k \in 1 .. n : t[k] \in Nat BY <1>1, <1>3
  <2>3. t = [k \in 1 .. n |-> t[k]] BY <1>3
  <2> QED BY <2>1, <2>2, <2>3
<1>5. t \in Seq(Nat) /\ Len(t) = n
  BY <1>4
<1> QED BY <1>3, <1>5

\* What is behind f in t, when t begins with f.
LEMMA PrefixIs ==
  ASSUME NEW f \in Seq(Nat), NEW t \in Seq(Nat)
  PROVE  IsPrefix(f, t) <=> Len(f) <= Len(t) /\ \A k \in 1 .. Len(f) : f[k] = t[k]
<1>1. IsPrefix(f, t) <=> Len(f) <= Len(t) /\ SubSeq(f, 1, Len(f)) = SubSeq(t, 1, Len(f))
  BY DEF IsPrefix
<1>2. SubSeq(f, 1, Len(f)) = f BY SubSeqFull
<1>3. ASSUME Len(f) <= Len(t)
      PROVE  f = SubSeq(t, 1, Len(f)) <=> \A k \in 1 .. Len(f) : f[k] = t[k]
  <2> DEFINE s == SubSeq(t, 1, Len(f))
  <2>1. s \in Seq(Nat) /\ Len(s) = Len(f) /\ \A k \in 1 .. Len(f) : s[k] = t[k]
    BY <1>3
  <2> HIDE DEF s
  <2>2. ASSUME \A k \in 1 .. Len(f) : f[k] = t[k] PROVE f = s
    BY <2>1, <2>2, SameText
  <2>3. f = s => \A k \in 1 .. Len(f) : f[k] = t[k] BY <2>1
  <2> QED BY <2>2, <2>3 DEF s
<1> QED BY <1>1, <1>2, <1>3

(* What stands in front of the digits.                                     *)
SignAndPrefix(s, base) ==
  (IF s = -1 THEN <<Minus>> ELSE <<>>)
    \o (IF base = 10 THEN <<>> ELSE put_type(FALSE, base))
Signs(s) == IF s = -1 THEN 1 ELSE 0
Prefixed(base) == IF base = 10 THEN 0 ELSE 2

\* A minus, or none, and the prefix of the base, or none.
LEMMA FrontIs ==
  ASSUME NEW s \in {1, -1}, NEW base \in {2, 10, 16}
  PROVE  LET f == SignAndPrefix(s, base)
             q == Signs(s)
         IN /\ f \in Seq(Nat) /\ Len(f) = q + Prefixed(base)
            /\ s = -1 => f[1] = Minus
            /\ base # 10 => f[q + 1] = 0 /\ f[q + 2] = IF base = 16 THEN X ELSE B
<1> DEFINE f == SignAndPrefix(s, base)
           p == Prefixed(base)
           q == Signs(s)
<1>0. f = SignAndPrefix(s, base) /\ p = (IF base = 10 THEN 0 ELSE 2)
      /\ q = (IF s = -1 THEN 1 ELSE 0)
  BY Zenon DEF Signs, Prefixed
<1> HIDE DEF f, p, q
<1> DEFINE a == IF s = -1 THEN <<Minus>> ELSE <<>>
           b == IF base = 10 THEN <<>> ELSE put_type(FALSE, base)
<1>1. a \in Seq(Nat) /\ Len(a) = q /\ (s = -1 => a[1] = Minus)
  <2>1. CASE s = -1
    <3>1. a = <<Minus>> /\ q = 1 BY <1>0, <2>1
    <3> HIDE DEF a
    <3> QED BY <3>1 DEF Minus
  <2>2. CASE s # -1
    <3>1. a = <<>> /\ q = 0 BY <1>0, <2>2
    <3> HIDE DEF a
    <3> QED BY <3>1, <2>2
  <2> QED BY <2>1, <2>2
<1>2. /\ b \in Seq(Nat) /\ Len(b) = p
      /\ base # 10 => b[1] = 0 /\ b[2] = IF base = 16 THEN X ELSE B
  <2>1. CASE base = 10
    <3>1. b = <<>> /\ p = 0 BY <1>0, <2>1
    <3> HIDE DEF b
    <3> QED BY <3>1, <2>1
  <2>2. CASE base = 2
    <3>1. b = <<0, B>> /\ p = 2 BY <1>0, <2>2 DEF put_type
    <3> HIDE DEF b
    <3> QED BY <3>1, <2>2 DEF B
  <2>3. CASE base = 16
    <3>1. b = <<0, X>> /\ p = 2 BY <1>0, <2>3 DEF put_type
    <3> HIDE DEF b
    <3> QED BY <3>1, <2>3 DEF X
  <2> QED BY <2>1, <2>2, <2>3
<1>3. f = a \o b BY <1>0, Zenon DEF SignAndPrefix
<1> HIDE DEF a, b
<1>4. /\ f \in Seq(Nat) /\ Len(f) = q + p
      /\ \A k \in 1 .. q + p : f[k] = IF k <= q THEN a[k] ELSE b[k - q]
  <2> DEFINE c == a \o b
             al == Len(a)
             bl == Len(b)
  <2>1. al = q /\ bl = p /\ c = f BY <1>1, <1>2, <1>3
  <2>2. /\ c \in Seq(Nat) /\ Len(c) = al + bl
        /\ \A k \in 1 .. al + bl : c[k] = IF k <= al THEN a[k] ELSE b[k - al]
    BY <1>1, <1>2, ConcatProperties
  <2> HIDE DEF c, al, bl
  <2> QED BY <2>1, <2>2, Zenon
<1>5. s = -1 => f[1] = Minus
  <2> SUFFICES ASSUME s = -1 PROVE f[1] = Minus
    OBVIOUS
  <2>1. q = 1 /\ p \in {0, 2} BY <1>0, Zenon
  <2>2. 1 \in 1 .. q + p /\ 1 <= q BY <2>1
  <2>3. f[1] = a[1] BY <2>2, <1>4
  <2> QED BY <2>3, <1>1, Zenon
<1>6. ASSUME base # 10
      PROVE  f[q + 1] = 0 /\ f[q + 2] = IF base = 16 THEN X ELSE B
  <2>1. p = 2 /\ q \in {0, 1} BY <1>0, <1>6
  <2>2. q + 1 \in 1 .. q + p /\ q + 2 \in 1 .. q + p /\ ~(q + 1 <= q) /\ ~(q + 2 <= q)
        /\ (q + 1) - q = 1 /\ (q + 2) - q = 2
    BY <2>1
  <2>3. f[q + 1] = b[1] /\ f[q + 2] = b[2] BY <2>2, <1>4
  <2> QED BY <2>3, <1>2, <1>6
<1> QED BY <1>4, <1>5, <1>6 DEF f, p, q

\* A numeral behind m characters.
LEMMA NumeralBehind ==
  ASSUME NEW t \in Seq(Nat), NEW m \in 0 .. Len(t), NEW base \in Nat
  PROVE  IsNumeral(Values(Drop(t, m)), base)
           <=> m < Len(t) /\ \A k \in m + 1 .. Len(t) : ValueOfChar(t[k]) < base
<1> DEFINE r == Drop(t, m)
           d == Values(r)
           l == Len(t)
<1>0. /\ r \in Seq(Nat) /\ Len(r) = l - m
      /\ \A k \in 1 .. l - m : r[k] = t[m + k]
  BY DropIs
<1> HIDE DEF r
<1>1. /\ d \in Seq(Nat) /\ Len(d) = l - m
      /\ \A k \in 1 .. l - m : d[k] = ValueOfChar(t[m + k])
  <2>1. HasValues(d, r) BY <1>0, ValuesAre
  <2> HIDE DEF d
  <2> QED BY <1>0, <2>1 DEF HasValues
<1>2. IsNumeral(d, base) <=> d # <<>> /\ \A k \in 1 .. Len(d) : d[k] < base
  BY DEF IsNumeral
<1> HIDE DEF d
<1>3. l \in Nat /\ m \in 0 .. l OBVIOUS
<1> HIDE DEF l
<1>4. d # <<>> <=> m < l BY <1>1, <1>3
<1>5. ASSUME \A k \in 1 .. l - m : d[k] < base, NEW k \in m + 1 .. l
      PROVE  ValueOfChar(t[k]) < base
  <2>1. k - m \in 1 .. l - m /\ m + (k - m) = k BY <1>3
  <2>2. d[k - m] < base /\ d[k - m] = ValueOfChar(t[k]) BY <1>1, <1>5, <2>1
  <2> QED BY <2>2
<1>6. ASSUME \A k \in m + 1 .. l : ValueOfChar(t[k]) < base, NEW k \in 1 .. l - m
      PROVE  d[k] < base
  <2>1. m + k \in m + 1 .. l BY <1>3
  <2>2. ValueOfChar(t[m + k]) < base /\ d[k] = ValueOfChar(t[m + k]) BY <1>1, <1>6, <2>1
  <2> QED BY <2>2
<1>7. (\A k \in 1 .. Len(d) : d[k] < base) <=> (\A k \in m + 1 .. l : ValueOfChar(t[k]) < base)
  BY <1>1, <1>5, <1>6
<1> QED BY <1>2, <1>4, <1>7 DEF d, r, l

(* Where the digits of a reading begin.                                    *)
DigitsAt(n, s, base) == n + (IF s = -1 THEN 1 ELSE 0) + (IF base = 10 THEN 0 ELSE 2)

\* A reading of a text is a layout of it.
LEMMA SpelledIsLayout ==
  ASSUME text \in Seq(Nat), NEW n \in 0 .. Len(text), NEW s \in {1, -1},
         NEW base \in {2, 10, 16}, NEW negative \in BOOLEAN, negative <=> (s = -1),
         NEW m, m = DigitsAt(n, s, base)
  PROVE  /\ Spelled(n, s, base)
              <=> (s = -1 => signed) /\ Layout(text, n, negative, base, m)
         /\ DigitsBehind(n, s, base) = Values(Drop(text, m))
<1> DEFINE f == SignAndPrefix(s, base)
           p == Prefixed(base)
           q == Signs(s)
           l == Len(text)
           d == Drop(text, n)
<1>0. m = n + (IF s = -1 THEN 1 ELSE 0) + (IF base = 10 THEN 0 ELSE 2)
  BY Zenon DEF DigitsAt
<1>1. DigitsBehind(n, s, base) = Values(Drop(text, m)) BY <1>0, Zenon DEF DigitsBehind
<1>2. Spelled(n, s, base)
        <=> /\ s = -1 => signed
            /\ \A k \in 1 .. n : text[k] = Space
            /\ IsPrefix(f, d)
            /\ IsNumeral(Values(Drop(text, n + Len(f))), base)
  <2>1. f = (IF s = -1 THEN <<Minus>> ELSE <<>>)
              \o (IF base = 10 THEN <<>> ELSE put_type(FALSE, base))
    BY Zenon DEF SignAndPrefix
  <2> HIDE DEF f, d
  <2> QED BY <2>1, Zenon DEF Spelled, d
<1>3. /\ f \in Seq(Nat) /\ Len(f) = q + p
      /\ s = -1 => f[1] = Minus
      /\ base # 10 => f[q + 1] = 0 /\ f[q + 2] = IF base = 16 THEN X ELSE B
  BY FrontIs
<1>4. d \in Seq(Nat) /\ Len(d) = l - n /\ \A k \in 1 .. l - n : d[k] = text[n + k]
  BY DropIs
<1>5. IsPrefix(f, d) <=> Len(f) <= Len(d) /\ \A k \in 1 .. Len(f) : f[k] = d[k]
  BY <1>3, <1>4, PrefixIs
<1>6. m = n + q + p /\ q \in {0, 1} /\ p \in {0, 2} /\ l \in Nat /\ n \in 0 .. l
      /\ (p = 0 <=> base = 10) /\ (q = 1 <=> negative)
  BY <1>0 DEF Signs, Prefixed
<1> HIDE DEF f, d, p, q
<1>7. CASE m > l
  <2>1. ~ IsPrefix(f, d) BY <1>7, <1>3, <1>4, <1>5, <1>6
  <2>2. ~ Layout(text, n, negative, base, m)
    BY <1>7, <1>6 DEF Layout
  <2> QED BY <1>1, <1>2, <2>1, <2>2
<1>8. CASE m <= l
  <2>1. n + Len(f) = m BY <1>3, <1>6
  <2>2. m \in 0 .. Len(text) BY <1>6, <1>8
  <2>3. IsNumeral(Values(Drop(text, m)), base)
          <=> m < Len(text) /\ \A k \in m + 1 .. Len(text) : ValueOfChar(text[k]) < base
    <3>1. base \in Nat OBVIOUS
    <3> QED BY <3>1, <2>2, NumeralBehind
  <2>4. IsPrefix(f, d)
          <=> /\ negative => text[n + 1] = Minus
              /\ base # 10 => text[m - 1] = 0 /\ text[m] = IF base = 16 THEN X ELSE B
    <3>1. IsPrefix(f, d) <=> \A k \in 1 .. q + p : f[k] = text[n + k]
      <4>1. q + p <= l - n BY <1>6, <1>8
      <4>2. \A k \in 1 .. q + p : k \in 1 .. l - n BY <4>1, <1>6
      <4> QED BY <4>1, <4>2, <1>3, <1>4, <1>5
    <3>2. ASSUME \A k \in 1 .. q + p : f[k] = text[n + k]
          PROVE  /\ negative => text[n + 1] = Minus
                 /\ base # 10 => text[m - 1] = 0 /\ text[m] = IF base = 16 THEN X ELSE B
      <4>1. negative => text[n + 1] = Minus
        <5>1. negative => 1 \in 1 .. q + p BY <1>6
        <5> QED BY <5>1, <3>2, <1>3
      <4>2. ASSUME base # 10
            PROVE  text[m - 1] = 0 /\ text[m] = IF base = 16 THEN X ELSE B
        <5>1. q + 1 \in 1 .. q + p /\ q + 2 \in 1 .. q + p
              /\ n + (q + 1) = m - 1 /\ n + (q + 2) = m
          BY <4>2, <1>6
        <5> QED BY <5>1, <4>2, <3>2, <1>3
      <4> QED BY <4>1, <4>2
    <3>3. ASSUME negative => text[n + 1] = Minus,
                 base # 10 => text[m - 1] = 0 /\ text[m] = IF base = 16 THEN X ELSE B,
                 NEW k \in 1 .. q + p
          PROVE  f[k] = text[n + k]
      <4>1. CASE k = 1 /\ negative BY <4>1, <3>3, <1>3
      <4>2. CASE base # 10 /\ k = q + 1
        <5>1. n + k = m - 1 BY <4>2, <1>6
        <5> QED BY <5>1, <4>2, <3>3, <1>3
      <4>3. CASE base # 10 /\ k = q + 2
        <5>1. n + k = m BY <4>3, <1>6
        <5> QED BY <5>1, <4>3, <3>3, <1>3
      <4>4. (k = 1 /\ negative) \/ (base # 10 /\ k = q + 1) \/ (base # 10 /\ k = q + 2)
        BY <1>6
      <4> QED BY <4>1, <4>2, <4>3, <4>4
    <3> QED BY <3>1, <3>2, <3>3
  <2>5. Layout(text, n, negative, base, m)
          <=> /\ m < Len(text)
              /\ \A k \in 1 .. n : text[k] = Space
              /\ negative => text[n + 1] = Minus
              /\ base = 16 => text[m - 1] = 0 /\ text[m] = X
              /\ base = 2 => text[m - 1] = 0 /\ text[m] = B
              /\ \A k \in m + 1 .. Len(text) : ValueOfChar(text[k]) < base
    <3>1. m = n + (IF negative THEN 1 ELSE 0) + (IF base = 10 THEN 0 ELSE 2)
      BY <1>0
    <3> QED BY <3>1, Zenon DEF Layout
  <2>6. (base # 10 => text[m - 1] = 0 /\ text[m] = IF base = 16 THEN X ELSE B)
          <=> /\ base = 16 => text[m - 1] = 0 /\ text[m] = X
              /\ base = 2 => text[m - 1] = 0 /\ text[m] = B
    OBVIOUS
  <2> QED BY <1>1, <1>2, <2>1, <2>3, <2>4, <2>5, <2>6
<1> QED BY <1>7, <1>8, <1>6

\* The steps of string_to_integral() on one text.
LEMMA ReadSteps ==
  ASSUME NEW t, NEW isSigned
  PROVE  LET sv == SkipSpaces(t)
             negative == isSigned /\ sv[1] = Minus
             number == NumberOf(sv, negative)
         IN string_to_integral(t, isSigned)
              = Outcome(DigitsOf(number), Base(number), negative, isSigned)
BY Zenon DEF string_to_integral, Outcome, Okay, DigitsOf, NumberOf

\* A text of blanks alone spells nothing.
LEMMA BlanksAreNoNumber ==
  ASSUME NEW t \in Seq(Nat), \A k \in 1 .. Len(t) : t[k] = Space,
         Before \notin 0 .. 9, NEW isSigned \in BOOLEAN
  PROVE  string_to_integral(t, isSigned)[1] # "ok"
<1> DEFINE sv == SkipSpaces(t)
           negative == isSigned /\ sv[1] = Minus
           number == NumberOf(sv, negative)
<1>1. sv = <<Before>> \o t BY OnlyBlanks
<1>2. Before \in 10 .. 40 BY NumbersAssumption
<1>3. /\ sv \in Seq(Nat) /\ Len(sv) = 1 + Len(t) /\ sv[1] = Before
      /\ \A k \in 2 .. Len(sv) : sv[k] = Space
  <2>1. <<Before>> \in Seq(Nat) /\ Len(<<Before>>) = 1 BY <1>2
  <2>2. sv \in Seq(Nat) /\ Len(sv) = 1 + Len(t)
        /\ \A k \in 1 .. 1 + Len(t) : sv[k] = IF k <= 1 THEN <<Before>>[k] ELSE t[k - 1]
    <3> DEFINE c == <<Before>> \o t
    <3>1. c \in Seq(Nat) /\ Len(c) = 1 + Len(t)
          /\ \A k \in 1 .. 1 + Len(t) : c[k] = IF k <= 1 THEN <<Before>>[k] ELSE t[k - 1]
      BY <2>1, ConcatProperties
    <3> HIDE DEF c, sv
    <3>2. sv = c BY <1>1 DEF c
    <3> QED BY <3>1, <3>2, Zenon
  <2> HIDE DEF sv
  <2>3. sv[1] = Before
    <3>1. 1 \in 1 .. 1 + Len(t) /\ 1 <= 1 OBVIOUS
    <3> QED BY <3>1, <2>2
  <2>4. ASSUME NEW k \in 2 .. Len(sv) PROVE sv[k] = Space
    <3>1. k \in 1 .. 1 + Len(t) /\ ~(k <= 1) /\ k - 1 \in 1 .. Len(t) BY <2>2
    <3> QED BY <3>1, <2>2
  <2> QED BY <2>2, <2>3, <2>4
<1>4. string_to_integral(t, isSigned)
        = Outcome(DigitsOf(number), Base(number), negative, isSigned)
  BY ReadSteps, Zenon
<1> HIDE DEF sv
(* No character of it is a digit, nor a letter of a prefix behind another. *)
<1>5. /\ number \in Seq(Nat)
      /\ \A k \in 1 .. Len(number) : number[k] >= 10
  <2>1. \A k \in 1 .. Len(sv) : sv[k] >= 10
    <3> TAKE k \in 1 .. Len(sv)
    <3>1. CASE k = 1 BY <3>1, <1>2, <1>3
    <3>2. CASE k # 1
      <4>1. k \in 2 .. Len(sv) BY <3>2, <1>3
      <4> QED BY <4>1, <1>3 DEF Space
    <3> QED BY <3>1, <3>2
  <2>2. CASE negative
    <3>1. number = Tail(sv) BY <2>2, Zenon DEF NumberOf
    <3>2. Tail(sv) = Drop(sv, 1)
      <4>1. Len(t) \in Nat OBVIOUS
      <4>2. Len(sv) > 0 BY <4>1, <1>3
      <4> QED BY <4>2, <1>3, TailIsDrop
    <3>3. /\ Drop(sv, 1) \in Seq(Nat) /\ Len(Drop(sv, 1)) = Len(sv) - 1
          /\ \A k \in 1 .. Len(sv) - 1 : Drop(sv, 1)[k] = sv[1 + k]
      <4>1. 1 \in 0 .. Len(sv) BY <1>3
      <4> QED BY <4>1, <1>3, DropIs
    <3> HIDE DEF number, negative
    <3>4. number = Drop(sv, 1) BY <3>1, <3>2, Zenon
    <3>5. number \in Seq(Nat) /\ Len(number) = Len(sv) - 1
          /\ \A k \in 1 .. Len(sv) - 1 : number[k] = sv[1 + k]
      BY <3>3, <3>4, Zenon
    <3>6. ASSUME NEW k \in 1 .. Len(number) PROVE number[k] >= 10
      <4>1. k \in 1 .. Len(sv) - 1 /\ 1 + k \in 1 .. Len(sv) BY <3>5, <1>3
      <4> QED BY <4>1, <3>5, <2>1
    <3> QED BY <3>5, <3>6
  <2>3. CASE ~negative
    <3>1. number = sv BY <2>3, Zenon DEF NumberOf
    <3> HIDE DEF number
    <3> QED BY <3>1, <2>1, <1>3
  <2> QED BY <2>2, <2>3
<1> HIDE DEF number, negative
<1> DEFINE d == Values(number)
<1>d. /\ d \in Seq(Nat) /\ Len(d) = Len(number)
      /\ \A k \in 1 .. Len(d) : d[k] >= 10
  <2>1. d \in Seq(Nat) /\ Len(d) = Len(number)
        /\ \A k \in 1 .. Len(number) : d[k] = ValueOfChar(number[k])
    BY <1>5, ValuesAre DEF HasValues
  <2> HIDE DEF d
  <2>2. ASSUME NEW k \in 1 .. Len(d) PROVE d[k] >= 10
    <3>1. number[k] \in Nat /\ number[k] >= 10 /\ d[k] = ValueOfChar(number[k])
      BY <2>1, <1>5
    <3> DEFINE c == number[k]
               v == d[k]
    <3> HIDE DEF c, v
    <3>2. c \in Nat /\ c >= 10 /\ v = ValueOfChar(c) BY <3>1, Zenon DEF c, v
    <3>3. v >= 10 BY <3>2, ValueOfCharIs
    <3> QED BY <3>3 DEF v
  <2> QED BY <2>1, <2>2
<1>6. Base(number) = 10 /\ DigitsOf(number) = d
  <2>1. ASSUME Len(number) >= 2 PROVE number[1] >= 10 /\ number[1] \in Nat
    <3>1. 1 \in 1 .. Len(number) BY <2>1, <1>5
    <3> QED BY <3>1, <1>5
  <2>2. Base(number) = 10 BY <2>1 DEF Base, StartsWith
  <2> QED BY <2>2 DEF DigitsOf
<1> HIDE DEF d
<1>7. CASE d = <<>>
  <2>1. Outcome(d, 10, negative, isSigned) = <<"empty", 0>>
    BY <1>7, Zenon DEF Outcome
  <2> QED BY <1>4, <1>6, <2>1
<1>8. CASE d # <<>>
  <2>1. 1 \in 1 .. Len(d) BY <1>8, <1>d
  <2>2. \E k \in 1 .. Len(d) : d[k] >= 10 BY <2>1, <1>d
  <2>3. Outcome(d, 10, negative, isSigned) = <<"invalid_character", 0>>
    BY <1>8, <2>2, Zenon DEF Outcome
  <2> QED BY <1>4, <1>6, <2>3
<1> QED BY <1>7, <1>8

\* What is read has the layout of a number.
LEMMA ReadHasLayout ==
  ASSUME NEW t \in Seq(Nat), Before \notin 0 .. 9, NEW isSigned \in BOOLEAN,
         string_to_integral(t, isSigned)[1] = "ok"
  PROVE  \E n \in 0 .. Len(t), negative \in BOOLEAN, base \in {2, 10, 16}, m \in Nat :
           (negative => isSigned) /\ Layout(t, n, negative, base, m)
<1> DEFINE l == Len(t)
           N == {k \in 1 .. l : t[k] # Space}
<1>1. N \subseteq Nat /\ N # {}
  <2>1. N = {} => \A k \in 1 .. Len(t) : t[k] = Space OBVIOUS
  <2>2. N # {} BY <2>1, BlanksAreNoNumber
  <2> QED BY <2>2
<1>2. PICK first \in N : \A k \in N : first <= k
  <2> HIDE DEF N
  <2> QED BY <1>1, Least
<1> DEFINE n == first - 1
           sv == SkipSpaces(t)
           negative == isSigned /\ sv[1] = Minus
           number == NumberOf(sv, negative)
           base == Base(number)
           s == IF negative THEN 1 ELSE 0
           p == IF base = 10 THEN 0 ELSE 2
           m == (n + s) + p
           rest == Drop(t, m)
           digits == Values(rest)
<1>3. l \in Nat /\ n \in 0 .. l - 1 /\ t[n + 1] # Space
      /\ \A k \in 1 .. n : t[k] = Space
  BY <1>2
<1> HIDE DEF n, N
<1>4. sv = Drop(t, n) BY <1>3, BlanksSkipped
<1>5. sv \in Seq(Nat) /\ Len(sv) = l - n /\ sv[1] = t[n + 1]
  <2> DEFINE d == Drop(t, n)
  <2>1. n \in 0 .. Len(t) /\ 1 \in 1 .. Len(t) - n BY <1>3
  <2>2. d \in Seq(Nat) /\ Len(d) = l - n /\ d[1] = t[n + 1] BY <2>1, DropIs
  <2> HIDE DEF d, sv
  <2>3. sv = d BY <1>4 DEF d
  <2> QED BY <2>2, <2>3
<1>6. string_to_integral(t, isSigned) = Outcome(DigitsOf(number), base, negative, isSigned)
  BY ReadSteps, Zenon
<1>7. s \in {0, 1} /\ negative \in BOOLEAN /\ (negative => isSigned /\ t[n + 1] = Minus)
  <2> HIDE DEF sv
  <2> QED BY <1>5
<1>8. number = Drop(t, n + s) /\ n + s \in 0 .. l
  <2>1. CASE negative
    <3>1. s = 1 BY <2>1
    <3>2. number = Tail(sv) BY <2>1, Zenon DEF NumberOf
    <3>3. Tail(sv) = Drop(sv, 1)
      <4> HIDE DEF sv
      <4>1. Len(sv) > 0 BY <1>3, <1>5
      <4> QED BY <4>1, <1>5, TailIsDrop
    <3>4. n \in 0 .. Len(t) /\ 1 \in 0 .. Len(t) - n BY <1>3
    <3>5. Drop(sv, 1) = Drop(t, n + 1)
      <4> HIDE DEF sv
      <4> QED BY <1>4, <3>4, DropDrop
    <3> HIDE DEF number, s, sv
    <3>6. n + s \in 0 .. l BY <3>1, <1>3
    <3> QED BY <3>1, <3>2, <3>3, <3>5, <3>6
  <2>2. CASE ~negative
    <3>1. s = 0 BY <2>2
    <3>2. number = sv BY <2>2, Zenon DEF NumberOf
    <3> HIDE DEF number, s
    <3>3. n + s = n /\ n + s \in 0 .. l BY <3>1, <1>3
    <3> QED BY <3>2, <3>3, <1>4
  <2> QED BY <2>1, <2>2
<1> HIDE DEF sv, number, negative, l
<1>9. /\ number \in Seq(Nat) /\ Len(number) = l - (n + s)
      /\ \A k \in 1 .. l - (n + s) : number[k] = t[(n + s) + k]
  <2>1. n + s \in 0 .. Len(t) BY <1>8 DEF l
  <2> HIDE DEF s
  <2> QED BY <1>8, <2>1, DropIs DEF l
<1> HIDE DEF s
<1>10. base \in {2, 10, 16}
  BY DEF Base
<1>11. base # 10 => /\ Len(number) >= 2 /\ number[1] = 0
                    /\ number[2] = IF base = 16 THEN X ELSE B
  BY DEF Base, StartsWith
<1> HIDE DEF base
<1>12. p \in {0, 2} /\ (p = 0 <=> base = 10)
  OBVIOUS
<1>13. DigitsOf(number) = digits /\ m \in 0 .. l
  <2>1. CASE base = 10
    <3>1. DigitsOf(number) = Values(number) BY <2>1 DEF DigitsOf, base
    <3>2. p = 0 BY <2>1
    <3> HIDE DEF p
    <3>3. m = n + s BY <3>2, <1>8, <1>7, <1>3
    <3> HIDE DEF m
    <3> QED BY <3>1, <3>3, <1>8
  <2>2. CASE base # 10
    <3>1. DigitsOf(number) = Values(Drop(number, 2)) BY <2>2 DEF DigitsOf, base
    <3>2. p = 2 BY <2>2
    <3>3. 2 \in 0 .. Len(t) - (n + s) /\ n + s \in 0 .. Len(t)
      BY <1>8, <1>9, <1>11, <2>2, <1>3, <1>7 DEF l
    <3>4. Drop(Drop(t, n + s), 2) = Drop(t, (n + s) + 2) BY <3>3, DropDrop
    <3> HIDE DEF p
    <3>5. m = (n + s) + 2 /\ m \in 0 .. l BY <3>2, <3>3, <1>7, <1>3 DEF l
    <3> QED BY <3>1, <3>4, <3>5, <1>8
  <2> QED BY <2>1, <2>2
<1> HIDE DEF p
<1>14. /\ digits \in Seq(Nat) /\ Len(digits) = l - m
       /\ \A k \in 1 .. l - m : digits[k] = ValueOfChar(t[m + k])
  <2>1. m \in 0 .. Len(t) BY <1>13 DEF l
  <2>2. /\ rest \in Seq(Nat) /\ Len(rest) = l - m
        /\ \A k \in 1 .. l - m : rest[k] = t[m + k]
    <3> HIDE DEF m
    <3> QED BY <2>1, DropIs DEF l
  <2> HIDE DEF rest, m
  <2>3. HasValues(digits, rest) BY <2>2, ValuesAre
  <2> HIDE DEF digits
  <2> QED BY <2>2, <2>3 DEF HasValues
<1> HIDE DEF digits, rest
<1>15. digits # <<>> /\ \A k \in 1 .. Len(digits) : ~ (digits[k] >= base)
  <2>1. Outcome(digits, base, negative, isSigned)[1] = "ok" BY <1>6, <1>13
  <2>2. digits # <<>>
    <3> SUFFICES ASSUME digits = <<>> PROVE FALSE OBVIOUS
    <3>1. Outcome(digits, base, negative, isSigned) = <<"empty", 0>> BY Zenon DEF Outcome
    <3> QED BY <3>1, <2>1
  <2>3. ~ \E k \in 1 .. Len(digits) : digits[k] >= base
    <3> SUFFICES ASSUME \E k \in 1 .. Len(digits) : digits[k] >= base PROVE FALSE
      OBVIOUS
    <3>1. Outcome(digits, base, negative, isSigned) = <<"invalid_character", 0>>
      BY <2>2, Zenon DEF Outcome
    <3> QED BY <3>1, <2>1
  <2> QED BY <2>2, <2>3
<1>16. m = n + s + p /\ m \in Nat /\ m < l
  BY <1>3, <1>7, <1>12, <1>13, <1>14, <1>15
<1>17. \A k \in m + 1 .. l : ValueOfChar(t[k]) < base
  <2> TAKE k \in m + 1 .. l
  <2>1. k - m \in 1 .. l - m /\ m + (k - m) = k BY <1>16, <1>3
  <2>2. digits[k - m] = ValueOfChar(t[k]) /\ digits[k - m] \in Nat /\ ~ (digits[k - m] >= base)
    BY <2>1, <1>14, <1>15
  <2> QED BY <2>2, <1>10
<1>18. base # 10 => t[m - 1] = 0 /\ t[m] = IF base = 16 THEN X ELSE B
  <2> SUFFICES ASSUME base # 10
               PROVE  t[m - 1] = 0 /\ t[m] = IF base = 16 THEN X ELSE B
    OBVIOUS
  <2>1. p = 2 BY <1>12
  <2>2. (n + s) + 1 = m - 1 /\ (n + s) + 2 = m
        /\ 1 \in 1 .. l - (n + s) /\ 2 \in 1 .. l - (n + s)
    BY <2>1, <1>16, <1>3, <1>7
  <2>3. number[1] = t[m - 1] /\ number[2] = t[m] BY <2>2, <1>9
  <2> QED BY <2>3, <1>11
<1>19. Layout(t, n, negative, base, m)
  <2>1. m = n + (IF negative THEN 1 ELSE 0) + (IF base = 10 THEN 0 ELSE 2)
    BY <1>16, Zenon DEF s, p
  <2>2. base = 16 => t[m - 1] = 0 /\ t[m] = X
    BY <1>18
  <2>3. base = 2 => t[m - 1] = 0 /\ t[m] = B
    BY <1>18
  <2>4. m < Len(t) /\ \A k \in m + 1 .. Len(t) : ValueOfChar(t[k]) < base
    BY <1>16, <1>17 DEF l
  <2> HIDE DEF m
  <2> QED BY <2>1, <2>2, <2>3, <2>4, <1>3, <1>7, Zenon DEF Layout
<1> HIDE DEF m
<1>20. n \in 0 .. Len(t) BY <1>3 DEF l
<1> QED BY <1>7, <1>10, <1>16, <1>19, <1>20

(* A value that is n in its type.                                          *)
Equals(p, n) == /\ p[1] = "ok" /\ p[2] \in ValuesOf(signed)
                /\ p[2] % WORD = n % WORD

\* A reading of a text is what is read.
LEMMA ReadingIsRead ==
  ASSUME text \in Seq(Nat), signed \in BOOLEAN,
         NEW n \in 0 .. Len(text), NEW s \in {1, -1}, NEW base \in {2, 10, 16},
         Spelled(n, s, base)
  PROVE  Equals(string_to_integral(text, signed),
                s * Meaning(DigitsBehind(n, s, base), base))
<1>1. PICK negative \in BOOLEAN : negative <=> (s = -1)
  <2>1. (s = -1) \in BOOLEAN /\ ((s = -1) <=> (s = -1)) OBVIOUS
  <2> QED BY <2>1, Zenon
<1>2. PICK m \in Nat : m = DigitsAt(n, s, base)
  <2>1. DigitsAt(n, s, base) \in Nat BY DEF DigitsAt
  <2> QED BY <2>1
<1>3. /\ (s = -1 => signed) /\ Layout(text, n, negative, base, m)
      /\ DigitsBehind(n, s, base) = Values(Drop(text, m))
  BY <1>1, <1>2, SpelledIsLayout
<1> DEFINE d == Values(Drop(text, m))
           v == Accumulate(d, base)
<1>4. string_to_integral(text, signed) = Okay(d, base, negative, signed)
  <2>1. n \in Nat /\ (negative => signed) BY <1>1, <1>3
  <2> QED BY <2>1, <1>1, <1>3, LayoutIsRead
<1>5. d \in Seq(Nat)
  <2>1. m \in 0 .. Len(text) BY <1>3 DEF Layout
  <2>2. Drop(text, m) \in Seq(Nat) BY <2>1, DropIs
  <2> QED BY <2>2, ValuesAre DEF HasValues
<1>6. Meaning(DigitsBehind(n, s, base), base) = v /\ v \in Nat
  <2>1. base \in Nat OBVIOUS
  <2> HIDE DEF d
  <2>2. Meaning(d, base) = v /\ v \in Nat
    BY <2>1, <1>5, MeaningIsAccumulated, AccumulateType
  <2> QED BY <2>2, <1>3 DEF d
<1>8. Okay(d, base, negative, signed) = <<"ok", InType(IF negative THEN -v ELSE v, signed)>>
  BY Zenon DEF Okay
<1> HIDE DEF d, v
<1>7. s * v = (IF negative THEN -v ELSE v) /\ s * v \in Int
  BY <1>1, <1>6
<1>9. string_to_integral(text, signed) = <<"ok", InType(s * v, signed)>>
  BY <1>4, <1>7, <1>8
<1>10. InType(s * v, signed) \in ValuesOf(signed)
       /\ InType(s * v, signed) % WORD = (s * v) % WORD
  BY <1>7, InTypeIs
<1> QED BY <1>6, <1>9, <1>10 DEF Equals

\* A text is read as the value of its type that equals the number it spells
\* modulo the word, and what spells none is an error,
\* whatever characters were typed and however many.  A text without any
\* character is read as the byte in front of it: that must be no digit, as for
\* every caller in start.cpp, which cuts its text behind a blank.
THEOREM TypedIsAlwaysUnderstood ==
  ASSUME Before \notin 0 .. 9
  PROVE  NumbersSpec => []TypedIsUnderstood
<1>1. NumbersInv => TypedIsUnderstood
  <2> SUFFICES ASSUME NumbersInv, phase = "typed_read" PROVE TypedIsUnderstood
    BY DEF TypedIsUnderstood
  <2> DEFINE Reads(r) == Spelled(r[1], r[2], r[3])
             All == (0 .. Len(text)) \X {1, -1} \X {2, 10, 16}
             readings == {r \in All : Reads(r)}
  <2>1. text \in Seq(Nat) /\ signed \in BOOLEAN /\ parsed = string_to_integral(text, signed)
    <3>1. text \in BoundedSeq(Alphabet, MaxLen) BY DEF NumbersInv
    <3>2. text \in Seq(Nat) BY <3>1, TypedIsText
    <3> QED BY <3>2 DEF NumbersInv
  <2>2. ASSUME parsed[1] = "ok" PROVE readings # {}
    <3>1. PICK n \in 0 .. Len(text), negative \in BOOLEAN, base \in {2, 10, 16}, m \in Nat :
            (negative => signed) /\ Layout(text, n, negative, base, m)
      <4>1. string_to_integral(text, signed)[1] = "ok" BY <2>1, <2>2
      <4> QED BY <4>1, <2>1, ReadHasLayout
    <3> DEFINE s == IF negative THEN -1 ELSE 1
    <3>2. s \in {1, -1} /\ (negative <=> (s = -1)) OBVIOUS
    <3>3. m = DigitsAt(n, s, base)
      BY <3>1 DEF Layout, DigitsAt
    <3> HIDE DEF s
    <3>4. Spelled(n, s, base)
      BY <3>1, <3>2, <3>3, <2>1, SpelledIsLayout
    <3>5. <<n, s, base>> \in All BY <3>2
    <3>6. Reads(<<n, s, base>>) BY <3>4
    <3> HIDE DEF All, Reads
    <3> QED BY <3>5, <3>6
  <2>3. ASSUME NEW r \in readings
        PROVE  Equals(parsed, r[2] * Meaning(DigitsBehind(r[1], r[2], r[3]), r[3]))
    <3> DEFINE n == r[1]
               s == r[2]
               base == r[3]
    <3>1. n \in 0 .. Len(text) /\ s \in {1, -1} /\ base \in {2, 10, 16}
          /\ Spelled(n, s, base)
      OBVIOUS
    <3> HIDE DEF n, s, base
    <3>2. Equals(string_to_integral(text, signed), s * Meaning(DigitsBehind(n, s, base), base))
      BY <3>1, <2>1, ReadingIsRead
    <3> QED BY <3>2, <2>1 DEF n, s, base
  <2>4. IF readings = {} THEN parsed[1] # "ok"
        ELSE /\ parsed[1] = "ok" /\ parsed[2] \in ValuesOf(signed)
             /\ \A r \in readings :
                  parsed[2] % WORD
                    = (r[2] * Meaning(DigitsBehind(r[1], r[2], r[3]), r[3])) % WORD
    <3> HIDE DEF readings
    <3> QED BY <2>2, <2>3 DEF Equals
  <2> HIDE DEF All
  <2> QED BY <2>4, Zenon DEF TypedIsUnderstood, All
<1> QED BY <1>1, NumbersInvariant, PTL
=============================================================================
