------------------------------- MODULE Numbers ------------------------------
(***************************************************************************)
(* How integers are printed and read: kprint_integral() of lib/format.cpp  *)
(* and string_to_integral() of include/lib/string.hpp.  The terminal       *)
(* prints the pointers of "malloc" with the one and reads those of "free"  *)
(* with the other.  The options come from a format (Formats).              *)
(*                                                                         *)
(* A character that can be a digit is the number it stands for, 'a' being  *)
(* 10, in either case; the others follow behind 35.  Only 'b' is told from *)
(* 'B', which begins no prefix.                                            *)
(***************************************************************************)
EXTENDS Formats

CONSTANTS WORD,             \* one more than the largest unsigned
          Radices,          \* of format_type: 2, 8, 10 and 16
          Widths,           \* the widths asked for
          Alphabet,         \* the characters of texts that users type
          MaxLen,           \* bound on the length of those
          Before            \* what the memory holds in front of a text

Space == 36
Minus == 37
Plus == 38
X == 33
B == 11
BigB == 40
NoSign == -1

ASSUME NumbersAssumption ==
  /\ WORD \in Nat \ {0} /\ WORD % 2 = 0 /\ MaxLen \in Nat
  /\ Radices \subseteq {2, 8, 10, 16} /\ Widths \subseteq Nat
  /\ Alphabet \subseteq 0 .. 40 /\ Before \in 0 .. 40

VARIABLES phase, text,
          value, options,   \* what is printed, and how
          signed,           \* is an int read, or an unsigned?
          parsed

numberVars == <<phase, text, value, options, signed, parsed, formatVars>>

(* What read_options() makes of a format, of the widths given.             *)
Options == [width : Widths, sign : {NoSign, Space, Plus}, pad : {0, Space},
            justifyLeft : BOOLEAN, printType : BOOLEAN, type : Radices]

(* An int, in two's complement, or an unsigned.                            *)
ValuesOf(isSigned) == IF isSigned THEN -(WORD \div 2) .. (WORD \div 2) - 1
                                  ELSE 0 .. WORD - 1

(* What is left of n in that type.                                         *)
InType(n, isSigned) ==
  IF isSigned /\ n % WORD >= WORD \div 2 THEN (n % WORD) - WORD ELSE n % WORD

-----------------------------------------------------------------------------
(* Printing.                                                               *)

(* value = -value, which leaves the smallest int as it is, and put_number()*)
(* takes it for an unsigned.                                               *)
Magnitude(v) == IF v < 0 THEN InType(-v, TRUE) % WORD ELSE v

Repeat(n, c) == [k \in 1 .. (IF n > 0 THEN n ELSE 0) |-> c]

(* The prefix that tells the radix.                                        *)
put_type(isZero, type) ==
  CASE type = 2  -> <<0, B>>
    [] type = 8  -> IF isZero THEN <<>> ELSE <<0>>
    [] type = 10 -> <<>>
    [] type = 16 -> <<0, X>>

\* A plausible slip: the digits stay in the order of the divisions.
PutReversed(n, radix) ==
  LET digits[m \in 0 .. n] == IF m < radix THEN <<m>>
                              ELSE <<m % radix>> \o digits[m \div radix]
  IN digits[n]

(* The digits, most significant first.                                     *)
put_number(n, radix) ==
  LET digits[m \in 0 .. n] == IF m < radix THEN <<m>>
                              ELSE Append(digits[m \div radix], m % radix)
  IN digits[n]

\* A plausible slip: the prefix is not counted in the width.
PrefixNotCounted(v, o) ==
  LET sign   == IF v < 0 THEN <<Minus>> ELSE IF o.sign = NoSign THEN <<>> ELSE <<o.sign>>
      prefix == IF o.printType THEN put_type(v = 0, o.type) ELSE <<>>
      digits == put_number(Magnitude(v), o.type)
      width  == o.width - Len(sign)
  IN Repeat(width - Len(digits), o.pad) \o sign \o prefix \o digits

kprint_integral(v, o) ==
  LET sign   == IF v < 0 THEN <<Minus>> ELSE IF o.sign = NoSign THEN <<>> ELSE <<o.sign>>
      prefix == IF o.printType THEN put_type(v = 0, o.type) ELSE <<>>
      digits == put_number(Magnitude(v), o.type)
      width  == o.width - Len(sign) - Len(prefix)
      fill   == width - Len(digits)
  IN IF o.justifyLeft
     THEN sign \o prefix \o digits \o Repeat(fill, Space)
     ELSE IF o.pad = Space
          THEN Repeat(fill, Space) \o sign \o prefix \o digits
          ELSE sign \o prefix \o Repeat(fill, o.pad) \o digits

(* aligned::print(), for booleans, characters and strings.                 *)
aligned(sv, o) ==
  IF o.justifyLeft THEN sv \o Repeat(o.width - Len(sv), o.pad)
                   ELSE Repeat(o.width - Len(sv), o.pad) \o sv

-----------------------------------------------------------------------------
(* Reading.                                                                *)

StartsWith(t, a, b) == Len(t) >= 2 /\ t[1] = a /\ t[2] = b
Drop(t, n) == SubSeq(t, n + 1, Len(t))

(* remove_prefix(find_first_not_of(" ")).  Without any other character it  *)
(* is remove_prefix(npos), which is undefined: as built, the view then     *)
(* begins with the byte in front of the text.                              *)
SkipSpaces(t) ==
  LET first == SelectInSeq(t, LAMBDA c : c # Space)
  IN IF first = 0 THEN <<Before>> \o t ELSE Drop(t, first - 1)

(* The values of the characters.                                           *)
Values(t) == [k \in 1 .. Len(t) |-> IF t[k] = BigB THEN B ELSE t[k]]

Base(t) == IF StartsWith(t, 0, X) THEN 16 ELSE IF StartsWith(t, 0, B) THEN 2 ELSE 10

\* A plausible slip: each digit is worth one place more.
AccumulateLate(t, base) == FoldLeft(LAMBDA v, c : ((v + c) * base) % WORD, 0, t)

(* value = value*base + digit.  What exceeds the word is lost, also that   *)
(* of an int, as built.                                                    *)
Accumulate(t, base) == FoldLeft(LAMBDA v, c : (v * base + c) % WORD, 0, t)

(* string_to_integral(), as all callers use it, with base = -1.            *)
string_to_integral(t, isSigned) ==
  LET sv       == SkipSpaces(t)
      negative == isSigned /\ sv[1] = Minus
      number   == IF negative THEN Tail(sv) ELSE sv
      base     == Base(number)
      digits   == Values(IF base = 10 THEN number ELSE Drop(number, 2))
      v        == Accumulate(digits, base)
  IN IF digits = <<>> THEN <<"empty", 0>>
     ELSE IF \E k \in 1 .. Len(digits) : digits[k] >= base
     THEN <<"invalid_character", 0>>
     ELSE <<"ok", InType(IF negative THEN -v ELSE v, isSigned)>>

-----------------------------------------------------------------------------
NotParsed == <<"nothing", 0>>
AnyOptions == [width |-> 0, sign |-> NoSign, pad |-> Space,
               justifyLeft |-> FALSE, printType |-> FALSE, type |-> 10]

Strings == {<<10>>, <<10, 11, 33, 10, 9>>}

(* A value or a string to print, a text that a user typed, or a format.    *)
NumbersInit ==
  /\ parsed = NotParsed
  /\ \/ /\ phase = "value" /\ text = <<>>
        /\ options \in Options /\ NoFormat
        /\ signed \in BOOLEAN /\ value \in ValuesOf(signed)
     \/ /\ phase = "string" /\ text \in Strings /\ value = Len(text)
        /\ signed = FALSE /\ NoFormat
        /\ options \in {o \in Options : o.sign = NoSign /\ ~o.printType}
     \/ /\ phase = "typed" /\ value = 0 /\ options = AnyOptions
        /\ signed \in BOOLEAN /\ NoFormat
        /\ text \in BoundedSeq(Alphabet, MaxLen)
     \/ /\ phase = "format" /\ value = 0 /\ options = AnyOptions
        /\ signed = FALSE /\ text = <<>>
        /\ FormatInit

Put == /\ phase = "value"
       /\ text' = kprint_integral(value, options)
       /\ phase' = "printed"
       /\ UNCHANGED <<value, options, signed, parsed, formatVars>>

PutString == /\ phase = "string"
             /\ text' = aligned(text, options)
             /\ phase' = "aligned"
             /\ UNCHANGED <<value, options, signed, parsed, formatVars>>

Read == /\ phase \in {"typed", "printed"}
        /\ parsed' = string_to_integral(text, signed)
        /\ phase' = IF phase = "typed" THEN "typed_read" ELSE "printed_read"
        /\ UNCHANGED <<text, value, options, signed, formatVars>>

PutFormat == /\ phase = "format"
             /\ Kprint
             /\ phase' = "format_printed"
             /\ UNCHANGED <<text, value, options, signed, parsed>>

NumbersNext == Put \/ PutString \/ Read \/ PutFormat

NumbersSpec == NumbersInit /\ [][NumbersNext]_numberVars

-----------------------------------------------------------------------------
(* Properties.                                                             *)

(* A reader that knows no format finds the number: no plus sign, a prefix  *)
(* for what is not decimal, and no blanks behind it.                       *)
Readable(o) ==
  /\ o.sign # Plus
  /\ o.type = 10 \/ (o.type \in {2, 16} /\ o.printType)
  /\ ~o.justifyLeft \/ o.width = 0

\* A number that is printed can be typed in again: "free" reads the pointer
\* that "malloc" showed, and every other number printed with its prefix.
PrintedCanBeRead ==
  phase = "printed_read" /\ Readable(options) => parsed = <<"ok", value>>

\* A number or a string takes the columns asked for, sign and prefix
\* included, and more only when it must.
WidthIsKept ==
  LET needed == IF phase = "aligned" THEN value
                ELSE Len(kprint_integral(value, [options EXCEPT !.width = 0]))
  IN phase \in {"printed", "aligned"} => Len(text) = Max({needed, options.width})

\* kprint() puts out the text of its format as it stands, and for each
\* placeholder the next argument with the options that the placeholder
\* spells, whatever the flags, the width and what stands behind it.
FormatsAreUnderstood == phase = "format_printed" => output = Rendered(pieces)

(* What a numeral means: digits of the base, each times its power.         *)
Power(base, n) == LET p[k \in 0 .. n] == IF k = 0 THEN 1 ELSE base * p[k - 1] IN p[n]
Meaning(digits, base) ==
  MapThenSumSet(LAMBDA k : digits[k] * Power(base, Len(digits) - k),
                1 .. Len(digits)) % WORD
IsNumeral(digits, base) ==
  digits # <<>> /\ \A k \in 1 .. Len(digits) : digits[k] < base

(* n blanks, the sign s where there may be one, a prefix and digits.       *)
Spelled(n, s, base) ==
  LET front == (IF s = -1 THEN <<Minus>> ELSE <<>>)
                 \o (IF base = 10 THEN <<>> ELSE put_type(FALSE, base))
  IN /\ s = -1 => signed
     /\ \A k \in 1 .. n : text[k] = Space
     /\ IsPrefix(front, Drop(text, n))
     /\ IsNumeral(Values(Drop(text, n + Len(front))), base)
DigitsBehind(n, s, base) ==
  Values(Drop(text, n + (IF s = -1 THEN 1 ELSE 0) + (IF base = 10 THEN 0 ELSE 2)))

\* What is typed is read as the value of the type that equals the number it
\* spells modulo the word (4294967295 is -1 as an int), and what spells none is
\* an error, a text of blanks and one with the prefix 0B included.
TypedIsUnderstood ==
  phase = "typed_read" =>
    LET readings == {r \in (0 .. Len(text)) \X {1, -1} \X {2, 10, 16} :
                       Spelled(r[1], r[2], r[3])}
    IN IF readings = {} THEN parsed[1] # "ok"
       ELSE /\ parsed[1] = "ok" /\ parsed[2] \in ValuesOf(signed)
            /\ \A r \in readings :
                 parsed[2] % WORD
                   = (r[2] * Meaning(DigitsBehind(r[1], r[2], r[3]), r[3])) % WORD
=============================================================================
