------------------------------- MODULE Formats ------------------------------
(***************************************************************************)
(* Format strings: kprint() of include/lib/format.hpp, which walks along   *)
(* one, and read_options() and read_w() of lib/format.cpp, which advance   *)
(* the position of the walk over a placeholder.                            *)
(*                                                                         *)
(* A format is a sequence of characters.  What a value looks like is the   *)
(* subject of Numbers: here a placeholder prints one pair of an argument   *)
(* and its options.  A format is made of pieces, from which its text is    *)
(* spelled and its meaning is read off.                                    *)
(***************************************************************************)
EXTENDS Integers, Sequences, SequencesExt, FiniteSetsExt

CONSTANTS INT_MAX,
          MaxFlags          \* bound on the flags of a placeholder

Digit == {"0", "1", "2", "5", "9"}
ValueOf(c) == CASE c = "0" -> 0 [] c = "1" -> 1 [] c = "2" -> 2 [] c = "5" -> 5 [] c = "9" -> 9
Flag  == {"+", "-", " ", "0", "<", ">", "#"}
Radix(c, radix) == CASE c = "b" -> 2 [] c = "d" -> 10 [] c = "o" -> 8 [] c = "x" -> 16
                     [] OTHER -> radix

ASSUME FormatsAssumption ==
  INT_MAX \in Nat /\ MaxFlags \in Nat

VARIABLES pieces,           \* what the format is made of
          output            \* what kprint() put out

formatVars == <<pieces, output>>

(* What kprint_value() starts from, for the types of arguments.            *)
Default(arg) ==
  [width |-> 0, sign |-> "", pad |-> " ", justifyLeft |-> FALSE,
   printType |-> arg = "pointer", type |-> IF arg = "pointer" THEN 16 ELSE 10]

-----------------------------------------------------------------------------
(* The code.  p is a position in the format f.                             *)

CharAt(f, p) == IF p <= Len(f) THEN f[p] ELSE "end"

(* The first position from p that no character of C is at.                 *)
Behind(f, p, C) == Min({k \in p .. Len(f) + 1 : CharAt(f, k) \notin C})

(* A width that could exceed INT_MAX is none, and it is not skipped.       *)
read_w(f, p) ==
  LET end    == Behind(f, p, Digit)
      value(k) == FoldLeft(LAMBDA i, c : i * 10 + ValueOf(c), 0, SubSeq(f, p, k - 1))
  IN IF \E k \in p .. end - 1 : value(k) >= INT_MAX \div 10
     THEN [value |-> 0, pos |-> p]
     ELSE [value |-> value(end), pos |-> end]

SetFlag(o, c) ==
  CASE c \in {"+", " "} -> [o EXCEPT !.sign = c]
    [] c = "-" -> [o EXCEPT !.sign = ""]
    [] c = "0" -> [o EXCEPT !.pad = "0"]
    [] c \in {"<", ">"} -> [o EXCEPT !.justifyLeft = (c = "<")]
    [] c = "#" -> [o EXCEPT !.printType = TRUE]

\* A plausible slip: the type letter is not skipped.
ReadOptionsStays(f, p, default) ==
  IF CharAt(f, p) # ":" THEN [options |-> default, pos |-> p]
  ELSE LET q == Behind(f, p + 1, Flag)
           w == read_w(f, q)
           o == FoldLeft(SetFlag, default, SubSeq(f, p + 1, q - 1))
       IN [options |-> [o EXCEPT !.width = w.value, !.type = Radix(CharAt(f, w.pos), @)],
           pos     |-> w.pos]

(* From behind the brace to the closing one, if nothing else is there.     *)
read_options(f, p, default) ==
  IF CharAt(f, p) # ":" THEN [options |-> default, pos |-> p]
  ELSE LET q == Behind(f, p + 1, Flag)
           w == read_w(f, q)
           t == CharAt(f, w.pos)
           o == FoldLeft(SetFlag, default, SubSeq(f, p + 1, q - 1))
       IN [options |-> [o EXCEPT !.width = w.value, !.type = Radix(t, @)],
           pos     |-> IF t = "}" THEN w.pos ELSE w.pos + 1]

(* Without an argument that is left, the rest is put out as it is.         *)
kprint(f, args) ==
  LET from[p \in 1 .. Len(f) + 3, n \in 1 .. Len(args) + 1] ==
        IF p > Len(f) THEN <<>>
        ELSE IF n > Len(args) THEN SubSeq(f, p, Len(f))
        ELSE IF f[p] # "{" THEN <<f[p]>> \o from[p + 1, n]
        ELSE LET r == read_options(f, p + 1, Default(args[n]))
             IN <<<<args[n], r.options>>>> \o from[r.pos + 1, n + 1]
  IN from[1, 1]

-----------------------------------------------------------------------------
(* What formats are made of: text, and placeholders for the arguments.     *)

Verbatim(c) == [text |-> <<c>>]
Plain == [text |-> <<"{", "}">>]
Placeholder(flags, width, type) ==
  [text  |-> <<"{", ":">> \o flags \o width \o type \o <<"}">>,
   flags |-> flags, width |-> width, type |-> type]

(* 119 is the largest that read_w() takes when INT_MAX is 127.             *)
FormatWidths == {<<>>, <<"5">>, <<"1", "2">>, <<"1", "1", "9">>}

Placeholders ==
  {Plain} \cup {Placeholder(flags, width, type) :
                  flags \in BoundedSeq(Flag, MaxFlags), width \in FormatWidths,
                  type \in {<<>>, <<"x">>, <<"d">>}}
Texts == {<<>>, <<Verbatim("a")>>, <<Verbatim("0"), Verbatim(":")>>}

Arguments == <<"int", "pointer">>

Formats == {a \o <<p>> \o b \o <<q>> \o c :
              a \in Texts, p \in Placeholders, b \in Texts,
              q \in {Plain, Placeholder(<<"0">>, <<"5">>, <<>>), Placeholder(<<>>, <<>>, <<"b">>)},
              c \in {<<>>, <<Plain, Verbatim("a")>>}}

Spelling(format) == FlattenSeq([k \in 1 .. Len(format) |-> format[k].text])

FormatInit == pieces \in Formats /\ output = <<>>
NoFormat   == pieces = <<>> /\ output = <<>>

Kprint == /\ output' = kprint(Spelling(pieces), Arguments)
          /\ UNCHANGED pieces

-----------------------------------------------------------------------------
(* The meaning of a placeholder: of the flags that say the same thing, the *)
(* last one counts.                                                        *)

LastOf(flags, C, none) ==
  LET at == {k \in 1 .. Len(flags) : flags[k] \in C}
  IN IF at = {} THEN none ELSE flags[Max(at)]

Means(piece, arg) ==
  LET default == Default(arg) IN
  IF piece = Plain THEN default
  ELSE [width       |-> MapThenSumSet(LAMBDA k : ValueOf(piece.width[k]) * 10^(Len(piece.width) - k),
                                      1 .. Len(piece.width)),
        sign        |-> LET s == LastOf(piece.flags, {"+", "-", " "}, "-") IN IF s = "-" THEN "" ELSE s,
        pad         |-> LastOf(piece.flags, {"0"}, " "),
        justifyLeft |-> LastOf(piece.flags, {"<", ">"}, ">") = "<",
        printType   |-> default.printType \/ LastOf(piece.flags, {"#"}, "") = "#",
        type        |-> IF piece.type = <<>> THEN default.type ELSE Radix(piece.type[1], 10)]

IsPlaceholder(piece) == piece.text[1] = "{"

(* The k-th placeholder takes the k-th argument, one too many is text.     *)
Rendered(format) ==
  LET argument(k) == Cardinality({j \in 1 .. k : IsPlaceholder(format[j])})
  IN FlattenSeq([k \in 1 .. Len(format) |->
       IF IsPlaceholder(format[k]) /\ argument(k) <= Len(Arguments)
       THEN <<<<Arguments[argument(k)], Means(format[k], Arguments[argument(k)])>>>>
       ELSE format[k].text])
=============================================================================
