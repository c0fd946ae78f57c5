--------------------------- MODULE FormattedText ---------------------------
(* Callers of printf and what the C standard says they get.  A format is    *)
(* described by its pieces, from which its characters and its arguments     *)
(* follow; the characters are all that printf sees.                         *)
EXTENDS Printf

(* A piece is a character that stands for itself, [conv |-> "plain", char], *)
(* or a conversion, [conv, flags, width, precision, star, length, value]:   *)
(* width and precision are None when they are not given; star says that     *)
(* they are given as arguments; the value is that of the argument, for an   *)
(* integer before it is cut to the length modifier; %n stores at a value.   *)
(* A call is a record [pieces, tail, to, array, size, rest]: tail is an     *)
(* unfinished specifier at the end, to the function that is called, rest    *)
(* the arguments that no piece asks for.                                    *)
VARIABLE call

None == -100

(* What happens to lie behind a format. *)
Behind == <<"%", "d", NUL>>
-----------------------------------------------------------------------------
Numerals(n) == IF n < 10 THEN <<Digits[n + 1]>>
               ELSE <<Digits[(n \div 10) + 1], Digits[(n % 10) + 1]>>
FlagOrder == <<"#", "0", "-", Space, "+">>
FlagText(f) == FlattenSeq([i \in 1 .. 5 |-> IF FlagOrder[i] \in f THEN <<FlagOrder[i]>> ELSE <<>>])
NumberText(n, star) == CASE n = None          -> <<>>
                         [] n # None /\ star  -> <<"*">>
                         [] n # None /\ ~star -> Numerals(n)
(* A precision of zero may be left out behind its point. *)
PrecisionText(p) ==
  IF p.precision = None THEN <<>>
  ELSE <<".">> \o (IF p.precision = 0 /\ ~p.star THEN <<>> ELSE NumberText(p.precision, p.star))
PieceText(p) ==
  IF p.conv = "plain" THEN <<p.char>>
  ELSE <<"%">> \o FlagText(p.flags) \o NumberText(p.width, p.star) \o PrecisionText(p)
       \o p.length \o <<p.conv>>

StarWord(n, star) == IF n # None /\ star THEN <<n % IntMod>> ELSE <<>>
PieceWords(p) ==
  IF p.conv \in {"plain", "%"} THEN <<>>
  ELSE StarWord(p.width, p.star) \o StarWord(p.precision, p.star)
       \o <<p.value % IntMod>>
       \o IF p.conv \in DOMAIN Bases /\ p.length = <<"l">>
          THEN <<(p.value \div IntMod) % IntMod>> ELSE <<>>

Joined(F(_), pieces) == FlattenSeq([i \in DOMAIN pieces |-> F(pieces[i])])
FormatOf(c) == Joined(PieceText, c.pieces) \o c.tail
WordsOf(c)  == Joined(PieceWords, c.pieces)

Make(c) ==
  /\ LET memory == FormatOf(c) \o <<NUL>> \o Behind
         words  == WordsOf(c) \o c.rest
     IN  CASE c.to = "snprintf" -> Snprintf(c.array, c.size, memory, words)
           [] c.to = "null"     -> SnprintfNull(c.size, memory, words)
           [] c.to = "sprintf"  -> Sprintf(c.array, memory, words)
           [] c.to = "printf"   -> PrintfCall(memory, words)
  /\ call' = c
-----------------------------------------------------------------------------
(* The C standard's account of a conversion; a pointer as on most systems. *)
Wide(p) == IF p.width = None THEN 0 ELSE IF p.width < 0 THEN -p.width ELSE p.width
Left(p) == "-" \in p.flags \/ (p.width # None /\ p.width < 0)
Exact(p) == IF p.precision = None THEN 1 ELSE p.precision
Modulus(p) == CASE p.length = <<"l">>      -> LongMod
                [] p.length = <<"h", "h">> -> CharMod
                [] OTHER                   -> IntMod
Signed(p)  == p.conv \in {"d", "i"}
Given(p)   == IF Signed(p) THEN AsSigned(p.value % Modulus(p), Modulus(p))
              ELSE p.value % Modulus(p)
Amount(p)  == IF Given(p) < 0 THEN -Given(p) ELSE Given(p)

Radix(p) == Bases[p.conv]
Significant(p) == CHOOSE n \in 0 .. IntegerBuffer :
  Amount(p) < Power(Radix(p))[n] /\ (n = 0 \/ Power(Radix(p))[n - 1] <= Amount(p))
Figures(p) ==
  LET n == IF Significant(p) > Exact(p) THEN Significant(p) ELSE Exact(p)
  IN  [i \in 1 .. n |->
         IF i <= n - Significant(p) THEN "0"
         ELSE Letters(p.conv = "X")[((Amount(p) \div Power(Radix(p))[n - i]) % Radix(p)) + 1]]

Alternative(p) == "#" \in p.flags
SignOf(p) ==
  CASE Given(p) < 0 -> <<"-">>
    [] Given(p) >= 0 /\ "+" \in p.flags -> <<"+">>
    [] Given(p) >= 0 /\ "+" \notin p.flags /\ Space \in p.flags -> <<Space>>
    [] OTHER -> <<>>
RadixOf(p) ==
  CASE Radix(p) = 8 /\ (Figures(p) = <<>> \/ Figures(p)[1] # "0") -> <<"0">>
    [] Radix(p) = 16 /\ Given(p) # 0 -> <<"0", p.conv>>
    [] Radix(p) = 2 /\ Given(p) # 0  -> <<"0", "b">>
    [] OTHER -> <<>>
Prefix(p) == (IF Signed(p) THEN SignOf(p) ELSE <<>>) \o (IF Alternative(p) THEN RadixOf(p) ELSE <<>>)

Fill(p, s, c) == IF Wide(p) > Len(s) THEN Copies(c, Wide(p) - Len(s)) ELSE <<>>
ZeroFilled(p) == "0" \in p.flags /\ ~Left(p) /\ p.precision = None
InField(p, s) == IF Left(p) THEN s \o Fill(p, s, Space) ELSE Fill(p, s, Space) \o s
IntegerText(p) ==
  IF ZeroFilled(p) THEN Prefix(p) \o Fill(p, Prefix(p) \o Figures(p), "0") \o Figures(p)
  ELSE InField(p, Prefix(p) \o Figures(p))

(* The digits of a pointer are those of a number. *)
AsNumber(p) == [conv |-> "x", precision |-> PointerDigits, length |-> <<>>, value |-> p.value]

StandardPiece(p) ==
  CASE p.conv = "plain" -> <<p.char>>
    [] p.conv = "%"     -> <<"%">>
    [] p.conv = "n"     -> <<>>
    [] p.conv = "c"     -> InField(p, <<Characters[p.value]>>)
    [] p.conv = "s"     -> InField(p, SubSeq(Strings[p.value], 1,
                             IF p.precision = None THEN Len(Strings[p.value])
                             ELSE Least(p.precision, Len(Strings[p.value]))))
    [] p.conv = "p" /\ p.value = 0 -> <<"(", "n", "i", "l", ")">>
    [] p.conv = "p" /\ p.value # 0 -> <<"0", "x">> \o
         Figures(AsNumber(p))
    [] OTHER            -> IntegerText(p)

(* A number with its prefix and its zeros must fit the buffer it is made    *)
(* in; and a binary zero with a precision gets its prefix all the same.     *)
Fits(p) ==
  p.conv \in DOMAIN Bases =>
    /\ Len(Prefix(p) \o Figures(p)) <= IntegerBuffer
    /\ ZeroFilled(p) => Wide(p) <= IntegerBuffer
    /\ ~(p.conv = "b" /\ Alternative(p) /\ p.precision # None /\ Given(p) = 0)

(* What a caller may ask for.  A number in the format has two digits; a     *)
(* modifier belongs to integers and %n; what the standard leaves undefined  *)
(* is left out, and what %n stores must be able to hold it.                 *)
Asked(p) ==
  /\ p.flags \subseteq {"#", "0", "-", Space, "+"} /\ p.star \in BOOLEAN
  /\ p.width # None =>
       p.width \in IF p.star THEN (IntMod \div 2) - IntMod .. (IntMod \div 2) - 1
                   ELSE {n \in 1 .. 99 : n < SizeMod}
  /\ p.precision # None =>
       p.precision \in IF p.star THEN 0 .. (IntMod \div 2) - 1 ELSE {n \in 0 .. 99 : n < SizeMod}
Bare(p) == p.flags = {} /\ p.width = None /\ p.precision = None /\ p.length = <<>>

Admitted(p) ==
  \/ p.conv = "plain" /\ p.char \in Chars \ {"%"}
  \/ /\ p.conv \in DOMAIN Bases /\ Asked(p) /\ p.value \in Int
     /\ p.length \in {<<>>, <<"l">>, <<"h">>, <<"h", "h">>}
  \/ p.conv = "c" /\ Asked(p) /\ p.length = <<>> /\ p.value \in 0 .. CharMod - 1
  \/ /\ p.conv = "s" /\ Asked(p) /\ p.length = <<>> /\ p.value \in DOMAIN Strings
     /\ p.value = 0 => /\ "0" \notin p.flags /\ p.precision = None
                       /\ Strings[0] = <<"(", "n", "u", "l", "l", ")">>
  \/ p.conv \in {"p", "%"} /\ Bare(p) /\ p.star \in BOOLEAN /\ p.value \in 0 .. IntMod - 1
  \/ /\ p.conv = "n" /\ Asked(p) /\ p.value \in 0 .. IntMod - 1
     /\ p.length \in {<<>>, <<"l">>, <<"h">>, <<"h", "h">>}

TextUpTo(c, n) == Joined(StandardPiece, SubSeq(c.pieces, 1, n))
WellFormed(c) ==
  /\ c.pieces \in Seq({c.pieces[i] : i \in DOMAIN c.pieces}) /\ c.rest \in Seq(Nat)
  /\ c.tail \in Seq(Chars)
  /\ \A i \in DOMAIN c.pieces :
       /\ Admitted(c.pieces[i])
       /\ c.pieces[i].conv = "n" =>
            /\ Len(TextUpTo(c, i - 1)) < SizeMod
            /\ Len(TextUpTo(c, i - 1)) < Modulus(c.pieces[i])
  /\ c.array \in Nat /\ c.size \in Nat
  /\ c.to = "snprintf" => c.size <= c.array
  /\ c.to = "sprintf" => MaxSize <= c.array
  /\ c.to \in {"snprintf", "null", "sprintf", "printf"}

Returned == place = "end" /\ out = <<>>
Stored(i) ==
  IF call.pieces[i].conv # "n" THEN <<>>
  ELSE << <<call.pieces[i].value, Len(TextUpTo(call, i - 1))>> >>
-----------------------------------------------------------------------------
(* The text is the one the C standard describes, for every combination of   *)
(* flags, width, precision, length and value that fits the buffer: the code *)
(* makes a number backwards, with its zeros first and some of them taken    *)
(* back for the prefix (printf.c:458 to 522).  Every argument is taken, and *)
(* none of the next conversion's; %n stores the characters before it.       *)
Standard ==
  Returned /\ call.tail = <<>> /\ (\A i \in DOMAIN call.pieces : Fits(call.pieces[i])) =>
    /\ put = Joined(StandardPiece, call.pieces)
    /\ args = call.rest
    /\ stored = FlattenSeq([i \in DOMAIN call.pieces |-> Stored(i)])

(* printf.c:126 promises not to assume that specifiers are completed before *)
(* the format ends.  What lies behind the NUL is read only when the last    *)
(* specifier ends in a flag or in a digit, where the check is missing.      *)
EndOf(f) == CHOOSE i \in DOMAIN f : f[i] = NUL /\ \A j \in 1 .. i - 1 : f[j] # NUL
StaysInFormat ==
  fp > EndOf(format) =>
    LET last == format[EndOf(format) - 1] IN last \in DOMAIN FlagChars \/ IsDigit(last)
=============================================================================
