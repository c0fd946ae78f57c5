------------------------------ MODULE Printf ------------------------------
(* The test ROM's printf (testrom/src/printf/printf.c) as it is built: no   *)
(* floating point, no long long.  One step is the parsing of a field of a   *)
(* specifier, a conversion, or a character handed to the gadget.  Every     *)
(* character is a string of length one.                                     *)
EXTENDS OutputGadget, SequencesExt

CONSTANTS
  CharMod, IntMod,  \* values of a char and of an int; a long is two of them
  IntegerBuffer,    \* PRINTF_INTEGER_BUFFER_SIZE: 32, the bits of a long
  PointerDigits,    \* hexadecimal digits of a pointer: 4
  Characters,       \* the character of each value
  Strings           \* the strings of the program, by address

(* b^n, as a recursive function: something can be proved about it. *)
Power(b) == LET power[n \in Nat] == IF n = 0 THEN 1 ELSE b * power[n - 1] IN power

Space == " "

LongMod == IntMod * IntMod
ASSUME WidthAssumption ==
  /\ CharMod \in Nat \ {0} /\ IntMod \in Nat \ {0} /\ IntMod % CharMod = 0
  /\ IntegerBuffer \in Nat \ {0} /\ LongMod = Power(2)[IntegerBuffer]
  /\ PointerDigits \in Nat /\ PointerDigits + 2 <= IntegerBuffer
  /\ IntMod <= Power(16)[PointerDigits]
ASSUME CharsAssumption ==
  /\ NUL \notin Chars
  /\ {"%", "*", ".", "#", "-", "+", Space, "(", ")", "0", "1", "2", "3", "4", "5", "6", "7", "8", "9",
      "a", "b", "c", "d", "e", "f", "h", "i", "l", "n", "o", "p", "s", "u", "x",
      "A", "B", "C", "D", "E", "F", "X"} \subseteq Chars
  /\ Characters \in [0 .. CharMod - 1 -> Chars \cup {NUL}]
  /\ DOMAIN Strings \subseteq 0 .. IntMod - 1 /\ Strings \in [DOMAIN Strings -> Seq(Chars)]

VARIABLES
  format,   \* the memory from the format on: its characters, a NUL, others
  fp,       \* the place in it
  place,    \* the part of format_string_loop
  flags, width, precision,
  args,     \* the words va_arg has not taken
  out,      \* what a conversion has still to put
  stored    \* what %n stored: addresses and values

parserVars == <<format, fp, flags, width, precision, args, stored>>
printfVars == <<gadgetVars, parserVars, place, out>>

Idle == place = "idle"
-----------------------------------------------------------------------------
(* snprintf_, sprintf_ and printf_ with their va_list. *)
Begin(f, words) ==
  /\ Idle /\ place' = "text" /\ fp' = 1 /\ format' = f /\ args' = words
  /\ flags' = {} /\ width' = 0 /\ precision' = 0 /\ out' = <<>>
  /\ stored' = <<>>

Snprintf(array, size, f, words) == BufferGadget(size, Blank(array)) /\ Begin(f, words)
SnprintfNull(size, f, words)    == NoBufferGadget /\ Begin(f, words)
Sprintf(array, f, words)        == BufferGadget(MaxSize, Blank(array)) /\ Begin(f, words)
PrintfCall(f, words)            == FunctionGadget /\ Begin(f, words)

(* The end of vsnprintf_impl; the value returned is pos. *)
Finish ==
  /\ place = "end" /\ out = <<>>
  /\ Terminate /\ place' = "idle"
  /\ UNCHANGED <<parserVars, out>>

(* One round of the loops that put what was converted. *)
PutNext ==
  /\ out # <<>> /\ PutChar(Head(out)) /\ out' = Tail(out)
  /\ UNCHANGED <<parserVars, place>>
-----------------------------------------------------------------------------
Here == format[fp]

(* ADVANCE_IN_FORMAT_STRING, to n places further on: the loop is left at a  *)
(* NUL.  Mutant: it is not.                                                 *)
AdvanceUnchecked(n, next) == fp' = fp + n /\ place' = next
Advance(n, next) ==
  fp' = fp + n /\ place' = IF format[fp + n] = NUL THEN "end" ELSE next

Digits == <<"0", "1", "2", "3", "4", "5", "6", "7", "8", "9">>
Letters(upper) == Digits \o IF upper THEN <<"A", "B", "C", "D", "E", "F">>
                            ELSE <<"a", "b", "c", "d", "e", "f">>
IsDigit(c) == c \in {Digits[i] : i \in 1 .. 10}

(* atou_: the digits from a place on, and their value. *)
RunEnd(i) == CHOOSE j \in i .. Len(format) :
               ~IsDigit(format[j]) /\ \A k \in i .. j - 1 : IsDigit(format[k])
DigitValue(c) == CHOOSE d \in 0 .. 9 : Digits[d + 1] = c
Number(i) ==
  LET n[k \in 0 .. RunEnd(i) - i] ==
        IF k = 0 THEN 0 ELSE (10 * n[k - 1] + DigitValue(format[i + k - 1])) % SizeMod
  IN  n[RunEnd(i) - i]

AsSigned(n, mod) == IF n >= mod \div 2 THEN n - mod ELSE n
Parsing(p) == place = p /\ out = <<>>
LoopKeeps == UNCHANGED <<gadgetVars, format, out, stored>>

Text ==
  /\ Parsing("text")
  /\ CASE Here = NUL -> place' = "end" /\ UNCHANGED <<fp, flags, width, precision, out>>
       [] Here = "%" -> /\ Advance(1, "flags")
                        /\ flags' = {} /\ width' = 0 /\ precision' = 0 /\ UNCHANGED out
       [] OTHER -> out' = <<Here>> /\ fp' = fp + 1 /\ UNCHANGED <<place, flags, width, precision>>
  /\ UNCHANGED <<gadgetVars, format, args, stored>>

(* parse_flags *)
FlagChars == [c \in {"0", "-", "+", Space, "#"} |->
  CASE c = "0" -> "ZEROPAD" [] c = "-" -> "LEFT" [] c = "+" -> "PLUS"
    [] c = Space -> "SPACE" [] c = "#" -> "HASH"]
ParseFlags ==
  /\ Parsing("flags")
  /\ IF Here \in DOMAIN FlagChars
     THEN flags' = flags \cup {FlagChars[Here]} /\ fp' = fp + 1 /\ UNCHANGED place
     ELSE place' = "width" /\ UNCHANGED <<fp, flags>>
  /\ UNCHANGED <<width, precision, args>> /\ LoopKeeps

NextInt == AsSigned(Head(args), IntMod)

Width ==
  /\ Parsing("width")
  /\ CASE IsDigit(Here) ->
            /\ width' = Number(fp) /\ fp' = RunEnd(fp)
            /\ place' = "precision" /\ UNCHANGED <<flags, args>>
       [] Here = "*" ->
            /\ width' = IF NextInt < 0 THEN -NextInt ELSE NextInt
            /\ flags' = IF NextInt < 0 THEN flags \cup {"LEFT"} ELSE flags
            /\ args' = Tail(args) /\ Advance(1, "precision")
       [] OTHER -> place' = "precision" /\ UNCHANGED <<width, flags, fp, args>>
  /\ UNCHANGED precision /\ LoopKeeps

Precision ==
  /\ Parsing("precision")
  /\ IF Here # "." THEN place' = "length" /\ UNCHANGED <<flags, fp>>
     ELSE flags' = flags \cup {"PRECISION"} /\ Advance(1, "digits")
  /\ UNCHANGED <<width, precision, args>> /\ LoopKeeps

PrecisionDigits ==
  /\ Parsing("digits")
  /\ CASE IsDigit(Here) ->
            /\ precision' = Number(fp) /\ fp' = RunEnd(fp)
            /\ place' = "length" /\ UNCHANGED args
       [] Here = "*" ->
            /\ precision' = IF NextInt > 0 THEN NextInt ELSE 0
            /\ args' = Tail(args) /\ Advance(1, "length")
       [] OTHER -> place' = "length" /\ UNCHANGED <<precision, fp, args>>
  /\ UNCHANGED <<flags, width>> /\ LoopKeeps

(* ptrdiff_t, intmax_t and size_t are not as wide as a long. *)
LengthFlags == [c \in {"l", "h", "t", "j", "z"} |->
  CASE c = "l" -> "LONG" [] c = "h" -> "SHORT" [] OTHER -> "LONG_LONG"]
LengthFlags2 == [c \in {"l", "h"} |-> IF c = "l" THEN "LONG_LONG" ELSE "CHAR"]
Length ==
  /\ Parsing("length")
  /\ IF Here \notin DOMAIN LengthFlags
     THEN place' = "specifier" /\ UNCHANGED <<flags, fp>>
     ELSE /\ flags' = flags \cup {LengthFlags[Here]}
          /\ Advance(1, IF Here \in DOMAIN LengthFlags2 THEN "length2" ELSE "specifier")
  /\ UNCHANGED <<width, precision, args>> /\ LoopKeeps

Length2 ==
  /\ Parsing("length2")
  /\ IF Here \in DOMAIN LengthFlags2 /\ Here = format[fp - 1]
     THEN flags' = flags \cup {LengthFlags2[Here]} /\ Advance(1, "specifier")
     ELSE place' = "specifier" /\ UNCHANGED <<flags, fp>>
  /\ UNCHANGED <<width, precision, args>> /\ LoopKeeps
-----------------------------------------------------------------------------
Least(a, b) == IF a < b THEN a ELSE b
Copies(c, n) == [i \in 1 .. n |-> c]

(* out_rev_: buf holds the characters last one first. *)
OutRev(buf, w, f) ==
  LET spaces == IF w > Len(buf) THEN Copies(Space, w - Len(buf)) ELSE <<>>
  IN  (IF f \cap {"LEFT", "ZEROPAD"} = {} THEN spaces ELSE <<>>)
      \o Reverse(buf) \o (IF "LEFT" \in f THEN spaces ELSE <<>>)

(* The loops stop at the end of the buffer. *)
Filled(buf, n) ==
  IF n > Len(buf) THEN buf \o Copies("0", Least(n, IntegerBuffer) - Len(buf)) ELSE buf
Adding(buf, s) == IF Len(buf) < IntegerBuffer THEN buf \o s ELSE buf

(* print_integer_finalization *)
LeadingZeros(buf, p, w, f) ==
  Filled(IF "LEFT" \notin f /\ "ZEROPAD" \in f THEN Filled(buf, w) ELSE buf, p)

(* Zeros give way to the prefix. *)
WithoutPadding(buf, unpadded, base, p, w, f) ==
  IF "PRECISION" \in f \/ Len(buf) \notin {p, w} THEN buf
  ELSE SubSeq(buf, 1, Len(buf) - Least(Len(buf) - unpadded, IF base \in {2, 16} THEN 2 ELSE 1))

Prefixed(buf, base, f) ==
  Adding(Adding(buf, CASE base = 16 -> IF "UPPERCASE" \in f THEN <<"X">> ELSE <<"x">>
                       [] base = 2  -> <<"b">>
                       [] OTHER     -> <<>>), <<"0">>)

Sign(negative, f) ==
  CASE negative     -> <<"-">>
    [] ~negative /\ "PLUS" \in f -> <<"+">>
    [] ~negative /\ "PLUS" \notin f /\ "SPACE" \in f -> <<Space>>
    [] OTHER -> <<>>

(* Mutant of SignRoom: the sign comes on top of the width. *)
SignRoomNone(negative, w, f) == w

SignRoom(negative, w, f) ==
  IF w > 0 /\ {"LEFT", "ZEROPAD"} \cap f = {"ZEROPAD"} /\ Sign(negative, f) # <<>>
  THEN w - 1 ELSE w

Finalized(digits, negative, base, p, w0, f) ==
  LET w      == SignRoom(negative, w0, f)
      padded == LeadingZeros(digits, p, w, f)
      hash   == \/ "POINTER" \in f
                \/ "HASH" \in f /\ ~(base = 8 /\ Len(padded) > Len(digits))
      number == IF ~hash THEN padded
                ELSE Prefixed(WithoutPadding(padded, Len(digits), base, p, w, f), base, f)
  IN  OutRev(Adding(number, Sign(negative, f)), w, f)

(* print_integer *)
DigitsOf(value, base, f) ==
  LET n == CHOOSE k \in 1 .. IntegerBuffer :
             value < Power(base)[k] /\ (k = 1 \/ value >= Power(base)[k - 1])
  IN  [i \in 1 .. n |->
         Letters("UPPERCASE" \in f)[((value \div Power(base)[i - 1]) % base) + 1]]

PrintInteger(value, negative, base, p, w, f) ==
  Finalized(IF value # 0 THEN DigitsOf(value, base, f)
            ELSE IF "PRECISION" \notin f THEN <<"0">> ELSE <<>>,
            negative, base, p, w,
            IF value = 0 /\ ("PRECISION" \notin f \/ base = 16) THEN f \ {"HASH"} ELSE f)
-----------------------------------------------------------------------------
Specifier(cs) == Parsing("specifier") /\ Here \in cs /\ fp' = fp + 1 /\ place' = "text"
SpecifierKeeps == UNCHANGED <<gadgetVars, format, flags, width, precision>>

Bases == [c \in {"d", "i", "u", "x", "X", "o", "b"} |->
  CASE c \in {"x", "X"} -> 16 [] c = "o" -> 8 [] c = "b" -> 2 [] OTHER -> 10]

(* Mutant of ValueWords: a long is taken as an int is. *)
ValueWordsInt(f) == IF "LONG_LONG" \in f THEN 0 ELSE 1

(* A long long is neither taken nor printed. *)
ValueWords(f) == IF "LONG_LONG" \in f THEN 0 ELSE IF "LONG" \in f THEN 2 ELSE 1
RawValue(f) ==
  CASE "LONG" \in f -> args[1] + IntMod * args[2]
    [] "LONG" \notin f /\ "CHAR" \in f -> args[1] % CharMod
    [] OTHER -> args[1]
ValueMod(f) == CASE "LONG" \in f -> LongMod
                 [] "LONG" \notin f /\ "CHAR" \in f -> CharMod
                 [] OTHER -> IntMod

Integer ==
  /\ Specifier(DOMAIN Bases)
  /\ LET signed == Here \in {"d", "i"}
         f == (flags \cup IF Here = "X" THEN {"UPPERCASE"} ELSE {})
              \ ((IF Bases[Here] = 10 THEN {"HASH"} ELSE {})
                 \cup (IF "PRECISION" \in flags THEN {"ZEROPAD"} ELSE {})
                 \cup (IF signed THEN {} ELSE {"PLUS", "SPACE"}))
         value == IF signed THEN AsSigned(RawValue(f), ValueMod(f)) ELSE RawValue(f)
     IN  /\ out' = IF "LONG_LONG" \in f THEN <<>>
                   ELSE PrintInteger(IF value < 0 THEN -value ELSE value, value < 0,
                                     Bases[Here], precision, width, f)
         /\ args' = SubSeq(args, ValueWords(f) + 1, Len(args))
  /\ UNCHANGED stored /\ SpecifierKeeps

(* A field of the width around what is no number; only '-' counts. *)
Field(s, w, f) ==
  LET spaces == IF w > Len(s) THEN Copies(Space, w - Len(s)) ELSE <<>>
  IN  IF "LEFT" \in f THEN s \o spaces ELSE spaces \o s

Character ==
  /\ Specifier({"c"})
  /\ out' = Field(<<Characters[Head(args) % CharMod]>>, width, flags) /\ args' = Tail(args)
  /\ UNCHANGED stored /\ SpecifierKeeps

String ==
  /\ Specifier({"s"})
  /\ LET s == Strings[Head(args)]
     IN  out' = IF Head(args) = 0
                THEN OutRev(<<")", "l", "l", "u", "n", "(">>, width, flags)
                ELSE Field(IF "PRECISION" \in flags THEN SubSeq(s, 1, Least(Len(s), precision))
                           ELSE s, width, flags)
  /\ args' = Tail(args)
  /\ UNCHANGED stored /\ SpecifierKeeps

Pointer ==
  /\ Specifier({"p"})
  /\ LET f == flags \cup {"ZEROPAD", "POINTER"}
         w == PointerDigits + 2
     IN  out' = IF Head(args) = 0 THEN OutRev(<<")", "l", "i", "n", "(">>, w, f)
                ELSE PrintInteger(Head(args), FALSE, 16, precision, w, f)
  /\ args' = Tail(args)
  /\ UNCHANGED stored /\ SpecifierKeeps

Percent ==
  /\ Specifier({"%"}) /\ out' = <<"%">> /\ UNCHANGED <<args, stored>> /\ SpecifierKeeps

(* %n; a long long is not there to be stored. *)
CountStored ==
  LET mod == CASE "CHAR" \in flags -> CharMod
               [] "CHAR" \notin flags /\ {"SHORT", "LONG"} \cap flags = {"LONG"} -> LongMod
               [] OTHER -> IntMod
  IN  pos % mod
Count ==
  /\ Specifier({"n"})
  /\ stored' = Append(stored, <<Head(args), CountStored>>) /\ args' = Tail(args)
  /\ UNCHANGED out /\ SpecifierKeeps

(* Any other character stands for itself, a NUL too. *)
OtherSpecifier ==
  /\ Parsing("specifier") /\ Here \notin DOMAIN Bases \cup {"c", "s", "p", "%", "n"}
  /\ fp' = fp + 1 /\ place' = "text" /\ out' = <<Here>>
  /\ UNCHANGED <<args, stored>> /\ SpecifierKeeps

Formatting ==
  \/ Text \/ ParseFlags \/ Width \/ Precision \/ PrecisionDigits \/ Length \/ Length2
  \/ Integer \/ Character \/ String \/ Pointer \/ Percent \/ Count \/ OtherSpecifier
  \/ PutNext \/ Finish

PrintfInit ==
  /\ GadgetInit
  /\ format = <<NUL>> /\ fp = 1 /\ place = "idle" /\ args = <<>> /\ out = <<>>
  /\ flags = {} /\ width = 0 /\ precision = 0 /\ stored = <<>>
=============================================================================
