---------------------------- MODULE PrintfProofs ----------------------------
(* Proofs about printf and the display: the output gadget on its own, for   *)
(* every size, every array and every width of the count; wait_vblank; and   *)
(* every call of printf that main and other programs make.                  *)
EXTENDS Display, Induction, SequenceTheorems, TLAPS

(* The count is the number of characters while it can be, and a buffer      *)
(* holds those that had room, before the NUL takes the last place.          *)
Counting == Counted => pos = Len(put)
Limits   == /\ function => ~buffer /\ max_chars = MaxSize
            /\ ~function /\ ~buffer => max_chars = 0
Held     == Counted /\ buffer /\ open =>
              \A i \in 0 .. max_chars - 1 : i < Len(put) => text[i] = put[i + 1]

(* The types as far as they are the same for all characters and arrays. *)
Shape ==
  /\ function \in BOOLEAN /\ buffer \in BOOLEAN /\ open \in BOOLEAN
  /\ pos \in Positions /\ max_chars \in 0 .. MaxSize
  /\ \E n \in Nat : DOMAIN text = 0 .. n - 1 /\ (buffer => max_chars <= n)
  /\ \E S : put \in Seq(S) /\ handed \in Seq(S) /\ text \in [DOMAIN text -> S]
GadgetInv == Shape /\ WithinSize /\ Terminated /\ Counting /\ Limits /\ Held

LEMMA GadgetInitInv == GadgetInit => GadgetInv /\ GadgetTypeOK
<1> SUFFICES ASSUME GadgetInit
             PROVE  GadgetInv /\ GadgetTypeOK
  OBVIOUS
<1> USE SizeAssumption
<1>1. /\ function = FALSE /\ buffer = FALSE /\ pos = 0 /\ max_chars = 0 /\ handed = <<>>
      /\ put = <<>> /\ open = FALSE /\ text = Blank(0)
  BY DEF GadgetInit
<1>2. DOMAIN text = 0 .. 0 - 1 /\ \A i \in DOMAIN text : FALSE
  BY <1>1 DEF Blank
<1> DEFINE S == Chars \cup {NUL, Unwritten}
<1>3. text \in [DOMAIN text -> S]
  BY <1>1 DEF Blank
<1>4. 0 \in 0 .. MaxArray /\ 0 \in 0 .. MaxSize /\ 0 \in 0 .. SizeMod - 1 /\ 0 \in Nat
  OBVIOUS
<1>5. put \in Seq(S) /\ handed \in Seq(S) /\ put \in Seq(Chars \cup {NUL}) /\ handed \in Seq(Chars \cup {NUL})
  BY <1>1
<1>6. GadgetTypeOK BY <1>1, <1>2, <1>3, <1>4, <1>5 DEF GadgetTypeOK, Positions
<1>7. Shape
  <2> HIDE DEF S
  <2> QED BY <1>1, <1>2, <1>3, <1>4, <1>5 DEF Shape, Positions
<1>8. Terminated /\ Counting /\ Limits /\ Held /\ WithinSize
  BY <1>1, <1>2 DEF Terminated, Counting, Limits, Held, WithinSize, Counted
<1> QED BY <1>6, <1>7, <1>8 DEF GadgetInv

(* A gadget just made holds nothing. *)
LEMMA OpeningInv ==
  ASSUME NEW f \in BOOLEAN, NEW b \in BOOLEAN, NEW limit \in 0 .. MaxSize,
         NEW n \in Nat, b => limit <= n,
         f => ~b /\ limit = MaxSize, ~f /\ ~b => limit = 0,
         Opening(f, b, limit, Blank(n))
  PROVE  GadgetInv'
<1>1. /\ function' = f /\ buffer' = b /\ open' = TRUE /\ pos' = 0 /\ max_chars' = limit
      /\ text' = Blank(n) /\ put' = <<>> /\ handed' = <<>>
  BY DEF Opening
<1>2. DOMAIN text' = 0 .. n - 1 /\ \A i \in 0 .. n - 1 : text'[i] = Unwritten
  BY <1>1 DEF Blank
<1>3. Shape'
  <2>1. text' \in [DOMAIN text' -> {Unwritten}]
    BY <1>1 DEF Blank
  <2>2. put' \in Seq({Unwritten}) /\ handed' \in Seq({Unwritten})
    BY <1>1
  <2> QED BY <1>1, <1>2, <2>1, <2>2, SizeAssumption DEF Shape, Positions
<1>4. WithinSize'
  BY <1>1, <1>2 DEF WithinSize
<1>5. Terminated' /\ Counting' /\ Held'
  BY <1>1, SizeAssumption DEF Terminated, Counting, Held, Counted, Room
<1> QED BY <1>1, <1>3, <1>4, <1>5 DEF GadgetInv, Limits

(* A character is counted, and goes where there is room for it. *)
LEMMA PutCharInv ==
  ASSUME GadgetInv, NEW c, PutChar(c)
  PROVE  GadgetInv'
<1> USE SizeAssumption
<1>1. /\ open /\ function' = function /\ buffer' = buffer /\ max_chars' = max_chars /\ open' = open
      /\ put' = Append(put, c)
  BY DEF PutChar
<1>2. PICK S : put \in Seq(S) /\ handed \in Seq(S) /\ text \in [DOMAIN text -> S]
  BY DEF GadgetInv, Shape
<1> DEFINE T == S \cup {c}
<1>12. /\ put \in Seq(T) /\ handed \in Seq(T) /\ text \in [DOMAIN text -> T] /\ c \in T
      /\ Len(put) \in Nat /\ max_chars \in 0 .. MaxSize /\ pos \in 0 .. SizeMod - 1
  BY <1>2 DEF GadgetInv, Shape, Positions
<1> HIDE DEF T
<1>3. /\ Len(put') = Len(put) + 1 /\ put'[Len(put) + 1] = c
      /\ \A i \in 1 .. Len(put) : put'[i] = put[i]
  BY <1>1, <1>12
<1>4. PICK n \in Nat : DOMAIN text = 0 .. n - 1 /\ (buffer => max_chars <= n)
  BY DEF GadgetInv, Shape
<1>5. /\ DOMAIN text' = 0 .. n - 1
      /\ \A i \in 0 .. n - 1 : i # pos => text'[i] = text[i]
      /\ text'[pos] = c \/ text' = text
      /\ buffer /\ pos < max_chars => text'[pos] = c
      /\ pos >= max_chars => text' = text
  BY <1>1, <1>12, <1>4 DEF PutChar, GadgetInv, Limits
<1>6. Shape'
  <2>1. text' \in [DOMAIN text' -> T]
    BY <1>4, <1>5, <1>12 DEF PutChar
  <2>2. pos' \in Positions
    BY <1>12 DEF PutChar, Positions
  <2>3. put' \in Seq(T) /\ handed' \in Seq(T)
    BY <1>1, <1>12 DEF PutChar
  <2> QED BY <1>1, <1>12, <1>4, <1>5, <2>1, <2>2, <2>3 DEF GadgetInv, Shape
<1>7. WithinSize'
  BY <1>1, <1>12, <1>4, <1>5 DEF GadgetInv, WithinSize
<1>8. Counting' /\ Limits'
  BY <1>1, <1>12, <1>3 DEF GadgetInv, Counting, Counted, Limits, PutChar
<1>9. Held'
  <2> SUFFICES ASSUME Counted', buffer, NEW i \in 0 .. max_chars - 1, i < Len(put')
               PROVE  text'[i] = put'[i + 1]
    BY <1>1 DEF Held
  <2>1. Counted /\ pos = Len(put)
    BY <1>12, <1>3 DEF GadgetInv, Counting, Counted
  <2>2. i \in 0 .. n - 1
    BY <1>1, <1>12, <1>4
  <2>3. CASE i = pos
    BY <1>12, <1>3, <1>5, <2>1, <2>3
  <2>4. CASE i # pos
    <3>1. i < Len(put)
      BY <1>12, <1>3, <2>1, <2>4
    <3>2. text[i] = put[i + 1]
      BY <1>1, <2>1, <3>1 DEF GadgetInv, Held
    <3>3. i + 1 \in 1 .. Len(put) BY <1>12, <2>2, <3>1
    <3>4. text'[i] = text[i] BY <1>5, <2>2, <2>4
    <3>5. put'[i + 1] = put[i + 1] BY <1>3, <3>3
    <3> QED BY <3>2, <3>4, <3>5
  <2> QED BY <2>3, <2>4
<1>10. Terminated'
  <2>1. ASSUME Counted', buffer, max_chars > 0
        PROVE  \A i \in 0 .. Room' - 1 : text'[i] = put'[i + 1]
    <3>1. Len(put') \in Nat BY <1>12, <1>3
    <3>2. \A i \in 0 .. max_chars - 1 : i < Len(put') => text'[i] = put'[i + 1]
      BY <1>1, <1>9, <2>1 DEF Held
    <3>3. Room' = IF Len(put') < max_chars THEN Len(put') ELSE max_chars - 1
      BY <1>1 DEF Room
    <3>4. \A i \in 0 .. Room' - 1 : i \in 0 .. max_chars - 1 /\ i < Len(put')
      BY <1>12, <2>1, <3>1, <3>3
    <3> QED BY <3>2, <3>4
  <2>2. ASSUME function, Len(put') <= MaxSize
        PROVE  handed' = put'
    <3>1. handed = put
      BY <1>12, <1>3, <2>2 DEF GadgetInv, Terminated
    <3>2. pos = Len(put) /\ max_chars = MaxSize
      BY <1>12, <1>3, <2>2 DEF GadgetInv, Counting, Counted, Limits
    <3> QED BY <1>1, <1>12, <1>3, <2>2, <3>1, <3>2 DEF PutChar
  <2> QED BY <1>1, <2>1, <2>2 DEF Terminated
<1> QED BY <1>6, <1>7, <1>8, <1>9, <1>10 DEF GadgetInv

(* The NUL goes behind the characters, in place of the last one if need be. *)
LEMMA TerminateInv ==
  ASSUME GadgetInv, Terminate
  PROVE  GadgetInv'
<1> USE SizeAssumption
<1>1. /\ open /\ open' = FALSE /\ function' = function /\ buffer' = buffer /\ pos' = pos
      /\ max_chars' = max_chars /\ put' = put /\ handed' = handed
  BY DEF Terminate
<1>s. PICK S : put \in Seq(S) /\ handed \in Seq(S) /\ text \in [DOMAIN text -> S]
  BY DEF GadgetInv, Shape
<1> DEFINE T == S \cup {NUL}
<1>2. /\ put \in Seq(T) /\ handed \in Seq(T) /\ text \in [DOMAIN text -> T] /\ NUL \in T
      /\ Len(put) \in Nat /\ max_chars \in 0 .. MaxSize /\ pos \in 0 .. SizeMod - 1
  BY <1>s DEF GadgetInv, Shape, Positions
<1> HIDE DEF T
<1>3. PICK n \in Nat : DOMAIN text = 0 .. n - 1 /\ (buffer => max_chars <= n)
  BY DEF GadgetInv, Shape
<1>4. /\ DOMAIN text' = 0 .. n - 1
      /\ \A i \in 0 .. n - 1 : i # LastPlace => text'[i] = text[i]
      /\ buffer /\ max_chars > 0 => text'[LastPlace] = NUL
      /\ ~(buffer /\ max_chars > 0) => text' = text
  BY <1>1, <1>2, <1>3 DEF Terminate, LastPlace, GadgetInv, Limits
<1>5. Shape'
  <2>1. text' \in [DOMAIN text' -> T]
    BY <1>2, <1>3, <1>4 DEF Terminate
  <2> QED BY <1>1, <1>2, <1>3, <1>4, <2>1 DEF GadgetInv, Shape
<1>6. WithinSize'
  BY <1>1, <1>2, <1>3, <1>4 DEF GadgetInv, WithinSize, LastPlace
<1>7. Counting' /\ Limits' /\ Held'
  BY <1>1 DEF GadgetInv, Counting, Counted, Limits, Held
<1>8. Terminated'
  <2>1. ASSUME Counted, buffer, max_chars > 0
        PROVE  /\ \A i \in 0 .. Room - 1 : text'[i] = put[i + 1]
               /\ text'[Room] = NUL
    <3>1. LastPlace = Room
      BY <2>1, <1>2 DEF GadgetInv, Counting, LastPlace, Room
    <3>2. ASSUME NEW i \in 0 .. Room - 1
          PROVE  text'[i] = put[i + 1]
      <4>1. i \in 0 .. max_chars - 1 /\ i < Len(put) /\ i # LastPlace
        BY <1>2, <2>1, <3>1 DEF Room
      <4>2. text[i] = put[i + 1]
        BY <1>1, <2>1, <4>1 DEF GadgetInv, Held
      <4> QED BY <1>2, <1>3, <1>4, <2>1, <4>1, <4>2
    <3> QED BY <1>4, <2>1, <3>1, <3>2
  <2> QED BY <1>1, <2>1 DEF GadgetInv, Terminated, Counted, Room
<1> QED BY <1>5, <1>6, <1>7, <1>8 DEF GadgetInv

LEMMA GadgetNextInv == GadgetInv /\ [GadgetNext]_gadgetVars => GadgetInv'
<1> SUFFICES ASSUME GadgetInv, [GadgetNext]_gadgetVars
             PROVE  GadgetInv'
  OBVIOUS
<1> USE SizeAssumption
<1>1. ASSUME NEW n \in 0 .. MaxArray, NEW size \in 0 .. n, BufferGadget(size, Blank(n))
      PROVE  GadgetInv'
  <2> DEFINE limit == IF size > MaxSize THEN MaxSize ELSE size
  <2>1. limit \in 0 .. MaxSize /\ limit <= n /\ n \in Nat
    OBVIOUS
  <2>2. Opening(FALSE, TRUE, limit, Blank(n))
    BY <1>1 DEF BufferGadget
  <2> QED BY <2>1, <2>2, OpeningInv
<1>2. CASE NoBufferGadget
  <2>1. Opening(FALSE, FALSE, 0, Blank(0))
    BY <1>2 DEF NoBufferGadget
  <2>2. 0 \in Nat /\ 0 \in 0 .. MaxSize
    OBVIOUS
  <2> QED BY <2>1, <2>2, OpeningInv, Zenon
<1>3. CASE FunctionGadget
  <2>1. Opening(TRUE, FALSE, MaxSize, Blank(0))
    BY <1>3 DEF FunctionGadget
  <2>2. 0 \in Nat /\ MaxSize \in 0 .. MaxSize
    OBVIOUS
  <2> QED BY <2>1, <2>2, OpeningInv, Zenon
<1>4. ASSUME NEW c, PutChar(c)
      PROVE  GadgetInv'
  BY <1>4, PutCharInv
<1>5. CASE Terminate
  BY <1>5, TerminateInv
<1>6. CASE UNCHANGED gadgetVars
  BY <1>6 DEF gadgetVars, GadgetInv, Shape, WithinSize, Terminated, Counting, Limits,
     Held, Counted, Room
<1> QED BY <1>1, <1>2, <1>3, <1>4, <1>5, <1>6 DEF GadgetNext

LEMMA GadgetTypeStep == GadgetTypeOK /\ [GadgetNext]_gadgetVars => GadgetTypeOK'
<1> SUFFICES ASSUME GadgetTypeOK, [GadgetNext]_gadgetVars
             PROVE  GadgetTypeOK'
  OBVIOUS
<1> USE SizeAssumption
<1>1. ASSUME NEW f \in BOOLEAN, NEW b \in BOOLEAN, NEW limit \in 0 .. MaxSize,
             NEW n \in 0 .. MaxArray, b => limit <= n, Opening(f, b, limit, Blank(n))
      PROVE  GadgetTypeOK'
  <2>1. /\ function' = f /\ buffer' = b /\ open' = TRUE /\ pos' = 0 /\ max_chars' = limit
        /\ text' = Blank(n) /\ put' = <<>> /\ handed' = <<>>
    BY <1>1 DEF Opening
  <2>2. DOMAIN text' = 0 .. n - 1 /\ text' \in [DOMAIN text' -> Chars \cup {NUL, Unwritten}]
    BY <2>1 DEF Blank
  <2>3. put' \in Seq(Chars \cup {NUL}) /\ handed' \in Seq(Chars \cup {NUL})
    BY <2>1
  <2> QED BY <1>1, <2>1, <2>2, <2>3 DEF GadgetTypeOK, Positions
<1>2. ASSUME NEW n \in 0 .. MaxArray, NEW size \in 0 .. n, BufferGadget(size, Blank(n))
      PROVE  GadgetTypeOK'
  <2> DEFINE limit == IF size > MaxSize THEN MaxSize ELSE size
  <2>1. limit \in 0 .. MaxSize /\ limit <= n
    OBVIOUS
  <2>2. Opening(FALSE, TRUE, limit, Blank(n))
    BY <1>2 DEF BufferGadget
  <2> QED BY <1>1, <2>1, <2>2
<1>3. CASE NoBufferGadget
  <2>1. Opening(FALSE, FALSE, 0, Blank(0)) BY <1>3 DEF NoBufferGadget
  <2>2. 0 \in 0 .. MaxArray /\ 0 \in 0 .. MaxSize OBVIOUS
  <2> QED BY <1>1, <2>1, <2>2, Zenon
<1>4. CASE FunctionGadget
  <2>1. Opening(TRUE, FALSE, MaxSize, Blank(0)) BY <1>4 DEF FunctionGadget
  <2>2. 0 \in 0 .. MaxArray /\ MaxSize \in 0 .. MaxSize OBVIOUS
  <2> QED BY <1>1, <2>1, <2>2, Zenon
<1>5. ASSUME NEW text2, text2 \in [DOMAIN text -> Chars \cup {NUL, Unwritten}], text' = text2,
             UNCHANGED <<function, buffer, max_chars>>, open' \in BOOLEAN, pos' \in Positions,
             put' \in Seq(Chars \cup {NUL}), handed' \in Seq(Chars \cup {NUL})
      PROVE  GadgetTypeOK'
  <2>1. DOMAIN text' = DOMAIN text BY <1>5
  <2> QED BY <1>5, <2>1 DEF GadgetTypeOK
<1>6. ASSUME NEW c \in Chars \cup {NUL}, PutChar(c)
      PROVE  GadgetTypeOK'
  <2>1. /\ put' \in Seq(Chars \cup {NUL}) /\ handed' \in Seq(Chars \cup {NUL}) /\ pos' \in Positions
        /\ UNCHANGED <<function, buffer, max_chars, open>>
    BY <1>6, SMTT(30) DEF PutChar, GadgetTypeOK, Positions
  <2>2. text' \in [DOMAIN text -> Chars \cup {NUL, Unwritten}]
    BY <1>6 DEF PutChar, GadgetTypeOK
  <2> QED BY <1>5, <2>1, <2>2 DEF GadgetTypeOK
<1>7. CASE Terminate
  <2>1. /\ put' = put /\ handed' = handed /\ pos' = pos /\ open' = FALSE
        /\ UNCHANGED <<function, buffer, max_chars>>
    BY <1>7 DEF Terminate
  <2>2. text' \in [DOMAIN text -> Chars \cup {NUL, Unwritten}]
    BY <1>7 DEF Terminate, GadgetTypeOK
  <2> QED BY <1>5, <2>1, <2>2 DEF GadgetTypeOK
<1>8. CASE UNCHANGED gadgetVars
  BY <1>8 DEF gadgetVars, GadgetTypeOK
<1> QED BY <1>2, <1>3, <1>4, <1>6, <1>7, <1>8 DEF GadgetNext

LEMMA GadgetAlways == GadgetSpec => [](GadgetInv /\ GadgetTypeOK)
  BY GadgetInitInv, GadgetNextInv, GadgetTypeStep, PTL DEF GadgetSpec

(* The gadget's fields keep their types: printf.c:310 to 316.               *)
THEOREM GadgetTypes == GadgetSpec => []GadgetTypeOK
  BY GadgetAlways, PTL

(* No text, however long, reaches a cell at or behind the size the caller   *)
(* gave, even when the count has wrapped: printf.c:327.                     *)
THEOREM GadgetStaysWithin == GadgetSpec => []WithinSize
<1>1. GadgetInv => WithinSize
  BY DEF GadgetInv
<1> QED BY <1>1, GadgetAlways, PTL

(* Every text shorter than the count can tell ends in a NUL directly behind *)
(* the characters that had room: printf.c:342 to 352.                       *)
THEOREM GadgetTerminates == GadgetSpec => []Terminated
<1>1. GadgetInv => Terminated
  BY DEF GadgetInv
<1> QED BY <1>1, GadgetAlways, PTL
-----------------------------------------------------------------------------

(* The count that wait_vblank looks for was read while the count stood at   *)
(* the value it had when it was called, or is a later one.                  *)
FirstHalf(n) == IF lowFirst THEN Low(n) ELSE High(n)
CountTypes ==
  /\ vblank_count \in Nat /\ before \in 0 .. vblank_count
  /\ half \in Nat /\ cnt \in Nat
Waited ==
  vblank_count = before =>
    /\ rom \in {"wait2", "look2"} => half = FirstHalf(before)
    /\ rom \in {"look", "look2"} => cnt = before
RomInv == CountTypes /\ Waited /\ lowFirst \in BOOLEAN /\ WellFormed(call)

LEMMA Parts == ASSUME NEW n \in Nat
  PROVE  Low(n) \in Nat /\ High(n) \in Nat /\ Low(n) < HalfMod /\ n = Low(n) + HalfMod * High(n)
<1>1. HalfMod \in Nat \ {0} BY DisplayAssumption
<1>2. n \div HalfMod \in Int /\ n % HalfMod \in 0 .. HalfMod - 1 /\ n = (n \div HalfMod) * HalfMod + (n % HalfMod)
  BY <1>1, Division
<1>3. n \div HalfMod \in Nat BY <1>1
<1> DEFINE q == n \div HalfMod
           r == n % HalfMod
<1>4. q \in Nat /\ r \in 0 .. HalfMod - 1 /\ n = q * HalfMod + r BY <1>2, <1>3
<1> HIDE DEF q, r
<1>5. q * HalfMod = HalfMod * q BY <1>1, <1>4
<1>6. n = r + HalfMod * q /\ r \in Nat /\ r < HalfMod
  <2>1. HalfMod * q \in Nat BY <1>1, <1>4
  <2> QED BY <1>1, <1>4, <1>5, <2>1
<1> QED BY <1>4, <1>6 DEF q, r, Low, High

(* A blank is none of the other characters; their names would not do.      *)
LEMMA SpaceIs == Space \notin {"%", "*", ".", "#", "-", "+", "0", "1", "2", "3", "4", "5", "6", "7", "8", "9"}
BY Zenon DEF Space

(* The texts of main are such that the standard says what they are. *)
LEMMA TextsAsked ==
  ASSUME NEW w \in 1 .. 6, NEW v \in Int
  PROVE  Admitted(Hex(w, v)) /\ Hex(w, v).conv # "n"
<1>1. /\ Hex(w, v).conv = "X" /\ Hex(w, v).flags = {"0"} /\ Hex(w, v).width = w
      /\ Hex(w, v).precision = None /\ Hex(w, v).star = FALSE /\ Hex(w, v).length = <<>>
      /\ Hex(w, v).value = v
  BY DEF Hex
<1>2. w \in {n \in 1 .. 99 : n < SizeMod} BY DisplayAssumption, SizeAssumption
<1>3. Asked(Hex(w, v)) BY <1>1, <1>2 DEF Asked
<1>4. "X" \in DOMAIN Bases BY DEF Bases
<1> QED BY <1>1, <1>3, <1>4 DEF Admitted
LEMMA PlainAsked ==
  ASSUME NEW c \in Chars, c # "%"
  PROVE  Admitted(Plain(c)) /\ Plain(c).conv # "n"
BY DEF Plain, Admitted
LEMMA ToTmpAsked ==
  ASSUME NEW pieces, NEW rest \in Seq(Nat), NEW S, pieces \in Seq(S),
         \A i \in 1 .. Len(pieces) : Admitted(pieces[i]) /\ pieces[i].conv # "n"
  PROVE  WellFormed(ToTmp(pieces, rest))
<1> DEFINE c == ToTmp(pieces, rest)
<1>1. /\ c.pieces = pieces /\ c.rest = rest /\ c.to = "snprintf" /\ c.array = TmpSize /\ c.size = TmpSize
      /\ c.tail = <<>>
  BY DEF ToTmp
<1>2. DOMAIN pieces = 1 .. Len(pieces) /\ Len(pieces) \in Nat OBVIOUS
<1>3. pieces \in Seq({pieces[i] : i \in DOMAIN pieces})
  BY <1>2
<1>4. TmpSize \in Nat /\ <<>> \in Seq(Chars) BY DisplayAssumption
<1> HIDE DEF c
<1>5. WellFormed(c) BY <1>1, <1>2, <1>3, <1>4 DEF WellFormed
<1> QED BY <1>5 DEF c

(* The pieces that main prints. *)
LEMMA CountAsked ==
  ASSUME NEW v \in Int, NEW n \in Nat
  PROVE  WellFormed(ToTmp(<<Plain("V"), Hex(6, v)>>, <<n>>))
<1> DEFINE a == Plain("V")
           b == Hex(6, v)
           s == <<a, b>>
<1>1. Admitted(a) /\ a.conv # "n" BY PlainAsked, DisplayAssumption
<1>2. Admitted(b) /\ b.conv # "n" BY TextsAsked
<1> HIDE DEF a, b
<1>3. s \in Seq({a, b}) /\ Len(s) = 2 /\ s[1] = a /\ s[2] = b /\ <<n>> \in Seq(Nat) OBVIOUS
<1> HIDE DEF s
<1>4. \A i \in 1 .. Len(s) : Admitted(s[i]) /\ s[i].conv # "n" BY <1>1, <1>2, <1>3
<1>5. WellFormed(ToTmp(s, <<n>>)) BY <1>3, <1>4, ToTmpAsked
<1> QED BY <1>5 DEF s, a, b

LEMMA StatusAsked ==
  ASSUME NEW s \in Statuses
  PROVE  WellFormed(ToTmp(<<Plain("A"), Hex(1, s[1]), Plain("I"), Hex(2, s[2]), Plain("/"), Hex(2, s[3]),
                    Plain("O"), Hex(2, s[4]), Plain("/"), Hex(2, s[5]), Plain(Space)>>, <<>>))
<1>1. s[1] \in Int /\ s[2] \in Int /\ s[3] \in Int /\ s[4] \in Int /\ s[5] \in Int
  BY DisplayAssumption
<1> DEFINE a == Plain("A")
           b == Hex(1, s[1])
           c == Plain("I")
           d == Hex(2, s[2])
           e == Plain("/")
           f == Hex(2, s[3])
           g == Plain("O")
           h == Hex(2, s[4])
           k == Hex(2, s[5])
           l == Plain(Space)
           t == <<a, b, c, d, e, f, g, h, e, k, l>>
           Good(p) == Admitted(p) /\ p.conv # "n"
<1>2. Good(a) /\ Good(c) /\ Good(e) /\ Good(g) /\ Good(l)
  <2>1. Space \in Chars /\ Space # "%" BY CharsAssumption, SpaceIs
  <2> HIDE DEF b, d, f, h, k
  <2> QED BY <2>1, PlainAsked, DisplayAssumption
<1>3. Good(b) /\ Good(d) /\ Good(f) /\ Good(h) /\ Good(k) BY <1>1, TextsAsked
<1> HIDE DEF a, b, c, d, e, f, g, h, k, l, Good
<1>4. t \in Seq({a, b, c, d, e, f, g, h, k, l}) /\ Len(t) = 11 OBVIOUS
<1>5. \A i \in 1 .. 11 : Good(t[i])
  BY <1>2, <1>3
<1>6. <<>> \in Seq(Nat) OBVIOUS
<1>7. \A i \in 1 .. Len(t) : Admitted(t[i]) /\ t[i].conv # "n" BY <1>4, <1>5 DEF Good
<1> HIDE DEF t
<1>8. WellFormed(ToTmp(t, <<>>)) BY <1>4, <1>6, <1>7, ToTmpAsked
<1> QED BY <1>8 DEF t, a, b, c, d, e, f, g, h, k, l

LEMMA WholeType ==
  ASSUME CountTypes
  PROVE  Whole \in Nat /\ (half = FirstHalf(vblank_count) /\ lowFirst \in BOOLEAN => Whole = vblank_count)
<1>1. vblank_count \in Nat /\ half \in Nat /\ HalfMod \in Nat BY DisplayAssumption DEF CountTypes
<1>2. /\ Low(vblank_count) \in Nat /\ High(vblank_count) \in Nat
      /\ vblank_count = Low(vblank_count) + HalfMod * High(vblank_count)
  BY <1>1, Parts
<1>3. Whole \in Nat
  <2>1. HalfMod * High(vblank_count) \in Nat /\ HalfMod * half \in Nat BY <1>1, <1>2
  <2> QED BY <1>1, <1>2, <2>1 DEF Whole
<1>4. ASSUME half = FirstHalf(vblank_count), lowFirst \in BOOLEAN PROVE Whole = vblank_count
  BY <1>2, <1>4 DEF Whole, FirstHalf
<1> QED BY <1>3, <1>4

(* What a step is to printf: nothing, a call, or a step of a call. *)
PrintfStep ==
  \/ UNCHANGED <<printfVars, call>>
  \/ \E c : WellFormed(c) /\ Idle /\ Make(c)
  \/ Formatting /\ UNCHANGED call

LEMMA MakesIdle == ASSUME NEW c, WellFormed(c), Make(c) PROVE Idle
BY DEF WellFormed, Make, Snprintf, SnprintfNull, Sprintf, PrintfCall, Begin

LEMMA StepsOfPrintf ==
  ASSUME RomInv, [Next]_vars
  PROVE  PrintfStep
<1>1. CountTypes /\ WellFormed(call) BY DEF RomInv
<1>2. CASE UNCHANGED vars BY <1>2 DEF vars, PrintfStep
<1>3. CASE VblankHandler BY <1>3 DEF VblankHandler, PrintfStep
<1>4. CASE OtherCaller
  <2>1. ASSUME Make(call) PROVE PrintfStep BY <1>1, <2>1, MakesIdle DEF PrintfStep
  <2>2. ASSUME Formatting, UNCHANGED call PROVE PrintfStep BY <2>2 DEF PrintfStep
  <2> QED BY <1>4, <2>1, <2>2 DEF OtherCaller
<1>5. CASE Main
  <2>1. CASE PrintCount
    <3>1. Low(Whole) \in Int /\ High(Whole) \in Nat
      <4>1. Whole \in Nat BY <1>1, WholeType
      <4> QED BY <4>1, Parts
    <3>2. WellFormed(ToTmp(<<Plain("V"), Hex(6, Low(Whole))>>, <<High(Whole)>>)) BY <3>1, CountAsked
    <3>3. Make(ToTmp(<<Plain("V"), Hex(6, Low(Whole))>>, <<High(Whole)>>)) BY <2>1 DEF PrintCount
    <3> QED BY <3>2, <3>3, MakesIdle DEF PrintfStep
  <2>2. CASE PrintStatus
    <3>1. PICK s \in Statuses :
            Make(ToTmp(<<Plain("A"), Hex(1, s[1]), Plain("I"), Hex(2, s[2]), Plain("/"), Hex(2, s[3]),
                    Plain("O"), Hex(2, s[4]), Plain("/"), Hex(2, s[5]), Plain(Space)>>, <<>>))
      BY <2>2 DEF PrintStatus
    <3>2. WellFormed(ToTmp(<<Plain("A"), Hex(1, s[1]), Plain("I"), Hex(2, s[2]), Plain("/"), Hex(2, s[3]),
                    Plain("O"), Hex(2, s[4]), Plain("/"), Hex(2, s[5]), Plain(Space)>>, <<>>))
      BY StatusAsked
    <3> QED BY <3>1, <3>2, MakesIdle DEF PrintfStep
  <2>3. CASE rom # "none" /\ Formatting /\ UNCHANGED <<call, romVars, vblank_count>>
    BY <2>3 DEF PrintfStep
  <2>4. CASE Parked BY <2>4 DEF Parked, vars, PrintfStep
  <2>5. CASE StartUp \/ DrawCount \/ DrawStatus \/ Dead \/ ReadFirst("count", "count2") \/ Waiting
    <3>1. StartUp => NoPrintf BY DEF StartUp
    <3>2. DrawCount => NoPrintf BY DEF DrawCount
    <3>3. DrawStatus => NoPrintf BY DEF DrawStatus
    <3>4. Dead => NoPrintf BY DEF Dead
    <3>5. ReadFirst("count", "count2") => NoPrintf BY DEF ReadFirst
    <3>6. Waiting => NoPrintf BY DEF Waiting, ReadFirst, TakeCount, Look
    <3>7. NoPrintf BY <2>5, <3>1, <3>2, <3>3, <3>4, <3>5, <3>6
    <3> QED BY <3>7 DEF NoPrintf, PrintfStep
  <2> QED BY <1>5, <2>1, <2>2, <2>3, <2>4, <2>5 DEF Main
<1> QED BY <1>2, <1>3, <1>4, <1>5 DEF Next

LEMMA ReadsHalf ==
  ASSUME CountTypes, lowFirst \in BOOLEAN
  PROVE  /\ (IF lowFirst THEN Low(vblank_count) ELSE High(vblank_count)) = FirstHalf(vblank_count)
         /\ FirstHalf(vblank_count) \in Nat
BY Parts DEF CountTypes, FirstHalf

LEMMA RomStep == ASSUME RomInv, [Next]_vars PROVE RomInv'
<1> USE DEF RomInv
<1>1. WellFormed(call)'
  <2>1. CASE UNCHANGED <<printfVars, call>> BY <2>1
  <2>2. ASSUME NEW c, WellFormed(c), Make(c) PROVE WellFormed(call)' BY <2>2 DEF Make
  <2> QED BY <2>1, <2>2, StepsOfPrintf DEF PrintfStep
<1>2. ASSUME UNCHANGED <<vblank_count, before, lowFirst, half, cnt>>,
             rom' \in {"wait2", "look2"} => half = FirstHalf(vblank_count) \/ vblank_count # before,
             rom' \in {"look", "look2"} => cnt = vblank_count \/ vblank_count # before
      PROVE  RomInv'
  BY <1>1, <1>2 DEF CountTypes, Waited, FirstHalf
<1>3. CASE UNCHANGED vars BY <1>2, <1>3 DEF vars, romVars, Waited
<1>4. CASE VblankHandler
  <2>1. vblank_count' = vblank_count + 1 /\ UNCHANGED <<before, lowFirst, half, cnt, rom>>
    BY <1>4 DEF VblankHandler, romVars
  <2> QED BY <1>1, <2>1 DEF CountTypes, Waited
<1>5. CASE OtherCaller \/ Parked \/ (rom # "none" /\ Formatting /\ UNCHANGED <<call, romVars, vblank_count>>)
  BY <1>2, <1>5 DEF OtherCaller, Parked, vars, romVars, Waited
<1>6. CASE StartUp \/ PrintCount \/ DrawCount \/ PrintStatus \/ Dead
  <2>1. UNCHANGED <<vblank_count, before, lowFirst, half, cnt>> /\ rom' \notin {"wait2", "look", "look2"}
    <3>1. CASE StartUp BY <3>1 DEF StartUp, MainKeeps
    <3>2. CASE PrintCount BY <3>2 DEF PrintCount, MainKeeps
    <3>3. CASE DrawCount BY <3>3 DEF DrawCount, MainKeeps
    <3>4. CASE PrintStatus BY <3>4 DEF PrintStatus, MainKeeps
    <3>5. CASE Dead BY <3>5 DEF Dead, MainKeeps
    <3> QED BY <1>6, <3>1, <3>2, <3>3, <3>4, <3>5
  <2> QED BY <1>2, <2>1
<1>7. CASE DrawStatus
  <2>1. before' = vblank_count /\ UNCHANGED <<vblank_count, lowFirst, half, cnt>> /\ rom' = "wait"
    BY <1>7 DEF DrawStatus, MainKeeps
  <2> QED BY <1>1, <2>1 DEF CountTypes, Waited
<1>8. ASSUME NEW here, NEW there, ReadFirst(here, there), <<here, there>> \in {<<"count", "count2">>, <<"wait", "wait2">>, <<"look", "look2">>}
      PROVE  RomInv'
  <2>1. /\ half' = FirstHalf(vblank_count) /\ half' \in Nat /\ rom = here /\ rom' = there
        /\ UNCHANGED <<vblank_count, before, lowFirst, cnt>>
    BY <1>8, ReadsHalf DEF ReadFirst, MainKeeps
  <2>2. rom' = "look2" => rom = "look" BY <1>8, <2>1
  <2>3. rom' # "look" BY <1>8, <2>1
  <2> QED BY <1>1, <2>1, <2>2, <2>3 DEF CountTypes, Waited, FirstHalf
<1>9. CASE TakeCount
  <2>1. /\ cnt' = Whole /\ rom = "wait2" /\ rom' = "look"
        /\ UNCHANGED <<vblank_count, before, lowFirst, half>>
    BY <1>9 DEF TakeCount, MainKeeps
  <2>2. Whole \in Nat /\ (half = FirstHalf(vblank_count) => Whole = vblank_count) BY WholeType
  <2> QED BY <1>1, <2>1, <2>2 DEF CountTypes, Waited
<1>10. CASE Look
  <2>1. /\ rom = "look2" /\ rom' \in {"look", "count"}
        /\ UNCHANGED <<vblank_count, before, lowFirst, half, cnt>>
    BY <1>10 DEF Look, MainKeeps
  <2> QED BY <1>1, <2>1 DEF CountTypes, Waited
<1> QED BY <1>3, <1>4, <1>5, <1>6, <1>7, <1>8, <1>9, <1>10 DEF Next, Main, Waiting

LEMMA RomBegins == Init => RomInv
<1> SUFFICES ASSUME Init PROVE RomInv OBVIOUS
<1>1. CountTypes /\ Waited /\ lowFirst \in BOOLEAN BY DEF Init, CountTypes, Waited
<1>2. WellFormed(call)
  <2>1. CASE call \in Calls BY <2>1, DisplayAssumption
  <2>2. CASE call = ToTmp(<<>>, <<>>)
    <3>1. <<>> \in Seq(Nat) /\ Len(<<>>) = 0 OBVIOUS
    <3>2. \A i \in 1 .. Len(<<>>) : Admitted(<<>>[i]) /\ <<>>[i].conv # "n" BY <3>1
    <3> QED BY <2>2, <3>1, <3>2, ToTmpAsked
  <2> QED BY <2>1, <2>2 DEF Init
<1> QED BY <1>1, <1>2 DEF RomInv

LEMMA RomAlways == Spec => []RomInv
BY RomBegins, RomStep, PTL DEF Spec

(* wait_vblank returns only after a vertical blank, whichever word of the   *)
(* count it reads first and wherever the interrupt comes between its reads: *)
(* main.c:229 to 233.                                                       *)
THEOREM VblankAwaited == Spec => WaitsForVblank
<1>1. RomInv /\ [Next]_vars => [rom = "look2" /\ rom' = "count" => vblank_count > before]_vars
  <2> SUFFICES ASSUME RomInv, Next, rom = "look2", rom' = "count", vblank_count = before PROVE FALSE
    BY DEF RomInv, CountTypes
  <2>1. Look
    BY DEF Next, Main, VblankHandler, OtherCaller, romVars, StartUp, PrintCount, DrawCount, PrintStatus, DrawStatus,
           Dead, Parked, vars, ReadFirst, Waiting, TakeCount
  <2>2. half = FirstHalf(before) /\ cnt = before BY DEF RomInv, Waited
  <2>3. Whole = vblank_count BY <2>2, WholeType DEF RomInv
  <2> QED BY <2>1, <2>2, <2>3 DEF Look
<1> QED BY <1>1, RomAlways, PTL DEF Spec, WaitsForVblank
-----------------------------------------------------------------------------

(* A call makes a gadget that is within the caller's array. *)
LEMMA MakeInv ==
  ASSUME NEW c, WellFormed(c), Make(c)
  PROVE  GadgetInv'
<1> USE SizeAssumption
<1>1. c.array \in Nat /\ c.size \in Nat BY DEF WellFormed
<1>2. ASSUME NEW n \in Nat, NEW size \in Nat, NEW limit, limit = (IF size > MaxSize THEN MaxSize ELSE size),
             limit <= n, Opening(FALSE, TRUE, limit, Blank(n))
      PROVE  GadgetInv'
  <2>1. limit \in 0 .. MaxSize BY <1>2
  <2>2. FALSE \in BOOLEAN /\ TRUE \in BOOLEAN OBVIOUS
  <2> QED BY <1>2, <2>1, <2>2, OpeningInv, Zenon
<1>3. CASE c.to = "snprintf"
  <2>1. BufferGadget(c.size, Blank(c.array)) BY <1>3 DEF Make, Snprintf
  <2>2. c.size <= c.array BY <1>3 DEF WellFormed
  <2> DEFINE n == c.array
             size == c.size
             limit == IF size > MaxSize THEN MaxSize ELSE size
  <2>3. limit <= n /\ n \in Nat /\ size \in Nat BY <1>1, <2>2
  <2>4. Opening(FALSE, TRUE, limit, Blank(n)) BY <2>1 DEF BufferGadget
  <2> HIDE DEF n, size
  <2> QED BY <1>2, <2>3, <2>4
<1>4. CASE c.to = "sprintf"
  <2>1. BufferGadget(MaxSize, Blank(c.array)) BY <1>4 DEF Make, Sprintf
  <2>2. MaxSize <= c.array BY <1>4 DEF WellFormed
  <2> DEFINE n == c.array
             limit == IF MaxSize > MaxSize THEN MaxSize ELSE MaxSize
  <2>3. limit <= n /\ n \in Nat /\ MaxSize \in Nat BY <1>1, <2>2
  <2>4. Opening(FALSE, TRUE, limit, Blank(n)) BY <2>1 DEF BufferGadget
  <2> HIDE DEF n
  <2> QED BY <1>2, <2>3, <2>4
<1>5. CASE c.to = "null"
  <2>1. Opening(FALSE, FALSE, 0, Blank(0)) BY <1>5 DEF Make, SnprintfNull, NoBufferGadget
  <2>2. 0 \in Nat /\ 0 \in 0 .. MaxSize OBVIOUS
  <2> QED BY <2>1, <2>2, OpeningInv, Zenon
<1>6. CASE c.to = "printf"
  <2>1. Opening(TRUE, FALSE, MaxSize, Blank(0)) BY <1>6 DEF Make, PrintfCall, FunctionGadget
  <2>2. 0 \in Nat /\ MaxSize \in 0 .. MaxSize OBVIOUS
  <2> QED BY <2>1, <2>2, OpeningInv, Zenon
<1> QED BY <1>3, <1>4, <1>5, <1>6 DEF WellFormed

LEMMA GadgetUnchanged == GadgetInv /\ UNCHANGED gadgetVars => GadgetInv'
BY DEF gadgetVars, GadgetInv, Shape, WithinSize, Terminated, Counting, Limits, Held, Counted, Room

(* Of printf's steps only two touch the gadget. *)
LEMMA FormattingGadget ==
  ASSUME Formatting
  PROVE  UNCHANGED gadgetVars \/ PutNext \/ Finish
<1>1. Text => UNCHANGED gadgetVars BY DEF Text
<1>2. ParseFlags => UNCHANGED gadgetVars BY DEF ParseFlags, LoopKeeps
<1>3. Width => UNCHANGED gadgetVars BY DEF Width, LoopKeeps
<1>4. Precision => UNCHANGED gadgetVars BY DEF Precision, LoopKeeps
<1>5. PrecisionDigits => UNCHANGED gadgetVars BY DEF PrecisionDigits, LoopKeeps
<1>6. Length => UNCHANGED gadgetVars BY DEF Length, LoopKeeps
<1>7. Length2 => UNCHANGED gadgetVars BY DEF Length2, LoopKeeps
<1>8. Integer => UNCHANGED gadgetVars BY DEF Integer, SpecifierKeeps
<1>9. Character => UNCHANGED gadgetVars BY DEF Character, SpecifierKeeps
<1>10. String => UNCHANGED gadgetVars BY DEF String, SpecifierKeeps
<1>11. Pointer => UNCHANGED gadgetVars BY DEF Pointer, SpecifierKeeps
<1>12. Percent => UNCHANGED gadgetVars BY DEF Percent, SpecifierKeeps
<1>13. Count => UNCHANGED gadgetVars BY DEF Count, SpecifierKeeps
<1>14. OtherSpecifier => UNCHANGED gadgetVars BY DEF OtherSpecifier, SpecifierKeeps
<1> QED BY <1>1, <1>2, <1>3, <1>4, <1>5, <1>6, <1>7, <1>8, <1>9, <1>10, <1>11, <1>12, <1>13, <1>14 DEF Formatting

LEMMA PrintfGadget == ASSUME GadgetInv, PrintfStep PROVE GadgetInv'
<1>1. CASE UNCHANGED <<printfVars, call>> BY <1>1, GadgetUnchanged DEF printfVars
<1>2. ASSUME NEW c, WellFormed(c), Make(c) PROVE GadgetInv' BY <1>2, MakeInv
<1>3. CASE Formatting
  <2>1. CASE UNCHANGED gadgetVars BY <2>1, GadgetUnchanged
  <2>2. CASE PutNext BY <2>2, PutCharInv DEF PutNext
  <2>3. CASE Finish BY <2>3, TerminateInv DEF Finish
  <2> QED BY <1>3, <2>1, <2>2, <2>3, FormattingGadget
<1> QED BY <1>1, <1>2, <1>3 DEF PrintfStep

LEMMA DisplayAlways == Spec => [](RomInv /\ GadgetInv)
<1>1. Init => RomInv /\ GadgetInv BY RomBegins, GadgetInitInv DEF Init, PrintfInit
<1>2. RomInv /\ GadgetInv /\ [Next]_vars => (RomInv /\ GadgetInv)'
  BY RomStep, StepsOfPrintf, PrintfGadget
<1> QED BY <1>1, <1>2, PTL DEF Spec

(* Whatever a caller asks printf for, and whatever text comes of it, no     *)
(* cell at or behind the size it gave is written: printf.c:327 and 1358.    *)
THEOREM PrintfStaysWithin == Spec => []WithinSize
<1>1. GadgetInv => WithinSize BY DEF GadgetInv
<1> QED BY <1>1, DisplayAlways, PTL

(* ... and the text, as far as there is room for it, is in the buffer and   *)
(* ends in a NUL: printf.c:342 to 352.                                      *)
THEOREM PrintfTerminates == Spec => []Terminated
<1>1. GadgetInv => Terminated BY DEF GadgetInv
<1> QED BY <1>1, DisplayAlways, PTL

(* One sequence behind another. *)
Appended(u, s, t) ==
  /\ Len(u) = Len(s) + Len(t)
  /\ \A i \in 1 .. Len(s) : u[i] = s[i]
  /\ \A i \in 1 .. Len(t) : u[Len(s) + i] = t[i]
LEMMA Behindhand ==
  ASSUME NEW S, NEW s \in Seq(S), NEW t \in Seq(S)
  PROVE  s \o t \in Seq(S) /\ Appended(s \o t, s, t)
<1> DEFINE u == s \o t
<1>1. /\ u \in Seq(S) /\ Len(u) = Len(s) + Len(t)
      /\ \A i \in 1 .. Len(s) + Len(t) : u[i] = IF i <= Len(s) THEN s[i] ELSE t[i - Len(s)]
  BY ConcatProperties
<1>2. Len(s) \in Nat /\ Len(t) \in Nat OBVIOUS
<1> HIDE DEF u
<1>3. ASSUME NEW i \in 1 .. Len(s) PROVE u[i] = s[i] BY <1>1, <1>2
<1>4. ASSUME NEW i \in 1 .. Len(t) PROVE u[Len(s) + i] = t[i]
  <2>1. Len(s) + i \in 1 .. Len(s) + Len(t) /\ ~(Len(s) + i <= Len(s)) /\ (Len(s) + i) - Len(s) = i
    BY <1>2
  <2> QED BY <1>1, <2>1
<1>5. u \in Seq(S) /\ Appended(u, s, t)
  BY <1>1, <1>3, <1>4 DEF Appended
<1> QED BY <1>5 DEF u

(* Sequences one behind the other: f[k] is that of the first k. *)
Chain(f, n, g) == f[0] = <<>> /\ \A i \in 1 .. n : f[i] = f[i - 1] \o g[i]

LEMMA ChainExists ==
  ASSUME NEW S, NEW n \in Nat, NEW g \in [1 .. n -> Seq(S)]
  PROVE  \E f \in [0 .. n -> Seq(S)] : Chain(f, n, g)
<1> DEFINE step == [p \in (1 .. n) \X Seq(S) |-> p[2] \o g[p[1]]]
<1>1. step \in [(1 .. n) \X Seq(S) -> Seq(S)]
  <2>1. ASSUME NEW p \in (1 .. n) \X Seq(S) PROVE p[2] \o g[p[1]] \in Seq(S)
    <3>1. p[2] \in Seq(S) /\ g[p[1]] \in Seq(S) OBVIOUS
    <3> QED BY <3>1, ConcatProperties
  <2> QED BY <2>1
<1>2. <<>> \in Seq(S) OBVIOUS
<1>3. ASSUME NEW i \in 1 .. n, NEW s \in Seq(S) PROVE step[<<i, s>>] = s \o g[i] OBVIOUS
<1> HIDE DEF step
<1>4. PICK f \in [0 .. n -> Seq(S)] : RecursionUpTo(f, n, <<>>, step) BY <1>1, <1>2, FiniteRecursion
<1>5. ASSUME NEW i \in 1 .. n PROVE f[i] = f[i - 1] \o g[i]
  <2>1. i - 1 \in 0 .. n OBVIOUS
  <2>2. f[i - 1] \in Seq(S) BY <2>1, <1>4
  <2> QED BY <1>3, <1>4, <2>2 DEF RecursionUpTo
<1> QED BY <1>4, <1>5 DEF Chain, RecursionUpTo

LEMMA FlattenIs ==
  ASSUME NEW S, NEW n \in Nat, NEW g \in [1 .. n -> Seq(S)],
         NEW f \in [0 .. n -> Seq(S)], Chain(f, n, g)
  PROVE  FlattenSeq(g) = f[n]
<1>1. g \in Seq(Seq(S)) /\ Len(g) = n OBVIOUS
<1>2. CASE n = 0
  <2>1. g = <<>> BY <1>1, <1>2
  <2> QED BY <1>1, <1>2, <2>1 DEF FlattenSeq, Chain
<1>3. CASE n # 0
  <2> DEFINE G(h) == h = [i \in 1 .. n |-> IF i = 1 THEN g[i] ELSE h[i - 1] \o g[i]]
             h == [i \in 1 .. n |-> f[i]]
             e == CHOOSE x : G(x)
  <2>5. ASSUME NEW i \in 1 .. n PROVE f[i] = IF i = 1 THEN g[i] ELSE f[i - 1] \o g[i]
    <3>1. CASE i = 1
      <4>1. 1 \in 1 .. n /\ 1 - 1 = 0 BY <3>1
      <4>2. f[1] = f[0] \o g[1] BY <4>1 DEF Chain
      <4>3. f[0] = <<>> BY DEF Chain
      <4>4. g[1] \in Seq(S) BY <4>1
      <4>5. f[1] = g[1] BY <4>2, <4>3, <4>4, ConcatEmptySeq
      <4> QED BY <3>1, <4>5
    <3>2. CASE i # 1 BY <3>2 DEF Chain
    <3> QED BY <3>1, <3>2
  <2>1. G(h)
    <3>1. ASSUME NEW i \in 1 .. n PROVE f[i] = IF i = 1 THEN g[i] ELSE h[i - 1] \o g[i]
      <4>1. CASE i = 1 BY <2>5, <4>1
      <4>2. CASE i # 1
        <5>1. i - 1 \in 1 .. n BY <4>2
        <5>2. h[i - 1] = f[i - 1] BY <5>1
        <5> QED BY <2>5, <4>2, <5>2
      <4> QED BY <4>1, <4>2
    <3>2. h = [i \in 1 .. n |-> f[i]] OBVIOUS
    <3> HIDE DEF h
    <3> QED BY <3>1, <3>2
  <2>2. G(e)
    <3> HIDE DEF G, h
    <3> QED BY <2>1
  <2>3. FlattenSeq(g) = e[n] BY <1>1, <1>3 DEF FlattenSeq
  <2> DEFINE T == {k \in Nat : k + 1 <= n => e[k + 1] = f[k + 1]}
  <2>4. \A i \in 1 .. n : e[i] = IF i = 1 THEN g[i] ELSE e[i - 1] \o g[i] BY <2>2, Zenon
  <2> HIDE DEF e, h, G
  <2>6. 0 \in T BY <2>4, <2>5
  <2>7. ASSUME NEW k \in T PROVE k + 1 \in T
    <3> SUFFICES ASSUME k + 2 <= n PROVE e[k + 2] = f[k + 2] OBVIOUS
    <3>1. k \in Nat /\ k + 2 \in 1 .. n /\ k + 2 # 1 /\ (k + 2) - 1 = k + 1 OBVIOUS
    <3>2. e[k + 1] = f[k + 1] BY <2>7, <3>1
    <3>3. e[k + 2] = e[k + 1] \o g[k + 2] BY <2>4, <3>1
    <3>4. f[k + 2] = f[k + 1] \o g[k + 2] BY <2>5, <3>1
    <3> QED BY <3>2, <3>3, <3>4
  <2>8. T \subseteq Nat OBVIOUS
  <2> HIDE DEF T
  <2>9. T = Nat BY <2>6, <2>7, <2>8, Inductive
  <2>10. n - 1 \in T /\ (n - 1) + 1 = n BY <1>3, <2>9
  <2>11. e[n] = f[n] BY <2>10 DEF T
  <2> QED BY <2>3, <2>11
<1> QED BY <1>2, <1>3

(* The first k of n sequences, joined. *)
First(g, k) == FlattenSeq([i \in 1 .. k |-> g[i]])

LEMMA FirstNext ==
  ASSUME NEW S, NEW n \in Nat, NEW g \in [1 .. n -> Seq(S)]
  PROVE  /\ First(g, 0) = <<>>
         /\ \A k \in 0 .. n : First(g, k) \in Seq(S)
         /\ \A k \in 0 .. n - 1 : First(g, k + 1) = First(g, k) \o g[k + 1]
<1>1. PICK f \in [0 .. n -> Seq(S)] : Chain(f, n, g) BY ChainExists
<1>2. ASSUME NEW k \in 0 .. n PROVE First(g, k) = f[k] /\ f[k] \in Seq(S)
  <2> DEFINE g2 == [i \in 1 .. k |-> g[i]]
             f2 == [i \in 0 .. k |-> f[i]]
  <2>1. k \in Nat /\ g2 \in [1 .. k -> Seq(S)] /\ f2 \in [0 .. k -> Seq(S)] OBVIOUS
  <2>2. Chain(f2, k, g2)
    <3>1. ASSUME NEW i \in 1 .. k PROVE f2[i] = f2[i - 1] \o g2[i]
      <4>1. i \in 1 .. n /\ i \in 0 .. k /\ i - 1 \in 0 .. k OBVIOUS
      <4> QED BY <1>1, <4>1 DEF Chain
    <3>2. f2[0] = <<>> BY <1>1 DEF Chain
    <3> HIDE DEF f2, g2
    <3> QED BY <3>1, <3>2 DEF Chain
  <2>3. f2[k] = f[k] OBVIOUS
  <2> HIDE DEF f2
  <2>4. FlattenSeq(g2) = f2[k]
    <3> HIDE DEF g2
    <3> QED BY <2>1, <2>2, FlattenIs
  <2>5. First(g, k) = f[k] BY <2>3, <2>4 DEF First
  <2>6. f[k] \in Seq(S) OBVIOUS
  <2> QED BY <2>5, <2>6
<1>3. 0 \in 0 .. n OBVIOUS
<1>4. ASSUME NEW k \in 0 .. n - 1 PROVE First(g, k + 1) = First(g, k) \o g[k + 1]
  <2>1. k \in 0 .. n /\ k + 1 \in 0 .. n /\ k + 1 \in 1 .. n /\ (k + 1) - 1 = k OBVIOUS
  <2>2. f[k + 1] = f[k] \o g[k + 1] BY <1>1, <2>1 DEF Chain
  <2>3. First(g, k) = f[k] BY <1>2, <2>1
  <2>4. First(g, k + 1) = f[k + 1] BY <1>2, <2>1
  <2> QED BY <2>2, <2>3, <2>4
<1>5. First(g, 0) = <<>> BY <1>1, <1>2, <1>3 DEF Chain
<1> QED BY <1>2, <1>4, <1>5

(* A sequence is found in the whole where the ones before it end. *)
FoundIn(w, b, p) == b + Len(p) <= Len(w) /\ \A j \in 1 .. Len(p) : w[b + j] = p[j]
LEMMA FirstHolds ==
  ASSUME NEW S, NEW n \in Nat, NEW g \in [1 .. n -> Seq(S)], NEW k \in 0 .. n - 1
  PROVE  FoundIn(First(g, n), Len(First(g, k)), g[k + 1])
<1> DEFINE b == Len(First(g, k))
           p == g[k + 1]
           T == {d \in Nat : k + 1 + d <= n =>
                  /\ b + Len(p) <= Len(First(g, k + 1 + d))
                  /\ \A j \in 1 .. Len(p) : First(g, k + 1 + d)[b + j] = p[j]}
<1>1. k \in 0 .. n /\ k + 1 \in 1 .. n /\ k + 1 \in 0 .. n OBVIOUS
<1>2. /\ \A m \in 0 .. n : First(g, m) \in Seq(S)
      /\ \A m \in 0 .. n - 1 : First(g, m + 1) = First(g, m) \o g[m + 1]
  BY FirstNext
<1>3. First(g, k) \in Seq(S) /\ p \in Seq(S) /\ First(g, k + 1) = First(g, k) \o p BY <1>1, <1>2
<1>4. b \in Nat /\ Len(p) \in Nat BY <1>3
<1> HIDE DEF p
<1>5. 0 \in T
  <2>1. /\ Len(First(g, k + 1)) = b + Len(p)
        /\ \A j \in 1 .. Len(p) : First(g, k + 1)[b + j] = p[j]
    BY <1>3, Behindhand DEF Appended
  <2> HIDE DEF b
  <2>2. k + 1 + 0 = k + 1 OBVIOUS
  <2> QED BY <1>4, <2>1, <2>2
<1> HIDE DEF b
<1>6. ASSUME NEW d \in T PROVE d + 1 \in T
  <2> SUFFICES ASSUME k + 1 + (d + 1) <= n
               PROVE  /\ b + Len(p) <= Len(First(g, k + 1 + (d + 1)))
                      /\ \A j \in 1 .. Len(p) : First(g, k + 1 + (d + 1))[b + j] = p[j]
    OBVIOUS
  <2> DEFINE m == k + 1 + d
  <2>1. d \in Nat /\ m <= n /\ m \in 0 .. n - 1 /\ m + 1 \in 1 .. n /\ m + 1 = k + 1 + (d + 1) /\ m \in 0 .. n OBVIOUS
  <2>2. b + Len(p) <= Len(First(g, m)) /\ \A j \in 1 .. Len(p) : First(g, m)[b + j] = p[j] BY <1>6, <2>1
  <2> HIDE DEF m
  <2>3. First(g, m) \in Seq(S) /\ g[m + 1] \in Seq(S) /\ First(g, m + 1) = First(g, m) \o g[m + 1] BY <1>2, <2>1
  <2>4. /\ Len(First(g, m + 1)) = Len(First(g, m)) + Len(g[m + 1])
        /\ \A i \in 1 .. Len(First(g, m)) : First(g, m + 1)[i] = First(g, m)[i]
    BY <2>3, Behindhand DEF Appended
  <2>5. Len(First(g, m)) \in Nat /\ Len(g[m + 1]) \in Nat BY <2>3
  <2>6. b + Len(p) <= Len(First(g, m + 1)) BY <1>4, <2>2, <2>4, <2>5
  <2>7. ASSUME NEW j \in 1 .. Len(p) PROVE First(g, m + 1)[b + j] = p[j]
    <3>1. b + j \in 1 .. Len(First(g, m)) BY <1>4, <2>2, <2>5
    <3> QED BY <2>2, <2>4, <3>1
  <2> QED BY <2>1, <2>6, <2>7
<1>7. T \subseteq Nat OBVIOUS
<1> HIDE DEF T
<1>8. T = Nat BY <1>5, <1>6, <1>7, Inductive
<1>9. n - (k + 1) \in T /\ k + 1 + (n - (k + 1)) = n BY <1>8
<1>10. b + Len(p) <= Len(First(g, n)) /\ \A j \in 1 .. Len(p) : First(g, n)[b + j] = p[j]
  <2> DEFINE d == n - (k + 1)
  <2>1. d \in T /\ k + 1 + d = n BY <1>9
  <2> HIDE DEF d
  <2> QED BY <2>1 DEF T
<1> QED BY <1>10 DEF b, p, FoundIn

(* Digits and what they count. *)
LEMMA DigitsAre ==
  /\ \A d \in 0 .. 9 : Digits[d + 1] \in Chars /\ IsDigit(Digits[d + 1])
  /\ \A d, e \in 0 .. 9 : Digits[d + 1] = Digits[e + 1] => d = e
  /\ \A d \in 0 .. 9 : Digits[d + 1] = "0" <=> d = 0
<1>1. \A i \in 1 .. 10 : Digits[i] \in Chars
  <2>1. {"0", "1", "2", "3", "4", "5", "6", "7", "8", "9"} \subseteq Chars BY CharsAssumption
  <2> QED BY <2>1 DEF Digits
<1>2. \A i \in 1 .. 10 : IsDigit(Digits[i]) BY DEF IsDigit
<1>3. \A i, j \in 1 .. 10 : Digits[i] = Digits[j] => i = j BY SMTT(30) DEF Digits
<1>4. Digits[1] = "0" BY DEF Digits
<1>5. \A d \in 0 .. 9 : d + 1 \in 1 .. 10 OBVIOUS
<1>6. ASSUME NEW d \in 0 .. 9, NEW e \in 0 .. 9, Digits[d + 1] = Digits[e + 1] PROVE d = e
  <2>1. d + 1 = e + 1 BY <1>3, <1>5, <1>6
  <2> QED BY <2>1
<1>7. ASSUME NEW d \in 0 .. 9 PROVE Digits[d + 1] = "0" <=> d = 0
  <2>1. 0 \in 0 .. 9 /\ 0 + 1 = 1 OBVIOUS
  <2> QED BY <1>4, <1>6, <2>1
<1> QED BY <1>1, <1>2, <1>5, <1>6, <1>7

LEMMA ValueOfDigit == ASSUME NEW d \in 0 .. 9 PROVE DigitValue(Digits[d + 1]) = d
<1>1. \E e \in 0 .. 9 : Digits[e + 1] = Digits[d + 1] OBVIOUS
<1> DEFINE v == DigitValue(Digits[d + 1])
<1>2. v \in 0 .. 9 /\ Digits[v + 1] = Digits[d + 1] BY <1>1 DEF DigitValue
<1> HIDE DEF v
<1>3. v = d BY <1>2, DigitsAre
<1> QED BY <1>3 DEF v

(* The numerals of a number that a format may hold. *)
LEMMA NumeralsAre ==
  ASSUME NEW n \in 0 .. 99
  PROVE  /\ Numerals(n) \in Seq(Chars) /\ Len(Numerals(n)) \in {1, 2}
         /\ \A i \in 1 .. Len(Numerals(n)) : IsDigit(Numerals(n)[i])
         /\ n # 0 => Numerals(n)[1] # "0"
         /\ Len(Numerals(n)) = 1 => n = DigitValue(Numerals(n)[1])
         /\ Len(Numerals(n)) = 2 => n = 10 * DigitValue(Numerals(n)[1]) + DigitValue(Numerals(n)[2])
<1>1. CASE n < 10
  <2> DEFINE a == Digits[n + 1]
  <2>1. n \in 0 .. 9 BY <1>1
  <2>2. a \in Chars /\ IsDigit(a) /\ (n # 0 => a # "0") /\ DigitValue(a) = n BY <2>1, DigitsAre, ValueOfDigit
  <2>3. Numerals(n) = <<a>> BY <1>1 DEF Numerals
  <2> HIDE DEF a
  <2> QED BY <2>2, <2>3
<1>2. CASE ~(n < 10)
  <2> DEFINE q == n \div 10
             r == n % 10
             a == Digits[q + 1]
             b == Digits[r + 1]
  <2>1. q \in 0 .. 9 /\ r \in 0 .. 9 /\ q # 0 /\ n = 10 * q + r BY <1>2
  <2>2. Numerals(n) = <<a, b>> BY <1>2 DEF Numerals
  <2> HIDE DEF q, r
  <2>3. a \in Chars /\ IsDigit(a) /\ a # "0" /\ DigitValue(a) = q BY <2>1, DigitsAre, ValueOfDigit
  <2>4. b \in Chars /\ IsDigit(b) /\ DigitValue(b) = r BY <2>1, DigitsAre, ValueOfDigit
  <2> HIDE DEF a, b
  <2> DEFINE s == <<a, b>>
  <2>5. s \in Seq(Chars) /\ Len(s) = 2 /\ s[1] = a /\ s[2] = b BY <2>3, <2>4
  <2>6. Numerals(n) = s BY <2>2
  <2> HIDE DEF s
  <2>7. \A i \in 1 .. 2 : IsDigit(s[i]) BY <2>3, <2>4, <2>5
  <2> QED BY <2>1, <2>3, <2>4, <2>5, <2>6, <2>7
<1> QED BY <1>1, <1>2

(* The flags of a specifier, in its text. *)
FlagSet == {"#", "0", "-", Space, "+"}
LEMMA FlagTextIs ==
  ASSUME NEW f, f \subseteq FlagSet
  PROVE  FlagText(f) \in Seq(f) /\ \A c \in f : \E j \in 1 .. Len(FlagText(f)) : FlagText(f)[j] = c
<1> DEFINE n == 5
           g == [i \in 1 .. n |-> IF FlagOrder[i] \in f THEN <<FlagOrder[i]>> ELSE <<>>]
<1>1. n \in Nat /\ n = 5 OBVIOUS
<1>2. ASSUME NEW i \in 1 .. n PROVE g[i] \in Seq(f)
  <2> DEFINE x == FlagOrder[i]
  <2>1. g[i] = IF x \in f THEN <<x>> ELSE <<>> OBVIOUS
  <2> HIDE DEF x
  <2>2. CASE x \in f
    <3>1. <<x>> \in Seq(f) BY <2>2
    <3> QED BY <2>1, <2>2, <3>1, Zenon
  <2>3. CASE x \notin f
    <3>1. <<>> \in Seq(f) OBVIOUS
    <3> QED BY <2>1, <2>3, <3>1, Zenon
  <2> QED BY <2>2, <2>3, Zenon
<1>3. g \in [1 .. n -> Seq(f)] BY <1>2
<1>4. FlagText(f) = First(g, n) BY DEF FlagText, First
<1>5. First(g, n) \in Seq(f)
  <2>1. n \in 0 .. n BY <1>1
  <2> HIDE DEF g, n
  <2>2. \A k \in 0 .. n : First(g, k) \in Seq(f) BY <1>1, <1>3, FirstNext, Zenon
  <2> QED BY <2>1, <2>2
<1>6. ASSUME NEW c \in f PROVE \E j \in 1 .. Len(First(g, n)) : First(g, n)[j] = c
  <2>1. \E i \in 1 .. 5 : FlagOrder[i] = c
    <3>1. c \in {"#", "0", "-", Space, "+"} BY DEF FlagSet
    <3>2. /\ FlagOrder[1] = "#" /\ FlagOrder[2] = "0" /\ FlagOrder[3] = "-" /\ FlagOrder[4] = Space
          /\ FlagOrder[5] = "+"
      BY DEF FlagOrder
    <3> QED BY <3>1, <3>2
  <2>2. PICK i \in 1 .. n : FlagOrder[i] = c BY <2>1
  <2>3. g[i] = <<c>> BY <2>2
  <2> HIDE DEF g, n
  <2> DEFINE k == i - 1
             b == Len(First(g, k))
  <2>4. k \in 0 .. n - 1 /\ k \in 0 .. n /\ k + 1 = i BY <1>1
  <2> HIDE DEF k
  <2>11. \A m \in 0 .. n : First(g, m) \in Seq(f) BY <1>1, <1>3, FirstNext, Zenon
  <2>5. First(g, k) \in Seq(f) BY <2>4, <2>11
  <2>6. b \in Nat BY <2>5
  <2>12. FoundIn(First(g, n), Len(First(g, k)), g[k + 1]) BY <1>1, <1>3, <2>4, FirstHolds, Zenon
  <2>7. b + Len(g[i]) <= Len(First(g, n)) /\ \A j \in 1 .. Len(g[i]) : First(g, n)[b + j] = g[i][j]
    BY <2>4, <2>12 DEF FoundIn
  <2> HIDE DEF b
  <2>8. Len(g[i]) = 1 /\ g[i][1] = c BY <2>3
  <2>9. b + 1 <= Len(First(g, n)) /\ First(g, n)[b + 1] = c BY <2>7, <2>8
  <2>10. b + 1 \in 1 .. Len(First(g, n)) BY <1>5, <2>6, <2>9
  <2> QED BY <2>9, <2>10
<1> QED BY <1>4, <1>5, <1>6

(* The characters of a specifier, one part behind the other. *)
Parts5(w, x, a, b, c, d, y) ==
  /\ Len(w) = 2 + Len(a) + Len(b) + Len(c) + Len(d)
  /\ w[1] = x
  /\ \A i \in 1 .. Len(a) : w[1 + i] = a[i]
  /\ \A i \in 1 .. Len(b) : w[1 + Len(a) + i] = b[i]
  /\ \A i \in 1 .. Len(c) : w[1 + Len(a) + Len(b) + i] = c[i]
  /\ \A i \in 1 .. Len(d) : w[1 + Len(a) + Len(b) + Len(c) + i] = d[i]
  /\ w[2 + Len(a) + Len(b) + Len(c) + Len(d)] = y

Joining(S, w, x, a, b, c, d, y) ==
  /\ a \in Seq(S) /\ b \in Seq(S) /\ c \in Seq(S) /\ d \in Seq(S) /\ x \in S /\ y \in S
  /\ w = <<x>> \o a \o b \o c \o d \o <<y>>

LEMMA PartsJoined ==
  ASSUME NEW S, NEW w, NEW x, NEW a, NEW b, NEW c, NEW d, NEW y, Joining(S, w, x, a, b, c, d, y)
  PROVE  w \in Seq(S) /\ Parts5(w, x, a, b, c, d, y)
<1> USE DEF Joining
<1> DEFINE s0 == <<x>>
           s1 == s0 \o a
           s2 == s1 \o b
           s3 == s2 \o c
           s4 == s3 \o d
           t == <<y>>
           s5 == s4 \o t
<1>1. s0 \in Seq(S) /\ Len(s0) = 1 /\ s0[1] = x /\ t \in Seq(S) /\ Len(t) = 1 /\ t[1] = y OBVIOUS
<1>w. w = s5 OBVIOUS
<1> HIDE DEF s0, t
<1>2. /\ s1 \in Seq(S) /\ Len(s1) = Len(s0) + Len(a) /\ \A i \in 1 .. Len(s0) : s1[i] = s0[i]
      /\ \A i \in 1 .. Len(a) : s1[Len(s0) + i] = a[i]
  <2>1. s1 = s0 \o a OBVIOUS
  <2> HIDE DEF s1
  <2>2. s1 \in Seq(S) /\ Appended(s1, s0, a) BY <1>1, <2>1, Behindhand
  <2> QED BY <2>2 DEF Appended
<1> HIDE DEF s1
<1>3. /\ s2 \in Seq(S) /\ Len(s2) = Len(s1) + Len(b) /\ \A i \in 1 .. Len(s1) : s2[i] = s1[i]
      /\ \A i \in 1 .. Len(b) : s2[Len(s1) + i] = b[i]
  <2>1. s2 = s1 \o b OBVIOUS
  <2> HIDE DEF s2
  <2>2. s2 \in Seq(S) /\ Appended(s2, s1, b) BY <1>2, <2>1, Behindhand
  <2> QED BY <2>2 DEF Appended
<1> HIDE DEF s2
<1>4. /\ s3 \in Seq(S) /\ Len(s3) = Len(s2) + Len(c) /\ \A i \in 1 .. Len(s2) : s3[i] = s2[i]
      /\ \A i \in 1 .. Len(c) : s3[Len(s2) + i] = c[i]
  <2>1. s3 = s2 \o c OBVIOUS
  <2> HIDE DEF s3
  <2>2. s3 \in Seq(S) /\ Appended(s3, s2, c) BY <1>3, <2>1, Behindhand
  <2> QED BY <2>2 DEF Appended
<1> HIDE DEF s3
<1>5. /\ s4 \in Seq(S) /\ Len(s4) = Len(s3) + Len(d) /\ \A i \in 1 .. Len(s3) : s4[i] = s3[i]
      /\ \A i \in 1 .. Len(d) : s4[Len(s3) + i] = d[i]
  <2>1. s4 = s3 \o d OBVIOUS
  <2> HIDE DEF s4
  <2>2. s4 \in Seq(S) /\ Appended(s4, s3, d) BY <1>4, <2>1, Behindhand
  <2> QED BY <2>2 DEF Appended
<1> HIDE DEF s4
<1>6. /\ s5 \in Seq(S) /\ Len(s5) = Len(s4) + Len(t) /\ \A i \in 1 .. Len(s4) : s5[i] = s4[i]
      /\ \A i \in 1 .. Len(t) : s5[Len(s4) + i] = t[i]
  <2>1. s5 = s4 \o t OBVIOUS
  <2> HIDE DEF s5
  <2>2. s5 \in Seq(S) /\ Appended(s5, s4, t) BY <1>1, <1>5, <2>1, Behindhand
  <2> QED BY <2>2 DEF Appended
<1> HIDE DEF s5
<1>7. Len(a) \in Nat /\ Len(b) \in Nat /\ Len(c) \in Nat /\ Len(d) \in Nat OBVIOUS
<1> DEFINE la == Len(a)
           lb == Len(b)
           lc == Len(c)
           ld == Len(d)
<1>8. la \in Nat /\ lb \in Nat /\ lc \in Nat /\ ld \in Nat BY <1>7
<1>9. /\ Len(s1) = 1 + la /\ Len(s2) = 1 + la + lb /\ Len(s3) = 1 + la + lb + lc
      /\ Len(s4) = 1 + la + lb + lc + ld /\ Len(s5) = 2 + la + lb + lc + ld
  BY <1>1, <1>2, <1>3, <1>4, <1>5, <1>6, <1>7
<1> HIDE DEF la, lb, lc, ld
<1>12. ASSUME NEW i \in 1 .. 1 + la + lb + lc PROVE s5[i] = s3[i]
  <2>1. i \in 1 .. Len(s3) /\ i \in 1 .. Len(s4) BY <1>8, <1>9
  <2> QED BY <1>5, <1>6, <2>1
<1>11. ASSUME NEW i \in 1 .. 1 + la + lb PROVE s5[i] = s2[i]
  <2>1. i \in 1 .. Len(s2) /\ i \in 1 .. 1 + la + lb + lc BY <1>8, <1>9
  <2> QED BY <1>4, <1>12, <2>1
<1>10. ASSUME NEW i \in 1 .. 1 + la PROVE s5[i] = s1[i]
  <2>1. i \in 1 .. Len(s1) /\ i \in 1 .. 1 + la + lb BY <1>8, <1>9
  <2> QED BY <1>3, <1>11, <2>1
<1>13. s5[1] = x
  <2>1. 1 \in 1 .. 1 + la /\ 1 \in 1 .. Len(s0) BY <1>1, <1>8
  <2>2. s1[1] = x BY <1>1, <1>2, <2>1
  <2> QED BY <1>10, <2>1, <2>2
<1>14. ASSUME NEW i \in 1 .. la PROVE s5[1 + i] = a[i]
  <2>1. 1 + i \in 1 .. 1 + la BY <1>8
  <2> QED BY <1>1, <1>2, <1>10, <2>1 DEF la
<1>15. ASSUME NEW i \in 1 .. lb PROVE s5[1 + la + i] = b[i]
  <2>1. 1 + la + i \in 1 .. 1 + la + lb BY <1>8
  <2>2. s2[1 + la + i] = b[i] BY <1>3, <1>9 DEF lb
  <2> QED BY <1>11, <2>1, <2>2
<1>16. ASSUME NEW i \in 1 .. lc PROVE s5[1 + la + lb + i] = c[i]
  <2>1. 1 + la + lb + i \in 1 .. 1 + la + lb + lc BY <1>8
  <2>2. s3[1 + la + lb + i] = c[i] BY <1>4, <1>9 DEF lc
  <2> QED BY <1>12, <2>1, <2>2
<1>17. ASSUME NEW i \in 1 .. ld PROVE s5[1 + la + lb + lc + i] = d[i]
  <2>1. 1 + la + lb + lc + i \in 1 .. 1 + la + lb + lc + ld BY <1>8
  <2>2. s4[1 + la + lb + lc + i] = d[i] BY <1>5, <1>9 DEF ld
  <2> QED BY <1>6, <1>9, <2>1, <2>2
<1>18. s5[2 + la + lb + lc + ld] = y
  <2>1. 2 + la + lb + lc + ld = Len(s4) + 1 /\ 1 \in 1 .. Len(t) BY <1>1, <1>8, <1>9
  <2> QED BY <1>1, <1>6, <2>1
<1> USE DEF la, lb, lc, ld
<1>19. Len(w) = 2 + Len(a) + Len(b) + Len(c) + Len(d) /\ w[1] = x
  BY <1>w, <1>9, <1>13
<1>20. \A i \in 1 .. Len(a) : w[1 + i] = a[i] BY <1>w, <1>14
<1>21. \A i \in 1 .. Len(b) : w[1 + Len(a) + i] = b[i] BY <1>w, <1>15
<1>22. \A i \in 1 .. Len(c) : w[1 + Len(a) + Len(b) + i] = c[i] BY <1>w, <1>16
<1>23. \A i \in 1 .. Len(d) : w[1 + Len(a) + Len(b) + Len(c) + i] = d[i] BY <1>w, <1>17
<1>24. w[2 + Len(a) + Len(b) + Len(c) + Len(d)] = y BY <1>w, <1>18
<1> QED BY <1>w, <1>6, <1>19, <1>20, <1>21, <1>22, <1>23, <1>24, Zenon DEF Parts5

LEMMA NumberTextIs ==
  ASSUME NEW n, NEW star \in BOOLEAN, n # None /\ ~star => n \in 0 .. 99
  PROVE  /\ NumberText(n, star) \in Seq(Chars)
         /\ n = None => NumberText(n, star) = <<>>
         /\ n # None /\ star => NumberText(n, star) = <<"*">>
         /\ n # None /\ ~star => NumberText(n, star) = Numerals(n)
<1>1. CASE n = None
  <2>1. NumberText(n, star) = <<>> BY <1>1 DEF NumberText
  <2> QED BY <1>1, <2>1
<1>2. CASE n # None /\ star
  <2>1. NumberText(n, star) = <<"*">> BY <1>2 DEF NumberText
  <2>2. "*" \in Chars BY CharsAssumption
  <2>3. <<"*">> \in Seq(Chars) BY <2>2
  <2> QED BY <1>2, <2>1, <2>3
<1>3. CASE n # None /\ ~star
  <2>1. NumberText(n, star) = Numerals(n) BY <1>3 DEF NumberText
  <2> QED BY <1>3, <2>1, NumeralsAre
<1> QED BY <1>1, <1>2, <1>3


(* A precision, behind its point. *)
PrecisionRest(p) == IF p.precision = 0 /\ ~p.star THEN <<>> ELSE NumberText(p.precision, p.star)
LEMMA PrecisionTextIs ==
  ASSUME NEW p, Asked(p)
  PROVE  /\ PrecisionText(p) \in Seq(Chars) /\ PrecisionRest(p) \in Seq(Chars)
         /\ p.precision = None => PrecisionText(p) = <<>>
         /\ p.precision # None => /\ Len(PrecisionText(p)) = 1 + Len(PrecisionRest(p))
                                  /\ PrecisionText(p)[1] = "."
                                  /\ \A i \in 1 .. Len(PrecisionRest(p)) : PrecisionText(p)[1 + i] = PrecisionRest(p)[i]
<1>1. p.precision # None /\ ~p.star => p.precision \in 0 .. 99 BY DEF Asked
<1>2. p.star \in BOOLEAN BY DEF Asked
<1>3. NumberText(p.precision, p.star) \in Seq(Chars) BY <1>1, <1>2, NumberTextIs
<1>4. PrecisionRest(p) \in Seq(Chars) BY <1>3 DEF PrecisionRest
<1> DEFINE dot == <<".">>
<1>5. dot \in Seq(Chars) /\ Len(dot) = 1 /\ dot[1] = "."
  <2>1. "." \in Chars BY CharsAssumption
  <2> QED BY <2>1
<1>6. CASE p.precision = None
  <2>1. PrecisionText(p) = <<>> BY <1>6 DEF PrecisionText
  <2> QED BY <1>4, <1>6, <2>1
<1>7. CASE p.precision # None
  <2>1. PrecisionText(p) = dot \o PrecisionRest(p) BY <1>7 DEF PrecisionText, PrecisionRest
  <2> HIDE DEF dot
  <2> DEFINE s == PrecisionRest(p)
             u == dot \o s
  <2>3. PrecisionText(p) = u /\ s \in Seq(Chars) /\ s = PrecisionRest(p) BY <1>4, <2>1
  <2> HIDE DEF s
  <2>5. u \in Seq(Chars) /\ Appended(u, dot, s) BY <1>5, <2>3, Behindhand
  <2> HIDE DEF u
  <2>2. /\ u \in Seq(Chars) /\ Len(u) = Len(dot) + Len(s)
        /\ \A i \in 1 .. Len(dot) : u[i] = dot[i]
        /\ \A i \in 1 .. Len(s) : u[Len(dot) + i] = s[i]
    BY <2>5 DEF Appended
  <2>4. u[1] = "." BY <1>5, <2>2
  <2> QED BY <1>4, <1>5, <1>7, <2>2, <2>3, <2>4
<1> QED BY <1>6, <1>7

(* A specifier's text is made of its parts, and a format of its pieces. *)
Convs == {"d", "i", "u", "x", "X", "o", "b", "c", "s", "p", "%", "n"}
Lengths == {<<>>, <<"l">>, <<"h">>, <<"h", "h">>}

LEMMA AdmittedIs ==
  ASSUME NEW p, Admitted(p), p.conv # "plain"
  PROVE  Asked(p) /\ p.conv \in Convs /\ p.length \in Lengths /\ p.conv \in Chars /\ p.length \in Seq(Chars)
<1>1. DOMAIN Bases = {"d", "i", "u", "x", "X", "o", "b"} BY DEF Bases
<1>2. p.conv \in Convs BY <1>1 DEF Admitted, Convs
<1>3. Asked(p)
  <2>1. Bare(p) /\ p.star \in BOOLEAN => Asked(p) BY DEF Bare, Asked
  <2> QED BY <2>1 DEF Admitted
<1>4. p.length \in Lengths BY DEF Admitted, Lengths, Bare
<1>5. Convs \subseteq Chars BY CharsAssumption DEF Convs
<1>6. p.length \in Seq(Chars)
  <2>1. "l" \in Chars /\ "h" \in Chars BY CharsAssumption
  <2>2. <<>> \in Seq(Chars) /\ <<"l">> \in Seq(Chars) /\ <<"h">> \in Seq(Chars) /\ <<"h", "h">> \in Seq(Chars)
    BY <2>1
  <2> QED BY <1>4, <2>2 DEF Lengths
<1> QED BY <1>2, <1>3, <1>4, <1>5, <1>6

SpecParts(p) ==
  Parts5(PieceText(p), "%", FlagText(p.flags), NumberText(p.width, p.star), PrecisionText(p), p.length, p.conv)

LEMMA SpecTextIs ==
  ASSUME NEW p, Admitted(p), p.conv # "plain"
  PROVE  /\ PieceText(p) \in Seq(Chars) /\ SpecParts(p)
         /\ FlagText(p.flags) \in Seq(Chars) /\ NumberText(p.width, p.star) \in Seq(Chars)
         /\ PrecisionText(p) \in Seq(Chars)
<1>1. Asked(p) /\ p.conv \in Chars /\ p.length \in Seq(Chars) BY AdmittedIs
<1>2. FlagText(p.flags) \in Seq(Chars)
  <2>1. p.flags \subseteq FlagSet BY <1>1 DEF Asked, FlagSet
  <2>2. FlagText(p.flags) \in Seq(p.flags) BY <2>1, FlagTextIs
  <2>3. FlagSet \subseteq Chars BY CharsAssumption DEF FlagSet
  <2>4. p.flags \subseteq Chars BY <2>1, <2>3
  <2> QED BY <2>2, <2>4, SeqMonotonic
<1>3. NumberText(p.width, p.star) \in Seq(Chars)
  <2>1. p.width # None /\ ~p.star => p.width \in 0 .. 99 BY <1>1 DEF Asked
  <2>2. p.star \in BOOLEAN BY <1>1 DEF Asked
  <2> QED BY <2>1, <2>2, NumberTextIs
<1>4. PrecisionText(p) \in Seq(Chars) BY <1>1, PrecisionTextIs
<1>5. "%" \in Chars BY CharsAssumption
<1> DEFINE a == FlagText(p.flags)
           b == NumberText(p.width, p.star)
           c == PrecisionText(p)
           d == p.length
           y == p.conv
           w == PieceText(p)
<1>6. w = <<"%">> \o a \o b \o c \o d \o <<y>> BY DEF PieceText
<1>7. a \in Seq(Chars) /\ b \in Seq(Chars) /\ c \in Seq(Chars) /\ d \in Seq(Chars) /\ y \in Chars
  BY <1>1, <1>2, <1>3, <1>4
<1>8. w \in Seq(Chars) /\ Parts5(w, "%", a, b, c, d, y)
  <2> DEFINE x == "%"
  <2>1. x \in Chars /\ w = <<x>> \o a \o b \o c \o d \o <<y>> BY <1>5, <1>6
  <2> HIDE DEF a, b, c, d, y, w, x
  <2>2. Joining(Chars, w, x, a, b, c, d, y) BY <1>7, <2>1 DEF Joining
  <2>3. w \in Seq(Chars) /\ Parts5(w, x, a, b, c, d, y) BY <2>2, PartsJoined
  <2> QED BY <2>3 DEF x
<1> QED BY <1>2, <1>3, <1>4, <1>8 DEF SpecParts

LEMMA PlainTextIs ==
  ASSUME NEW p, Admitted(p), p.conv = "plain"
  PROVE  PieceText(p) = <<p.char>> /\ p.char \in Chars /\ p.char # "%"
<1>1. p.char \in Chars \ {"%"}
  <2>1. DOMAIN Bases = {"d", "i", "u", "x", "X", "o", "b"} BY DEF Bases
  <2> QED BY <2>1 DEF Admitted
<1> QED BY <1>1 DEF PieceText

LEMMA PieceTextType ==
  ASSUME NEW p, Admitted(p)
  PROVE  PieceText(p) \in Seq(Chars) /\ Len(PieceText(p)) >= 1
<1>1. CASE p.conv = "plain"
  <2>1. PieceText(p) = <<p.char>> /\ p.char \in Chars BY <1>1, PlainTextIs
  <2> QED BY <2>1
<1>2. CASE p.conv # "plain"
  <2>1. /\ PieceText(p) \in Seq(Chars) /\ SpecParts(p)
        /\ FlagText(p.flags) \in Seq(Chars) /\ NumberText(p.width, p.star) \in Seq(Chars)
        /\ PrecisionText(p) \in Seq(Chars) /\ p.length \in Seq(Chars)
    BY <1>2, SpecTextIs, AdmittedIs
  <2> DEFINE la == Len(FlagText(p.flags))
             lb == Len(NumberText(p.width, p.star))
             lc == Len(PrecisionText(p))
             ld == Len(p.length)
  <2>2. la \in Nat /\ lb \in Nat /\ lc \in Nat /\ ld \in Nat BY <2>1
  <2>3. Len(PieceText(p)) = 2 + la + lb + lc + ld BY <2>1 DEF SpecParts, Parts5
  <2> HIDE DEF la, lb, lc, ld
  <2> QED BY <2>1, <2>2, <2>3
<1> QED BY <1>1, <1>2

PieceTexts(c) == [i \in 1 .. Len(c.pieces) |-> PieceText(c.pieces[i])]
PieceCount(c) == Len(c.pieces)

LEMMA PiecesAre ==
  ASSUME NEW c, WellFormed(c)
  PROVE  /\ PieceCount(c) \in Nat /\ DOMAIN c.pieces = 1 .. PieceCount(c)
         /\ \A i \in 1 .. PieceCount(c) : Admitted(c.pieces[i])
<1>1. DOMAIN c.pieces = 1 .. Len(c.pieces) /\ Len(c.pieces) \in Nat BY DEF WellFormed
<1> QED BY <1>1 DEF PieceCount, WellFormed

(* The memory that printf is given: the format, a NUL, and others. *)
MemoryOf(c) == FormatOf(c) \o <<NUL>> \o Behind
Alphabet == Chars \cup {NUL}

LEMMA PieceTextsType == ASSUME NEW c, WellFormed(c) PROVE PieceTexts(c) \in [1 .. PieceCount(c) -> Seq(Chars)]
<1>1. \A i \in 1 .. PieceCount(c) : PieceText(c.pieces[i]) \in Seq(Chars) BY PiecesAre, PieceTextType
<1> QED BY <1>1 DEF PieceTexts, PieceCount

LEMMA FormatIs ==
  ASSUME NEW c, WellFormed(c)
  PROVE  /\ First(PieceTexts(c), PieceCount(c)) \in Seq(Chars)
         /\ FormatOf(c) = First(PieceTexts(c), PieceCount(c)) \o c.tail
         /\ FormatOf(c) \in Seq(Chars)
<1>1. PieceCount(c) \in Nat /\ DOMAIN c.pieces = 1 .. PieceCount(c) BY PiecesAre
<1>2. PieceTexts(c) \in [1 .. PieceCount(c) -> Seq(Chars)] BY PieceTextsType
<1> DEFINE n == PieceCount(c)
           g == PieceTexts(c)
<1>3. n \in Nat /\ n \in 0 .. n /\ g \in [1 .. n -> Seq(Chars)] BY <1>1, <1>2
<1>4. First(g, n) \in Seq(Chars)
  <2> HIDE DEF n, g
  <2>1. \A k \in 0 .. n : First(g, k) \in Seq(Chars) BY <1>3, FirstNext, Zenon
  <2> QED BY <1>3, <2>1
<1>5. Joined(PieceText, c.pieces) = First(g, n)
  <2>1. [i \in DOMAIN c.pieces |-> PieceText(c.pieces[i])] = [i \in 1 .. n |-> g[i]]
    BY <1>1 DEF PieceTexts, PieceCount
  <2> QED BY <2>1 DEF Joined, First
<1>6. c.tail \in Seq(Chars) BY DEF WellFormed
<1>7. FormatOf(c) = First(g, n) \o c.tail BY <1>5 DEF FormatOf
<1>8. First(g, n) \o c.tail \in Seq(Chars)
  <2> HIDE DEF g, n
  <2> QED BY <1>4, <1>6, Behindhand
<1> QED BY <1>4, <1>7, <1>8

LEMMA MemoryIs ==
  ASSUME NEW c, WellFormed(c)
  PROVE  /\ MemoryOf(c) \in Seq(Alphabet) /\ Len(FormatOf(c)) \in Nat
         /\ Len(MemoryOf(c)) = Len(FormatOf(c)) + 4
         /\ \A i \in 1 .. Len(FormatOf(c)) : MemoryOf(c)[i] = FormatOf(c)[i] /\ MemoryOf(c)[i] \in Chars
         /\ MemoryOf(c)[Len(FormatOf(c)) + 1] = NUL
<1> DEFINE f == FormatOf(c)
           z == <<NUL>>
           b == Behind
           u == f \o z
           w == u \o b
<1>1. f \in Seq(Chars) BY FormatIs
<1>2. Chars \subseteq Alphabet /\ NUL \in Alphabet /\ "%" \in Alphabet /\ "d" \in Alphabet
  BY CharsAssumption DEF Alphabet
<1>3. f \in Seq(Alphabet) BY <1>1, <1>2, SeqMonotonic
<1>4. z \in Seq(Alphabet) /\ Len(z) = 1 /\ z[1] = NUL BY <1>2
<1>5. b \in Seq(Alphabet) /\ Len(b) = 3 BY <1>2 DEF Behind
<1>6. MemoryOf(c) = w BY DEF MemoryOf
<1> HIDE DEF f, z, b
<1>7. u \in Seq(Alphabet) /\ Appended(u, f, z) BY <1>3, <1>4, Behindhand
<1> HIDE DEF u
<1>8. w \in Seq(Alphabet) /\ Appended(w, u, b) BY <1>5, <1>7, Behindhand
<1> HIDE DEF w
<1>9. Len(f) \in Nat /\ Len(u) = Len(f) + 1 /\ Len(w) = Len(f) + 4
  BY <1>1, <1>4, <1>5, <1>7, <1>8 DEF Appended
<1>10. ASSUME NEW i \in 1 .. Len(f) PROVE w[i] = f[i] /\ f[i] \in Chars
  <2>1. i \in 1 .. Len(u) BY <1>9
  <2>2. w[i] = u[i] BY <1>8, <2>1 DEF Appended
  <2>3. u[i] = f[i] BY <1>7 DEF Appended
  <2> QED BY <1>1, <2>2, <2>3
<1>11. w[Len(f) + 1] = NUL
  <2>1. Len(f) + 1 \in 1 .. Len(u) /\ 1 \in 1 .. Len(z) BY <1>4, <1>9
  <2>2. w[Len(f) + 1] = u[Len(f) + 1] BY <1>8, <2>1 DEF Appended
  <2>3. u[Len(f) + 1] = z[1] BY <1>7, <2>1 DEF Appended
  <2> QED BY <1>4, <2>2, <2>3
<1> QED BY <1>6, <1>8, <1>9, <1>10, <1>11 DEF f

(* Where a format ends. *)
Ended(f) == f \in Seq(Alphabet) /\ \E i \in DOMAIN f : f[i] = NUL
LEMMA EndIs ==
  ASSUME NEW f, Ended(f)
  PROVE  /\ EndOf(f) \in 1 .. Len(f) /\ f[EndOf(f)] = NUL /\ Len(f) \in Nat /\ DOMAIN f = 1 .. Len(f)
         /\ \A j \in 1 .. EndOf(f) - 1 : f[j] # NUL
<1>1. Len(f) \in Nat /\ DOMAIN f = 1 .. Len(f) BY DEF Ended
<1> DEFINE T == {i \in 1 .. Len(f) : f[i] = NUL}
<1>2. T \subseteq Nat /\ T # {} BY <1>1 DEF Ended
<1>3. PICK n \in T : \A m \in T : n <= m
  <2> HIDE DEF T
  <2> QED BY <1>2, LeastNumber
<1>4. n \in 1 .. Len(f) /\ f[n] = NUL BY <1>3
<1>5. \A j \in 1 .. n - 1 : f[j] # NUL
  <2> SUFFICES ASSUME NEW j \in 1 .. n - 1, f[j] = NUL PROVE FALSE OBVIOUS
  <2>1. j \in T BY <1>1, <1>4
  <2>2. n <= j BY <1>3, <2>1
  <2> QED BY <1>4, <2>2
<1>6. \E i \in DOMAIN f : f[i] = NUL /\ \A j \in 1 .. i - 1 : f[j] # NUL BY <1>1, <1>4, <1>5
<1>7. EndOf(f) \in DOMAIN f /\ f[EndOf(f)] = NUL /\ \A j \in 1 .. EndOf(f) - 1 : f[j] # NUL
  BY <1>6 DEF EndOf
<1> QED BY <1>1, <1>7

LEMMA NoDigit == ~IsDigit(NUL) /\ NUL \notin DOMAIN FlagChars
<1>1. DOMAIN FlagChars = {"0", "-", "+", Space, "#"} BY DEF FlagChars
<1>2. \A i \in 1 .. 10 : Digits[i] \in Chars
  <2>1. \A i \in 1 .. 10 : i - 1 \in 0 .. 9 /\ (i - 1) + 1 = i OBVIOUS
  <2>2. ASSUME NEW i \in 1 .. 10 PROVE Digits[i] \in Chars
    <3> DEFINE d == i - 1
    <3>1. d \in 0 .. 9 /\ d + 1 = i BY <2>1
    <3> HIDE DEF d
    <3>2. Digits[d + 1] \in Chars BY <3>1, DigitsAre
    <3> QED BY <3>1, <3>2
  <2> QED BY <2>2
<1>3. {"0", "-", "+", Space, "#"} \subseteq Chars BY CharsAssumption
<1> QED BY <1>1, <1>2, <1>3, CharsAssumption DEF IsDigit

LEMMA NoStar == ~IsDigit("*")
  BY DEF IsDigit, Digits

(* A run of digits ends within the format. *)
LEMMA RunIs ==
  ASSUME NEW i \in Nat, NEW e \in Nat, format \in Seq(Alphabet), i <= e, e <= Len(format), ~IsDigit(format[e])
  PROVE  /\ RunEnd(i) \in i .. e /\ ~IsDigit(format[RunEnd(i)])
         /\ \A k \in i .. RunEnd(i) - 1 : IsDigit(format[k])
<1>1. Len(format) \in Nat OBVIOUS
<1> DEFINE T == {j \in i .. Len(format) : ~IsDigit(format[j])}
<1>2. T \subseteq Nat /\ e \in T BY <1>1
<1>3. PICK n \in T : \A m \in T : n <= m
  <2>1. T # {} BY <1>2
  <2> HIDE DEF T
  <2> QED BY <1>2, <2>1, LeastNumber
<1>4. n \in i .. Len(format) /\ ~IsDigit(format[n]) BY <1>3
<1>5. \A k \in i .. n - 1 : IsDigit(format[k])
  <2> SUFFICES ASSUME NEW k \in i .. n - 1, ~IsDigit(format[k]) PROVE FALSE OBVIOUS
  <2>1. k \in T BY <1>1, <1>4
  <2>2. n <= k BY <1>3, <2>1
  <2> QED BY <1>4, <2>2
<1>6. \E j \in i .. Len(format) : ~IsDigit(format[j]) /\ \A k \in i .. j - 1 : IsDigit(format[k])
  BY <1>4, <1>5
<1> DEFINE r == RunEnd(i)
<1>7. r \in i .. Len(format) /\ ~IsDigit(format[r]) /\ \A k \in i .. r - 1 : IsDigit(format[k])
  BY <1>6 DEF RunEnd
<1> HIDE DEF r
<1>8. r <= e
  <2> SUFFICES ASSUME e < r PROVE FALSE BY <1>7
  <2>1. e \in i .. r - 1 BY <1>7
  <2> QED BY <1>7, <2>1
<1>9. r \in i .. e BY <1>7, <1>8
<1> QED BY <1>7, <1>9 DEF r

(* Inside a specifier printf has not seen the NUL yet, but for those that   *)
(* end in a flag or a digit.                                                *)
Inside == {"flags", "width", "precision", "digits", "length", "length2", "specifier"}
Careless(f) == LET last == f[EndOf(f) - 1] IN last \in DOMAIN FlagChars \/ IsDigit(last)
InFormat ==
  /\ Ended(format)
  /\ \/ Careless(format)
     \/ fp \in 1 .. EndOf(format) /\ (place \in Inside => fp < EndOf(format))

LEMMA AdvanceStays ==
  ASSUME NEW e \in Nat, format[e] = NUL, fp \in 1 .. e, fp < e, NEW next, Advance(1, next)
  PROVE  fp' \in 1 .. e /\ (place' \in Inside => fp' < e)
<1>1. fp' = fp + 1 /\ (fp + 1 = e => place' = "end") BY DEF Advance
<1>2. "end" \notin Inside BY DEF Inside
<1> QED BY <1>1, <1>2

LEMMA FormattingStays == ASSUME InFormat, Formatting PROVE InFormat'
<1> DEFINE e == EndOf(format)
<1>1. Ended(format) BY DEF InFormat
<1>2. /\ e \in Nat /\ e \in 1 .. Len(format) /\ format[e] = NUL /\ format \in Seq(Alphabet)
      /\ \A j \in 1 .. e - 1 : format[j] # NUL
  <2>1. e \in 1 .. Len(format) /\ Len(format) \in Nat /\ format[e] = NUL /\ \A j \in 1 .. e - 1 : format[j] # NUL
    BY <1>1, EndIs
  <2> QED BY <1>1, <2>1 DEF Ended
<1>3. format' = format
  <2> USE DEF LoopKeeps, SpecifierKeeps, parserVars
  <2>1. Text \/ ParseFlags \/ Width \/ Precision \/ PrecisionDigits \/ Length \/ Length2 => format' = format
    BY DEF Text, ParseFlags, Width, Precision, PrecisionDigits, Length, Length2
  <2>2. Integer \/ Character \/ String \/ Pointer \/ Percent \/ Count \/ OtherSpecifier => format' = format
    BY DEF Integer, Character, String, Pointer, Percent, Count, OtherSpecifier
  <2>3. PutNext \/ Finish => format' = format BY DEF PutNext, Finish
  <2> QED BY <2>1, <2>2, <2>3 DEF Formatting
<1>4. CASE Careless(format) BY <1>1, <1>3, <1>4 DEF InFormat
<1> SUFFICES ASSUME fp \in 1 .. e, place \in Inside => fp < e
             PROVE  (fp' \in 1 .. e /\ (place' \in Inside => fp' < e)) \/ Careless(format)
  BY <1>1, <1>3, <1>4 DEF InFormat
<1> HIDE DEF e
<1>5. CASE Text
  <2>1. CASE Here = NUL
    <3>0. ~(Here = "%") BY <2>1, CharsAssumption
    <3>1. fp' = fp /\ place' = "end" BY <1>5, <2>1, <3>0 DEF Text
    <3> QED BY <3>1 DEF Inside
  <2>2. CASE Here # NUL
    <3>1. fp < e BY <1>2, <2>2 DEF Here
    <3>2. CASE Here = "%"
      <4>1. Advance(1, "flags") BY <1>5, <2>2, <3>2 DEF Text
      <4> QED BY <1>2, <3>1, <4>1, AdvanceStays
    <3>3. CASE Here # "%"
      <4>1. fp' = fp + 1 /\ place' = place /\ place = "text" BY <1>5, <2>2, <3>3 DEF Text, Parsing
      <4> QED BY <1>2, <3>1, <4>1 DEF Inside
    <3> QED BY <3>2, <3>3
  <2> QED BY <2>1, <2>2
<1>6. CASE ParseFlags
  <2>1. place = "flags" /\ fp < e BY <1>6 DEF ParseFlags, Parsing, Inside
  <2>2. CASE Here \in DOMAIN FlagChars
    <3>1. fp' = fp + 1 BY <1>6, <2>2 DEF ParseFlags
    <3>2. fp + 1 = e => Careless(format)
      <4> SUFFICES ASSUME fp + 1 = e PROVE Careless(format) OBVIOUS
      <4>1. e - 1 = fp BY <1>2
      <4> QED BY <2>2, <4>1 DEF Careless, Here, e
    <3> QED BY <1>2, <2>1, <3>1, <3>2
  <2>3. CASE Here \notin DOMAIN FlagChars
    <3>1. fp' = fp BY <1>6, <2>3 DEF ParseFlags
    <3> QED BY <2>1, <3>1
  <2> QED BY <2>2, <2>3
<1>7. ASSUME place \in Inside, IsDigit(Here), fp' = RunEnd(fp)
      PROVE  (fp' \in 1 .. e /\ (place' \in Inside => fp' < e)) \/ Careless(format)
  <2>1. fp \in Nat /\ fp <= e /\ fp < e /\ ~IsDigit(format[e]) BY <1>2, <1>7, NoDigit
  <2>2. /\ RunEnd(fp) \in fp .. e /\ ~IsDigit(format[RunEnd(fp)])
        /\ \A k \in fp .. RunEnd(fp) - 1 : IsDigit(format[k])
    BY <1>2, <2>1, RunIs
  <2> DEFINE r == RunEnd(fp)
  <2>3. r \in fp .. e /\ fp' = r /\ \A k \in fp .. r - 1 : IsDigit(format[k]) BY <1>7, <2>2
  <2> HIDE DEF r
  <2>4. CASE r = e
    <3>1. e - 1 \in fp .. r - 1 BY <2>1, <2>4, <1>2
    <3>2. IsDigit(format[e - 1]) BY <2>3, <3>1
    <3> QED BY <3>2 DEF Careless, e
  <2>5. CASE r # e
    <3>1. r \in 1 .. e /\ r < e BY <1>2, <2>1, <2>3, <2>5
    <3> QED BY <2>3, <3>1
  <2> QED BY <2>4, <2>5
<1>8. ASSUME place \in Inside, fp' = fp
      PROVE  fp' \in 1 .. e /\ (place' \in Inside => fp' < e)
  BY <1>8
<1>9. ASSUME place \in Inside, NEW next, Advance(1, next)
      PROVE  fp' \in 1 .. e /\ (place' \in Inside => fp' < e)
  BY <1>2, <1>9, AdvanceStays
<1>10. CASE Width
  <2>1. place \in Inside BY <1>10 DEF Width, Parsing, Inside
  <2>2. CASE IsDigit(Here)
    <3>1. ~(Here = "*") BY <2>2, NoStar
    <3>2. fp' = RunEnd(fp) BY <1>10, <2>2, <3>1 DEF Width
    <3> QED BY <1>7, <2>1, <2>2, <3>2
  <2>3. CASE ~IsDigit(Here) /\ Here = "*"
    <3>1. Advance(1, "precision") BY <1>10, <2>3 DEF Width
    <3> QED BY <1>9, <2>1, <3>1
  <2>4. CASE ~IsDigit(Here) /\ Here # "*"
    <3>1. fp' = fp BY <1>10, <2>4 DEF Width
    <3> QED BY <1>8, <2>1, <3>1
  <2> QED BY <2>2, <2>3, <2>4
<1>11. CASE Precision
  <2>1. place \in Inside BY <1>11 DEF Precision, Parsing, Inside
  <2>2. fp' = fp \/ Advance(1, "digits") BY <1>11 DEF Precision
  <2> QED BY <1>8, <1>9, <2>1, <2>2
<1>12. CASE PrecisionDigits
  <2>1. place \in Inside BY <1>12 DEF PrecisionDigits, Parsing, Inside
  <2>2. CASE IsDigit(Here)
    <3>1. ~(Here = "*") BY <2>2, NoStar
    <3>2. fp' = RunEnd(fp) BY <1>12, <2>2, <3>1 DEF PrecisionDigits
    <3> QED BY <1>7, <2>1, <2>2, <3>2
  <2>3. CASE ~IsDigit(Here) /\ Here = "*"
    <3>1. Advance(1, "length") BY <1>12, <2>3 DEF PrecisionDigits
    <3> QED BY <1>9, <2>1, <3>1
  <2>4. CASE ~IsDigit(Here) /\ Here # "*"
    <3>1. fp' = fp BY <1>12, <2>4 DEF PrecisionDigits
    <3> QED BY <1>8, <2>1, <3>1
  <2> QED BY <2>2, <2>3, <2>4
<1>13. CASE Length
  <2>1. place \in Inside BY <1>13 DEF Length, Parsing, Inside
  <2>2. fp' = fp \/ \E next : Advance(1, next) BY <1>13 DEF Length
  <2> QED BY <1>8, <1>9, <2>1, <2>2
<1>14. CASE Length2
  <2>1. place \in Inside BY <1>14 DEF Length2, Parsing, Inside
  <2>2. fp' = fp \/ Advance(1, "specifier") BY <1>14 DEF Length2
  <2> QED BY <1>8, <1>9, <2>1, <2>2
<1>15. ASSUME place = "specifier", fp' = fp + 1, place' = "text"
       PROVE  fp' \in 1 .. e /\ (place' \in Inside => fp' < e)
  BY <1>2, <1>15 DEF Inside
<1>16. CASE Integer BY <1>15, <1>16 DEF Integer, Specifier, Parsing
<1>17. CASE Character BY <1>15, <1>17 DEF Character, Specifier, Parsing
<1>18. CASE String BY <1>15, <1>18 DEF String, Specifier, Parsing
<1>19. CASE Pointer BY <1>15, <1>19 DEF Pointer, Specifier, Parsing
<1>20. CASE Percent BY <1>15, <1>20 DEF Percent, Specifier, Parsing
<1>21. CASE Count BY <1>15, <1>21 DEF Count, Specifier, Parsing
<1>22. CASE OtherSpecifier BY <1>15, <1>22 DEF OtherSpecifier, Parsing
<1>23. CASE PutNext
  <2>1. fp' = fp /\ place' = place BY <1>23 DEF PutNext, parserVars
  <2> QED BY <2>1
<1>24. CASE Finish
  <2>1. fp' = fp /\ place' = "idle" BY <1>24 DEF Finish, parserVars
  <2> QED BY <2>1 DEF Inside
<1> QED BY <1>5, <1>6, <1>10, <1>11, <1>12, <1>13, <1>14, <1>16, <1>17, <1>18, <1>19, <1>20, <1>21, <1>22,
           <1>23, <1>24 DEF Formatting

LEMMA BeginsAt ==
  ASSUME NEW c, Make(c), c.to \in {"snprintf", "null", "sprintf", "printf"}
  PROVE  Begin(MemoryOf(c), WordsOf(c) \o c.rest) /\ call' = c
<1> DEFINE m == MemoryOf(c)
           w == WordsOf(c) \o c.rest
<1>1. /\ c.to = "snprintf" => Snprintf(c.array, c.size, m, w)
      /\ c.to = "null" => SnprintfNull(c.size, m, w)
      /\ c.to = "sprintf" => Sprintf(c.array, m, w)
      /\ c.to = "printf" => PrintfCall(m, w)
      /\ call' = c
  BY DEF Make, MemoryOf
<1> HIDE DEF m, w
<1>2. Begin(m, w) BY <1>1 DEF Snprintf, SnprintfNull, Sprintf, PrintfCall
<1> QED BY <1>1, <1>2 DEF m, w

LEMMA PrintfStays == ASSUME InFormat, PrintfStep PROVE InFormat'
<1>1. CASE UNCHANGED <<printfVars, call>> BY <1>1 DEF printfVars, parserVars, InFormat
<1>2. ASSUME NEW c, WellFormed(c), Make(c) PROVE InFormat'
  <2>1. format' = MemoryOf(c) /\ fp' = 1 /\ place' = "text"
    BY <1>2, BeginsAt DEF WellFormed, Begin
  <2>2. Ended(MemoryOf(c))
    <3> DEFINE n == Len(FormatOf(c)) + 1
               m == MemoryOf(c)
    <3>1. m \in Seq(Alphabet) /\ n \in 1 .. Len(m) /\ m[n] = NUL BY <1>2, MemoryIs
    <3> HIDE DEF n, m
    <3>2. n \in DOMAIN m BY <3>1
    <3>3. Ended(m) BY <3>1, <3>2 DEF Ended
    <3> QED BY <3>3 DEF m
  <2>3. 1 \in 1 .. EndOf(MemoryOf(c)) BY <2>2, EndIs
  <2>4. "text" \notin Inside BY DEF Inside
  <2> QED BY <2>1, <2>2, <2>3, <2>4 DEF InFormat
<1> QED BY <1>1, <1>2, FormattingStays DEF PrintfStep

LEMMA FormatBegins == PrintfInit => InFormat
<1> SUFFICES ASSUME PrintfInit PROVE InFormat OBVIOUS
<1>1. format = <<NUL>> /\ fp = 1 /\ place = "idle" BY DEF PrintfInit
<1>2. format \in Seq(Alphabet) /\ Len(format) = 1 /\ format[1] = NUL
  <2>1. NUL \in Alphabet BY DEF Alphabet
  <2> QED BY <1>1, <2>1
<1>3. Ended(format) BY <1>2 DEF Ended
<1>4. EndOf(format) \in 1 .. Len(format) BY <1>3, EndIs
<1> QED BY <1>1, <1>2, <1>3, <1>4 DEF InFormat, Inside

(* printf.c:126: what lies behind the NUL is read only when the last        *)
(* specifier ends in a flag or in a digit, whatever the format.             *)
THEOREM PrintfStaysInFormat == Spec => []StaysInFormat
<1>1. Init => RomInv /\ InFormat BY RomBegins, FormatBegins DEF Init
<1>2. RomInv /\ InFormat /\ [Next]_vars => (RomInv /\ InFormat)'
  BY RomStep, StepsOfPrintf, PrintfStays
<1>3. InFormat => StaysInFormat
  <2> SUFFICES ASSUME InFormat, fp > EndOf(format) PROVE Careless(format) BY DEF StaysInFormat, Careless
  <2>1. EndOf(format) \in 1 .. Len(format) BY EndIs DEF InFormat
  <2> QED BY <2>1 DEF InFormat
<1> QED BY <1>1, <1>2, <1>3, PTL DEF Spec
=============================================================================
