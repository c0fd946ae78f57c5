------------------------------- MODULE Alu -------------------------------
(* The arithmetic unit (hdl/alu.sv): the result of an operation on TA and   *)
(* TB, and the flags after it.  Values are numbers of 16 bits, flags 0 or   *)
(* 1; wide is FALSE for an operation on bytes.                              *)
EXTENDS Integers, FiniteSets, FiniteSetsExt, TLC

Word(n) == n % 65536
ByteOf(n) == n % 256
Bit(n, i) == (n \div 2^i) % 2
Flag(holds) == IF holds THEN 1 ELSE 0

(* Bitwise operations, on the sets of ones. *)
Bits(n)   == {i \in 0 .. 15 : Bit(n, i) = 1}
Number(s) == MapThenSumSet(LAMBDA i : 2^i, s)
And(a, b) == Number(Bits(a) \cap Bits(b))
Or(a, b)  == Number(Bits(a) \cup Bits(b))
Xor(a, b) == Number((Bits(a) \ Bits(b)) \cup (Bits(b) \ Bits(a)))
Not(a)    == 65535 - a

Cut(n, wide)  == IF wide THEN Word(n) ELSE ByteOf(n)
Sign(n, wide) == Bit(n, IF wide THEN 15 ELSE 7)
Parity(n)     == Flag(Cardinality(Bits(ByteOf(n))) % 2 = 0)

(* calc_parity, calc_sign, calc_zero *)
Zero(res, wide) == [Z |-> Flag(Cut(res, wide) = 0)]
Signs(res, wide) == [P |-> Parity(res), S |-> Sign(res, wide)] @@ Zero(res, wide)

Outcome(res, flags) == [result |-> res, flags |-> flags]

-----------------------------------------------------------------------------
(* INC and DEC add and subtract one and leave CY alone. *)
Second(operation, tb, f) ==
  CASE operation \in {"INC", "DEC"}   -> 1
    [] operation \in {"ADDC", "SUBC"} -> tb + f.CY
    [] OTHER -> tb

(* The bit above the result. *)
CarryBit(n, wide) == Bit(n, IF wide THEN 16 ELSE 8)
Carry(operation, n, wide) ==
  IF operation \in {"INC", "DEC"} THEN <<>> ELSE [CY |-> CarryBit(n, wide)]

Add(operation, ta, tb, wide, f) ==
  LET n   == Second(operation, tb, f)
      sum == ta + n
      res == Word(sum)
  IN  Outcome(res,
        Carry(operation, sum, wide) @@ Signs(res, wide) @@
        [AC |-> Flag((n % 16) + (ta % 16) > 15),
         V  |-> Flag(Sign(ta, wide) # Sign(res, wide) /\ Sign(n, wide) # Sign(res, wide))])

(* Mutant of Subtract: AC compares the digits, without the borrow in. *)
SubtractDigits(operation, ta, tb, wide, f) ==
  LET n    == Second(operation, tb, f)
      diff == (ta - n) % 2^17
      res  == Word(diff)
  IN  Outcome(res,
        Carry(operation, diff, wide) @@ Signs(res, wide) @@
        [AC |-> Flag(tb % 16 > ta % 16),
         V  |-> Flag(Sign(ta, wide) # Sign(n, wide) /\ Sign(ta, wide) # Sign(res, wide))])

Subtract(operation, ta, tb, wide, f) ==
  LET n    == Second(operation, tb, f)
      diff == (ta - n) % 2^17
      res  == Word(diff)
  IN  Outcome(res,
        Carry(operation, diff, wide) @@ Signs(res, wide) @@
        [AC |-> Flag(diff % 16 > ta % 16),
         V  |-> Flag(Sign(ta, wide) # Sign(n, wide) /\ Sign(ta, wide) # Sign(res, wide))])

Logic(operation, ta, tb, wide) ==
  LET res == CASE operation = "AND" -> And(ta, tb)
               [] operation = "OR"  -> Or(ta, tb)
               [] operation = "XOR" -> Xor(ta, tb)
  IN  Outcome(res, [CY |-> 0, V |-> 0, AC |-> 0] @@ Signs(res, wide))

Negate(ta, wide) ==
  LET res == Word(-ta) IN Outcome(res, [CY |-> Flag(ta # 0)] @@ Signs(res, wide))

(* One bit, named by the low bits of TB. *)
BitMask(tb, wide) == 2^(tb % (IF wide THEN 16 ELSE 8))
OneBit(operation, ta, tb, wide) ==
  LET mask == BitMask(tb, wide)
  IN  CASE operation = "SET1"  -> Outcome(Or(ta, mask), <<>>)
        [] operation = "CLR1"  -> Outcome(And(ta, Not(mask)), <<>>)
        [] operation = "NOT1"  -> Outcome(Xor(ta, mask), <<>>)
        [] operation = "TEST1" -> LET res == And(ta, mask)
                                  IN  Outcome(res, [CY |-> 0, V |-> 0] @@ Zero(res, wide))

(* Decimal adjustment of a byte after an addition (sign 1) or a subtraction *)
(* (sign -1); the carry is decided by the second correction alone.          *)
(* Mutant of HighCorrection: it looks at the high digit alone. *)
HighDigitOnly(ta, f)  == f.CY = 1 \/ ByteOf(ta) > 159
LowCorrection(ta, f)  == f.AC = 1 \/ ta % 16 > 9
HighCorrection(ta, f) == f.CY = 1 \/ ByteOf(ta) > 153
AdjustPacked(sign, ta, wide, f) ==
  LET low  == IF LowCorrection(ta, f) THEN 6 ELSE 0
      high == IF HighCorrection(ta, f) THEN 96 ELSE 0
      res  == ByteOf(ta + sign * (low + high))
  IN  Outcome(res, [AC |-> Flag(LowCorrection(ta, f)), CY |-> Flag(HighCorrection(ta, f))]
                   @@ Signs(res, wide))

(* Unpacked digits: the low one in AL, a carry goes to AH.  The subtraction *)
(* takes its borrow from bit 7 upwards.                                     *)
ClearHighDigit(n) == And(n, 65295)   \* res[7:4] = 0
AdjustUnpacked(operation, ta, f) ==
  LET corrected == IF operation = "ADJBA" THEN Word(ta + 262)
                   ELSE LET n == Word(ta - 6) IN Word(n - 128)
      correct == LowCorrection(ta, f)
  IN  Outcome(ClearHighDigit(IF correct THEN corrected ELSE ta),
              [AC |-> Flag(correct), CY |-> Flag(correct)])

Operate(operation, ta, tb, wide, f) ==
  CASE operation \in {"ADD", "ADDC", "INC"}        -> Add(operation, ta, tb, wide, f)
    [] operation \in {"SUB", "SUBC", "CMP", "DEC"} -> Subtract(operation, ta, tb, wide, f)
    [] operation \in {"AND", "OR", "XOR"}          -> Logic(operation, ta, tb, wide)
    [] operation = "NOT"   -> Outcome(Not(ta), <<>>)
    [] operation = "NEG"   -> Negate(ta, wide)
    [] operation \in {"SET1", "CLR1", "NOT1", "TEST1"} -> OneBit(operation, ta, tb, wide)
    [] operation = "ADJ4A" -> AdjustPacked(1, ta, wide, f)
    [] operation = "ADJ4S" -> AdjustPacked(-1, ta, wide, f)
    [] operation \in {"ADJBA", "ADJBS"} -> AdjustUnpacked(operation, ta, f)
    [] OTHER -> Outcome(0, <<>>)

AluResult(operation, ta, tb, wide, f) == Cut(Operate(operation, ta, tb, wide, f).result, wide)
AluFlags(operation, ta, tb, wide, f)  == Operate(operation, ta, tb, wide, f).flags @@ f

(* Operations the source gives a delay. *)
AluDelayed(operation) ==
  operation \in {"SET1", "CLR1", "TEST1", "NOT1", "ADJ4A", "ADJ4S", "ADJBA", "ADJBS"}
=============================================================================
