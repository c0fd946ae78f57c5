----------------------------- MODULE AluCheck -----------------------------
(* The arithmetic unit, the decimal strings and the bit fields of the       *)
(* execution unit against what their operations mean for numbers.  A state  *)
(* is an operation with its operands, which the step works out: res and     *)
(* after are the outputs of the arithmetic unit.                            *)
EXTENDS Datapath

CONSTANT Operands   \* for each operation that is tried, the values it is given

VARIABLES operation, wide, ta, tb, flags_in, res, after

vars == <<operation, wide, ta, tb, flags_in, res, after>>

NoFlags == [V |-> 0, S |-> 0, Z |-> 0, AC |-> 0, P |-> 0, CY |-> 0,
            DIR |-> 0, IE |-> 0, BRK |-> 0]

(* The execution unit gives operands of the width of the operation. *)
Init ==
  /\ operation \in DOMAIN Operands /\ wide \in BOOLEAN
  /\ ta \in Operands[operation] /\ tb \in Operands[operation]
  /\ ~wide => ta < 256 /\ tb < 256
  /\ \E cy, ac, v \in {0, 1} :
       flags_in = [NoFlags EXCEPT !.CY = cy, !.AC = ac, !.V = v, !.IE = 1]
  /\ res = 0 /\ after = NoFlags

Compute ==
  /\ after = NoFlags
  /\ res' = AluResult(operation, ta, tb, wide, flags_in)
  /\ after' = AluFlags(operation, ta, tb, wide, flags_in)
  /\ UNCHANGED <<operation, wide, ta, tb, flags_in>>

Next == Compute
Spec == Init /\ [][Next]_vars
Computed == after # NoFlags
-----------------------------------------------------------------------------
Width == IF wide THEN 65536 ELSE 256
AsSigned(n) == IF n >= Width \div 2 THEN n - Width ELSE n
FitsSigned(n) == n \in -(Width \div 2) .. (Width \div 2) - 1

Addition    == operation \in {"ADD", "ADDC", "INC"}
Subtraction == operation \in {"SUB", "SUBC", "CMP", "DEC"}
CarryIn == IF operation \in {"ADDC", "SUBC"} THEN flags_in.CY ELSE 0
Operand == IF operation \in {"INC", "DEC"} THEN 1 ELSE tb

Total(a, b) == IF Addition THEN a + b + CarryIn ELSE a - b - CarryIn

(* Addition and subtraction are those of numbers modulo the width.  CY says *)
(* that the unsigned result does not fit (INC and DEC leave it alone), also *)
(* when the carry in cuts the second operand; AC and V say the same of the  *)
(* low digit and of the signed numbers, except where the carry in, which is *)
(* added to the second operand first, carries out of its digit or changes   *)
(* its sign.                                                                *)
CarryLost(limit) == CarryIn = 1 /\ tb % limit = limit - 1
Arithmetic ==
  Computed /\ (Addition \/ Subtraction) =>
    LET n == Total(ta, Operand)
    IN  /\ res = n % Width
        /\ after.CY = IF operation \in {"INC", "DEC"} THEN flags_in.CY
                      ELSE Flag(n \notin 0 .. Width - 1)
        /\ after.Z = Flag(n % Width = 0) /\ after.S = Flag(AsSigned(res) < 0)
        /\ ~CarryLost(16) =>
             after.AC = Flag(Total(ta % 16, Operand % 16) \notin 0 .. 15)
        /\ ~CarryLost(Width \div 2) =>
             after.V = Flag(~FitsSigned(Total(AsSigned(ta), AsSigned(Operand))))

(* Decimal adjustment of a byte after the addition, or the subtraction, of  *)
(* two packed decimal bytes gives the decimal result and its carry: the     *)
(* flags that the binary operation left are enough to know it.              *)
Decimal(n) == ((n \div 16) * 10) + (n % 16)
Packed     == {n \in 0 .. 255 : n % 16 < 10 /\ n < 160}
Sum(op, a, b) == IF op \in {"ADJ4A", "ADJBA"} THEN a + b ELSE a - b
AfterBinary(op, a, b) ==
  AluFlags(IF op \in {"ADJ4A", "ADJBA"} THEN "ADD" ELSE "SUB", a, b, FALSE, NoFlags)
Adjusted ==
  LET binary == ByteOf(Sum(operation, ta, tb))
      f      == AfterBinary(operation, ta, tb)
  IN  [byte  |-> AluResult(operation, binary, 0, FALSE, f),
       carry |-> AluFlags(operation, binary, 0, FALSE, f).CY]

(* The same holds of a byte of a digit string with the carry of the byte    *)
(* before, except for a subtraction that borrows from the high digit: the   *)
(* source corrects its low digit as after an addition.                      *)
NextByte == ByteOf(tb + flags_in.CY)
PackedRight ==
  LET string == operation \in {"ADD4S", "SUB4S"}
      is     == IF string THEN DecimalByte(operation, ta, NextByte) ELSE Adjusted
      other  == Decimal(tb) + IF string THEN flags_in.CY ELSE 0
      n      == IF operation \in {"ADJ4A", "ADD4S"} THEN Decimal(ta) + other
                ELSE Decimal(ta) - other
  IN  ~(operation = "SUB4S" /\ NextByte % 16 > ta % 16) =>
        /\ is.byte \in Packed /\ Decimal(is.byte) = n % 100
        /\ is.carry = Flag(n \notin 0 .. 99)

(* Of unpacked digits the one in AL and the carry are right, and AH takes   *)
(* the carry of an addition.  It does not give the borrow of a subtraction: *)
(* that is taken from bit 7 upwards, and AL has bit 7 after a borrow.       *)
UnpackedRight ==
  LET n  == Sum(operation, ByteOf(ta), ByteOf(tb))
      f  == AfterBinary(operation, ByteOf(ta), ByteOf(tb))
      aw == Pair(ByteOf(n), High(ta))
      is == AluResult(operation, aw, 0, TRUE, f)
      carry == Flag(n \notin 0 .. 9)
  IN  /\ ByteOf(is) = n % 10 /\ AluFlags(operation, aw, 0, TRUE, f).CY = carry
      /\ High(is) = IF operation = "ADJBA" THEN ByteOf(High(ta) + carry) ELSE High(ta)

(* What the decimal instructions give for decimal digits is the decimal     *)
(* result and its carry, up to the borrows named above.                     *)
DecimalResults ==
  Computed =>
    /\ operation \in {"ADJ4A", "ADJ4S", "ADD4S", "SUB4S"} => PackedRight
    /\ operation \in {"ADJBA", "ADJBS"} => UnpackedRight

(* What INS puts into a field is what EXT takes from it, and no bit around  *)
(* the field changes, whichever width the two choose for their accesses; of *)
(* a field that crosses its byte the bits in the byte are kept, exactly the *)
(* others are lost, and EXT gives zeros for them.                           *)
FieldKept ==
  Computed /\ operation = "INS" =>
    \A shift \in 0 .. 7, size \in 0 .. 15 :
      LET mask  == FieldMask(size)
          whole == FieldWidth(shift, size) = "WORD"
          now   == Cut(Inserted(Cut(ta, whole), tb, shift, Word(mask * 2^shift)), whole)
          kept  == IF shift + size < 8 THEN size + 1 ELSE 8 - shift
          Around(v) == Bits(Cut(v, whole)) \ (shift .. shift + size)
      IN  /\ Extracted(now, shift, mask) = tb % 2^kept
          /\ Around(now) = Around(ta)
=============================================================================
