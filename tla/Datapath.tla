----------------------------- MODULE Datapath -----------------------------
(* The functions of hdl/v33.sv that compute without keeping state: register *)
(* access, effective addresses, operands, shifts, conditions, products and  *)
(* quotients.  r is the register file, s the segment registers, f the       *)
(* flags, d the decoded instruction.  All values are numbers of 16 bits,    *)
(* flags 0 or 1.                                                            *)
EXTENDS Alu, Sequences

High(n)  == n \div 256
Pair(low, high) == low + (256 * high)
SignExtend(b)   == IF b > 127 THEN b + 65280 ELSE b

(* get_reg8, get_reg16, set_reg8, set_reg16: the byte registers are the low *)
(* halves of the first four, then their high halves.                        *)
Reg16 == <<"AW", "CW", "DW", "BW", "SP", "BP", "IX", "IY">>
Home(i)    == Reg16[(i % 4) + 1]
Get8(r, i) == IF i < 4 THEN ByteOf(r[Home(i)]) ELSE High(r[Home(i)])
Set8(r, i, v) ==
  [r EXCEPT ![Home(i)] = IF i < 4 THEN Pair(ByteOf(v), High(@)) ELSE Pair(ByteOf(@), ByteOf(v))]

GetReg(r, width, i)    == IF width = "BYTE" THEN Get8(r, i) ELSE r[Reg16[i + 1]]
SetReg(r, width, i, v) == IF width = "BYTE" THEN Set8(r, i, v) ELSE [r EXCEPT ![Reg16[i + 1]] = v]
SetAcc(r, width, v)    == SetReg(r, width, 0, v)

Disp(d)  == Pair(d.disp[1], d.disp[2])
Imm(d)   == Pair(d.imm[1], d.imm[2])
Imm2(d)  == Pair(d.imm[3], d.imm[4])
IsWide(d) == d.width # "BYTE"

CalcEa(d, r) ==
  LET Base == << r.BW + r.IX, r.BW + r.IY, r.BP + r.IX, r.BP + r.IY, r.IX, r.IY,
                 IF d.mod = 0 THEN Disp(d) ELSE r.BP, r.BW >>
  IN  CASE "IO_DIRECT" \in {d.dest, d.source0}   -> d.disp[1]
        [] "IO_INDIRECT" \in {d.dest, d.source0} -> r.DW
        [] OTHER -> Word(Base[d.rm + 1] + CASE d.mod = 1 -> SignExtend(d.disp[1])
                                            [] d.mod = 2 -> Disp(d)
                                            [] OTHER -> 0)

(* din is the word on the data port at this very moment. *)
GetOperand(d, operand, r, s, din) ==
  CASE operand = "ACC"     -> GetReg(r, d.width, 0)
    [] operand = "IMM"     -> Cut(Imm(d), IsWide(d))
    [] operand = "IMM8"    -> d.imm[1]
    [] operand = "IMM_EXT" -> SignExtend(d.imm[1])
    [] operand = "MODRM" /\ d.mod = 3 -> GetReg(r, d.width, d.rm)
    [] operand = "MODRM" /\ d.mod # 3 -> Cut(din, IsWide(d))
    [] operand \in {"IO_DIRECT", "IO_INDIRECT"} -> Cut(din, IsWide(d))
    [] operand = "REG_0"   -> GetReg(r, d.width, d.reg0)
    [] operand = "REG_1"   -> GetReg(r, d.width, d.reg1)
    [] operand = "CL"      -> ByteOf(r.CW)
    [] operand = "SREG" /\ IsWide(d) -> s[d.sreg]
    [] OTHER -> 65535

-----------------------------------------------------------------------------
(* The program status word; bits 15 to 12 and 1 are always ones. *)
PswBits == [CY |-> 0, P |-> 2, AC |-> 4, Z |-> 6, S |-> 7, BRK |-> 8, IE |-> 9, DIR |-> 10, V |-> 11]
Psw(f) == 61442 + MapThenSumSet(LAMBDA n : f[n] * 2^PswBits[n], DOMAIN PswBits)
SetFlags(f, names, w) == [n \in DOMAIN f |-> IF n \in names THEN Bit(w, PswBits[n]) ELSE f[n]]
ArithmeticFlags == {"CY", "P", "AC", "Z", "S"}

(* One step of a shift or rotation of ta; V says the sign changed. *)
Shift(op, wide, ta, f) ==
  LET top == IF wide THEN 15 ELSE 7
      In  == CASE op = "ROL" -> Bit(ta, top)
               [] op = "ROR" -> Bit(ta, 0)
               [] op \in {"ROLC", "RORC"} -> f.CY
               [] op = "SHRA" -> Bit(ta, top)
               [] OTHER -> 0
      left == op \in {"ROL", "ROLC", "SHL"}
      res  == IF left THEN Cut((2 * ta) + In, wide)
              ELSE (Cut(ta, wide) \div 2) + (In * 2^top)
  IN  Outcome(res,
        [CY |-> Bit(ta, IF left THEN top ELSE 0),
         V  |-> Flag(Bit(res, top) # Bit(ta, top))]
        @@ (IF op \in {"SHL", "SHR", "SHRA"} THEN Signs(res, wide) ELSE <<>>))

(* The conditions of B_COND come in pairs, the odd one negated. *)
Condition(cond, f) ==
  LET Sets == << f.V = 1, f.CY = 1, f.Z = 1, f.CY = 1 \/ f.Z = 1, f.S = 1, f.P = 1,
                 f.S # f.V /\ f.Z = 0, f.S # f.V \/ f.Z = 1 >>
  IN  Sets[(cond \div 2) + 1] <=> cond % 2 = 0

-----------------------------------------------------------------------------
(* Numbers of two words are records [high, low]. *)
Long(high, low) == [high |-> high, low |-> low]
Negated(n) == Long(Word((IF n.low = 0 THEN 65536 ELSE 65535) - n.high), Word(-n.low))

Unsigned(a, b) ==
  LET part == (a * High(b))
      low  == (a * ByteOf(b)) + (256 * ByteOf(part))
  IN  Long((low \div 65536) + (part \div 256), Word(low))

(* OP_MUL and OP_MULU: CY and V say that the upper half is not zero. *)
Minus(a, n, bits) == IF Bit(a, bits - 1) = 1 THEN n ELSE 0
Product(signed, width, a, b) ==
  LET u == Unsigned(a, b)
  IN  IF ~signed THEN u
      ELSE IF width = "BYTE" THEN Long(0, Word(u.low - (256 * (Minus(a, b, 8) + Minus(b, a, 8)))))
      ELSE Long((u.high - Minus(a, b, 16) - Minus(b, a, 16)) % 65536, u.low)
UpperHalf(width, n) == IF width = "BYTE" THEN High(n.low) ELSE n.high

(* What nec_divider gives for a number of two words and one of one word:    *)
(* the division is that of the magnitudes, the quotient counts as too large *)
(* when its magnitude does not fit the lower half.                          *)
Divide(signed, wide, num, den) ==
  LET half   == IF wide THEN 65536 ELSE 256
      minusN == signed /\ num.high > 32767
      minusD == signed /\ den > 32767
      n   == IF minusN THEN Negated(num) ELSE num
      b   == IF minusD THEN Word(-den) ELSE den
      one == (n.high * 256) + High(n.low)            \* long division by bytes
      two == ((one % b) * 256) + ByteOf(n.low)
      q   == ((one \div b) * 256) + (two \div b)
      With(minus, x) == (IF minus THEN -x ELSE x) % half
  IN  IF b = 0 THEN [fault |-> TRUE, quot |-> 0, rem |-> 0]
      ELSE IF n.high >= b \/ q >= half THEN [fault |-> TRUE, quot |-> 0, rem |-> 0]
      ELSE [fault |-> FALSE, quot |-> With(minusN # minusD, q), rem |-> With(minusN, two % b)]

(* The registers r after the result n, of two words, went to d's destination. *)
StoreOperand(d, r, n) ==
  LET To(i) == SetReg(r, d.width, i, n.low)
  IN  CASE d.dest = "ACC"   -> To(0)
        [] d.dest = "MODRM" /\ d.mod = 3 -> To(d.rm)
        [] d.dest = "REG_0" -> To(d.reg0)
        [] d.dest = "REG_1" -> To(d.reg1)
        [] d.dest = "PRODUCT" ->
             [r EXCEPT !.AW = n.low, !.DW = IF d.width = "WORD" THEN n.high ELSE @]
        [] OTHER -> r
-----------------------------------------------------------------------------
(* One byte of a string of packed decimal digits: a + b or a - b, b with    *)
(* the carry of the byte before.  Registers of a digit and its carry have   *)
(* five bits.  The low digit of a difference is corrected as that of a sum. *)
DecimalByte(op, a, b) ==
  LET Combine(x, y) == (IF op = "ADD4S" THEN x + y ELSE x - y) % 32
      low   == Combine(a % 16, b % 16)
      wrong == low > 9
      high  == (Combine(a \div 16, b \div 16) + Flag(wrong)) % 32
      carry == high > 9
      fixed == IF ~carry THEN high ELSE IF op = "ADD4S" THEN high + 6 ELSE high - 6
  IN  [byte |-> (16 * (fixed % 16)) + ((IF wrong THEN low + 6 ELSE low) % 16), carry |-> Flag(carry)]

(* A bit field of size + 1 bits from bit shift of a location on.  The width *)
(* of the access is as in the source, a word for the fields that fit a byte *)
(* (but the one that ends with it).                                         *)
FieldWidth(shift, size) == IF shift + size < 7 THEN "WORD" ELSE "BYTE"
FieldMask(size) == Word((2 * 2^size) - 1)
Extracted(v, shift, mask) == And(v \div 2^shift, mask)
(* Mutant of Inserted: bits of the value above the field go in too. *)
InsertedUncut(v, value, shift, placed) == Or(And(v, Not(placed)), Word(value * 2^shift))
Inserted(v, value, shift, placed) ==
  Or(And(v, Not(placed)), And(Word(value * 2^shift), placed))
=============================================================================
