--------------------------- MODULE Architecture ---------------------------
(* What the core promises the program: each step executes one instruction,  *)
(* or one element of a repeated block instruction, as a whole, or takes an  *)
(* interrupt between two of them, on nothing but the programmer's registers *)
(* and memory.  The execution unit implements it whatever the bus, the      *)
(* prefetch queue and the divider do with its clock.                        *)
EXTENDS Datapath, SequencesExt

CONSTANTS
  InstructionAt(_, _),  \* the instruction at PS:pc
  Given(_),             \* the byte in a cell nobody has written
  Vectors               \* the vectors an interrupt may have

(* A machine: [regs, sregs, flags, pc, store]. *)
VARIABLE m

Types == INSTANCE V33Types WITH Offs <- 65536, Para <- 16, Phys <- 1048576
-----------------------------------------------------------------------------
(* Memory and I/O. *)
At(k, cell) == IF cell \in DOMAIN k.store THEN k.store[cell] ELSE Given(cell)
After(cell) == <<cell[1], cell[2] + 1>>
In(k, seg, offset) == <<"mem", Types!PhysicalAddr(k.sregs, seg, Word(offset))>>

Get(k, cell, wide) == IF wide THEN Pair(At(k, cell), At(k, After(cell))) ELSE At(k, cell)
Put(k, cell, wide, v) ==
  [k EXCEPT !.store = (cell :> ByteOf(v)) @@ (IF wide THEN After(cell) :> High(v) ELSE <<>>) @@ @]

Load(k, seg, offset, width)     == Get(k, In(k, seg, offset), width # "BYTE")
Save(k, seg, offset, width, v)  == Put(k, In(k, seg, offset), width # "BYTE", v)

(* The stack. *)
PushWord(k, v) ==
  LET sp == Word(k.regs.SP - 2)
  IN  Save([k EXCEPT !.regs.SP = sp], "SS", sp, "WORD", v)
PushAll(k, values) == FoldLeft(PushWord, k, values)
Top(k)      == Load(k, "SS", k.regs.SP, "WORD")
Dropped(k)  == [k EXCEPT !.regs.SP = Word(@ + 2)]
PopReg(k, name)  == [Dropped(k) EXCEPT !.regs[name] = Top(k)]
PopSreg(k, name) == [Dropped(k) EXCEPT !.sregs[name] = Top(k)]
PopPc(k)  == [Dropped(k) EXCEPT !.pc = Top(k)]
PopPsw(k) == [Dropped(k) EXCEPT !.flags = SetFlags(@, DOMAIN PswBits, Top(k))]

(* Entry of an interrupt or exception. *)
Enter(k, vector) ==
  LET saved == PushAll(k, <<Psw(k.flags), k.sregs.PS, k.pc>>)
      Word4(n) == Get(saved, <<"mem", (4 * vector) + n>>, TRUE)
  IN  [saved EXCEPT !.flags.IE = 0, !.flags.BRK = 0, !.pc = Word4(0), !.sregs.PS = Word4(2)]

-----------------------------------------------------------------------------
(* Operands of the instruction i. *)
OperandCell(k, i) ==
  LET ea == CalcEa(i, k.regs) IN IF i.io THEN <<"io", ea>> ELSE In(k, i.segment, ea)
Operand(k, i, x) ==
  GetOperand(i, x, k.regs, k.sregs, Get(k, OperandCell(k, i), IsWide(i)))
Source0(k, i) == Operand(k, i, i.source0)
Source1(k, i) == Operand(k, i, i.source1)

Deliver(k, i, result, f) ==
  LET done == [k EXCEPT !.regs = StoreOperand(i, k.regs, result), !.flags = f @@ @]
  IN  IF i.mem_write THEN Put(done, OperandCell(k, i), IsWide(i), result.low)
      ELSE IF i.dest = "SREG" THEN [done EXCEPT !.sregs[i.sreg] = result.low]
      ELSE done

(* n shifts, V left alone. *)
Shifts(i, v, n, f) ==
  FoldLeft(LAMBDA acc, x :
             LET one == Shift(i.shift, IsWide(i), acc.result, acc.flags)
             IN  Outcome(one.result, [V |-> f.V] @@ one.flags @@ acc.flags),
           Outcome(v, f), [x \in 1 .. n |-> x])

Computes == {"MOV", "LDEA", "ALU", "SHIFT1", "SHIFT", "MUL", "MULU", "ROL4", "ROR4"}
Compute(k, i) ==
  LET a == Source0(k, i)
      b == Source1(k, i)
      wide == IsWide(i)
      product == Product(i.opcode = "MUL", i.width, a, b)
      large == Flag(UpperHalf(i.width, product) # 0)
      To(result, f) == Deliver(k, i, Long(0, result), f)
      Digit(n) == [k EXCEPT !.regs.AW = (16 * (@ \div 16)) + n]
      shifted == Shifts(i, a, ByteOf(b), k.flags)
      once    == Shift(i.shift, wide, a, k.flags)
  IN  CASE i.opcode = "MOV"    -> To(a, <<>>)
        [] i.opcode = "LDEA"   -> To(CalcEa(i, k.regs), <<>>)
        [] i.opcode = "ALU"    -> To(AluResult(i.alu_operation, a, b, wide, k.flags),
                                     AluFlags(i.alu_operation, a, b, wide, k.flags))
        [] i.opcode = "SHIFT1" -> To(once.result, once.flags)
        [] i.opcode = "SHIFT"  -> To(shifted.result, shifted.flags)
        [] i.opcode \in {"MUL", "MULU"} -> Deliver(k, i, product, [CY |-> large, V |-> large])
        [] i.opcode = "ROL4"   -> Deliver(Digit(a \div 16), i,
                                          Long(0, (16 * (a % 16)) + (k.regs.AW % 16)), <<>>)
        [] i.opcode = "ROR4"   -> Deliver(Digit(a % 16), i,
                                          Long(0, (16 * (k.regs.AW % 16)) + (a \div 16)), <<>>)

(* The exchange, and loads of a far address. *)
Exchange(k, i) ==
  [Deliver(k, i, Long(0, Source0(k, i)), <<>>)
     EXCEPT !.regs = SetReg(@, i.width, i.reg0, Source1(k, i))]
FarOffset(k, i)  == Source0(k, i)
FarSegment(k, i) == Load(k, i.segment, CalcEa(i, k.regs) + 2, "WORD")
LoadFar(k, i) ==
  [k EXCEPT !.regs = SetReg(@, "WORD", i.reg0, FarOffset(k, i)), !.sregs[i.sreg] = FarSegment(k, i)]

-----------------------------------------------------------------------------
(* Flags and the accumulator. *)
FlagOps == {"NOT1_CY", "CLR1_CY", "SET1_CY", "DI", "EI", "CLR1_DIR", "SET1_DIR", "MOV_PSW_AH"}
FlagOp(k, op) ==
  CASE op = "NOT1_CY"    -> [k EXCEPT !.flags.CY = 1 - @]
    [] op = "CLR1_CY"    -> [k EXCEPT !.flags.CY = 0]
    [] op = "SET1_CY"    -> [k EXCEPT !.flags.CY = 1]
    [] op = "DI"         -> [k EXCEPT !.flags.IE = 0]
    [] op = "EI"         -> [k EXCEPT !.flags.IE = 1]
    [] op = "CLR1_DIR"   -> [k EXCEPT !.flags.DIR = 0]
    [] op = "SET1_DIR"   -> [k EXCEPT !.flags.DIR = 1]
    [] op = "MOV_PSW_AH" -> [k EXCEPT !.flags = SetFlags(@, ArithmeticFlags, High(k.regs.AW))]

AccOps == {"CVTWL", "CVTBW", "CVTBD", "CVTDB", "MOV_AH_PSW", "TRANS"}
AccOp(k, i) ==
  LET al == ByteOf(k.regs.AW)
      ah == High(k.regs.AW)
      binary == ByteOf((10 * ah) + al)
      ones == al % 10
      table == Load(k, i.segment, k.regs.BW + al, "BYTE")
      tens == Pair(ones, al \div 10)
  IN  CASE i.opcode = "CVTWL" -> [k EXCEPT !.regs.DW = IF ah > 127 THEN 65535 ELSE 0]
        [] i.opcode = "CVTBW" -> [k EXCEPT !.regs.AW = SignExtend(al)]
        [] i.opcode = "CVTBD" -> [k EXCEPT !.regs.AW = tens,
                                           !.flags = [Z |-> Flag(tens = 0)] @@ Signs(ones, FALSE) @@ @]
        [] i.opcode = "CVTDB" -> [k EXCEPT !.regs.AW = binary, !.flags = Signs(binary, FALSE) @@ @]
        [] i.opcode = "MOV_AH_PSW" -> [k EXCEPT !.regs.AW = Pair(al, ByteOf(Psw(k.flags)))]
        [] i.opcode = "TRANS" -> [k EXCEPT !.regs.AW = Pair(table, ah)]

(* Division, and the other exceptions.  The address saved is the one after  *)
(* the instruction.                                                         *)
Divides(k, i) ==
  LET a == Source0(k, i)
      signed == i.opcode = "DIV"
      high == IF IsWide(i) THEN k.regs.DW
              ELSE IF signed /\ k.regs.AW > 32767 THEN 65535 ELSE 0
      n == Divide(signed, IsWide(i), Long(high, k.regs.AW),
                  IF signed /\ ~IsWide(i) THEN SignExtend(a) ELSE a)
  IN  IF n.fault THEN Enter(k, 0)
      ELSE IF IsWide(i) THEN [k EXCEPT !.regs.AW = n.quot, !.regs.DW = n.rem]
      ELSE [k EXCEPT !.regs.AW = Pair(n.quot, n.rem)]

Exceptions == {"BRK3", "BRK", "BRKV", "CHKIND"}
Breaks(k, i) ==
  LET index == GetReg(k.regs, "WORD", i.reg0)
      outside == FarOffset(k, i) > index \/ FarSegment(k, i) < index
  IN  CASE i.opcode = "BRK3" -> Enter(k, 3)
        [] i.opcode = "BRK"  -> Enter(k, i.imm[1])
        [] i.opcode = "BRKV" -> IF k.flags.V = 1 THEN Enter(k, 4) ELSE k
        [] i.opcode = "CHKIND" -> IF outside THEN Enter(k, 5) ELSE k

-----------------------------------------------------------------------------
(* Branches.  The target is worked out before a call pushes anything. *)
Far(i) == i.width = "DWORD"
Target(k, i) ==
  CASE i.opcode = "BR_REL" -> Word(k.pc + Source0(k, i))
    [] i.opcode = "BR_ABS" -> IF i.source0 = "IMM" THEN Imm(i) ELSE Source0(k, i)
TargetSegment(k, i) ==
  IF ~Far(i) THEN k.sregs.PS ELSE IF i.source0 = "IMM" THEN Imm2(i) ELSE FarSegment(k, i)
Saved(k, i) ==
  CASE i.push = {} -> <<>>
    [] i.push = {"PC"} -> <<k.pc>>
    [] i.push = {"PC", "PS"} -> <<k.sregs.PS, k.pc>>
Jump(k, i) ==
  [PushAll(k, Saved(k, i)) EXCEPT !.pc = Target(k, i), !.sregs.PS = TargetSegment(k, i)]

If(cond, k, i) == IF cond THEN [k EXCEPT !.pc = Word(@ + SignExtend(i.imm[1]))] ELSE k
Loop(k, i) ==
  LET counted == [k EXCEPT !.regs.CW = Word(@ - 1)]
      left == counted.regs.CW # 0
  IN  CASE i.cond = 0 -> If(left /\ k.flags.Z = 0, counted, i)
        [] i.cond = 1 -> If(left /\ k.flags.Z = 1, counted, i)
        [] i.cond = 2 -> If(left, counted, i)
        [] i.cond = 3 -> If(k.regs.CW = 0, k, i)

Return(k, i) ==
  LET near == PopPc(k)
      far  == IF "PS" \in i.pop THEN PopSreg(near, "PS") ELSE near
      all  == IF "PSW" \in i.pop THEN PopPsw(far) ELSE far
  IN  IF i.opcode = "RET" THEN all ELSE [all EXCEPT !.regs.SP = Word(@ + Imm(i))]

Branches == {"B_COND", "B_CW_COND", "BR_REL", "BR_ABS", "RET", "RET_POP_VALUE"}
Branch(k, i) ==
  CASE i.opcode = "B_COND"    -> If(Condition(i.cond, k.flags), k, i)
    [] i.opcode = "B_CW_COND" -> Loop(k, i)
    [] i.opcode \in {"BR_REL", "BR_ABS"} -> Jump(k, i)
    [] i.opcode \in {"RET", "RET_POP_VALUE"} -> Return(k, i)

-----------------------------------------------------------------------------
(* Stack instructions. *)
AllRegs == <<"AW", "CW", "DW", "BW", "SP", "BP", "IX", "IY">>
Pushed(k, i) ==
  LET name == CHOOSE x \in i.push : TRUE
  IN  CASE name = "OPERAND" -> Source0(k, i)
        [] name = "PSW" -> Psw(k.flags)
        [] name \in DOMAIN k.sregs -> k.sregs[name]
        [] OTHER -> k.regs[name]
Popped(k, i) ==
  LET name == CHOOSE x \in i.pop : TRUE
  IN  CASE name = "OPERAND" ->
             IF i.mod = 3 THEN PopReg(k, Reg16[i.rm + 1])
             ELSE Put(Dropped(k), OperandCell(k, i), TRUE, Top(k))
        [] name = "PSW" -> PopPsw(k)
        [] name \in DOMAIN k.sregs -> PopSreg(k, name)
        [] OTHER -> PopReg(k, name)

(* The value popped for SP is dropped. *)
PopRegs(k) ==
  FoldRight(LAMBDA name, acc : IF name = "SP" THEN Dropped(acc) ELSE PopReg(acc, name), AllRegs, k)

(* The old frame pointer, those of the enclosing frames counted down from   *)
(* it, and the new one.                                                     *)
PrepareFrame(k, i) ==
  LET level == i.imm[3] % 32
      bp    == k.regs.BP
      frame == Word(k.regs.SP - 2)
      outer == IF level < 2 THEN 0 ELSE level - 1
      full  == PushAll(k, <<bp>> \o [n \in 1 .. outer |-> Word(bp - (2 * n))]
                          \o IF level = 0 THEN <<>> ELSE <<frame>>)
  IN  [full EXCEPT !.regs.BP = frame, !.regs.SP = Word(@ - Imm(i))]

StackOps == {"PUSH", "PUSHR", "POP", "POPR", "PREPARE", "DISPOSE"}
StackOp(k, i) ==
  CASE i.opcode = "PUSH"  -> PushWord(k, Pushed(k, i))
    [] i.opcode = "PUSHR" -> PushAll(k, [n \in 1 .. 8 |-> k.regs[AllRegs[n]]])
    [] i.opcode = "POP"   -> Popped(k, i)
    [] i.opcode = "POPR"  -> PopRegs(k)
    [] i.opcode = "PREPARE" -> PrepareFrame(k, i)
    [] i.opcode = "DISPOSE" -> PopReg([k EXCEPT !.regs.SP = k.regs.BP], "BP")

-----------------------------------------------------------------------------
(* One element of a block instruction, and whether another one follows.     *)
Blocks == {"STM", "LDM", "MOVBK", "INM", "OUTM", "CMPBK", "CMPM"}
Element(k, i) ==
  LET r == k.regs
      step == IF IsWide(i) THEN 2 ELSE 1
      Next(n) == Word(IF k.flags.DIR = 1 THEN n - step ELSE n + step)
      wide == IsWide(i)
      Sourced == Load(k, i.segment, r.IX, i.width)
      Dest    == Load(k, "DS1", r.IY, i.width)
      Compared(a, b) == AluFlags("CMP", Cut(a, wide), b, wide, k.flags)
  IN  CASE i.opcode = "STM"   -> [Save(k, "DS1", r.IY, i.width, r.AW) EXCEPT !.regs.IY = Next(@)]
        [] i.opcode = "LDM"   -> [k EXCEPT !.regs = [SetAcc(r, i.width, Sourced) EXCEPT !.IX = Next(@)]]
        [] i.opcode = "MOVBK" -> [Save(k, "DS1", r.IY, i.width, Sourced)
                                    EXCEPT !.regs.IX = Next(@), !.regs.IY = Next(@)]
        [] i.opcode = "INM"   -> [Save(k, "DS1", r.IY, i.width, Get(k, <<"io", r.DW>>, wide))
                                    EXCEPT !.regs.IY = Next(@)]
        [] i.opcode = "OUTM"  -> [Put(k, <<"io", r.DW>>, wide, Sourced) EXCEPT !.regs.IX = Next(@)]
        [] i.opcode = "CMPBK" -> [k EXCEPT !.flags = Compared(Sourced, Dest),
                                           !.regs.IX = Next(@), !.regs.IY = Next(@)]
        [] i.opcode = "CMPM"  -> [k EXCEPT !.flags = Compared(r.AW, Dest), !.regs.IY = Next(@)]

GoesOn(k, i) ==
  /\ k.regs.CW # 0
  /\ i.opcode \in {"CMPBK", "CMPM"} =>
       CASE i.rep = "NZ" -> k.flags.Z = 0
         [] i.rep = "Z"  -> k.flags.Z = 1
         [] i.rep = "NC" -> k.flags.CY = 0
         [] i.rep = "C"  -> k.flags.CY = 1

Block(k, i, start) ==
  IF i.rep = "NONE" THEN Element(k, i)
  ELSE IF k.regs.CW = 0 THEN k
  ELSE LET one == Element([k EXCEPT !.regs.CW = @ - 1], i)
       IN  IF GoesOn(one, i) THEN [one EXCEPT !.pc = start] ELSE one

-----------------------------------------------------------------------------
(* CL packed decimal digits, two at a time from the low address up. *)
DecimalOps == {"ADD4S", "SUB4S", "CMP4S"}
DecimalStep(k, i, n) ==
  LET a == Load(k, "DS1", k.regs.IY + n, "BYTE")
      b == ByteOf(Load(k, i.segment, k.regs.IX + n, "BYTE") + k.flags.CY)
      d == DecimalByte(i.opcode, a, b)
      f == [k EXCEPT !.flags.CY = d.carry, !.flags.Z = IF d.byte = 0 THEN @ ELSE 0]
  IN  IF i.opcode = "CMP4S" THEN f ELSE Save(f, "DS1", k.regs.IY + n, "BYTE", d.byte)
Decimal(k, i) ==
  FoldLeft(LAMBDA acc, n : DecimalStep(acc, i, n - 1),
           [k EXCEPT !.flags.Z = 1, !.flags.CY = 0],
           [n \in 1 .. ByteOf(k.regs.CW) \div 2 |-> n])

(* A bit field of Source1 + 1 bits at bit Source0 from IX or IY on.  The    *)
(* next field's position goes to the register that held this one's.         *)
Fields == {"EXT", "INS"}
Field(k, i) ==
  LET a == Source0(k, i)
      size == Source1(k, i) % 16
      index == IF i.opcode = "EXT" THEN "IX" ELSE "IY"
      seg == IF i.opcode = "EXT" THEN i.segment ELSE "DS1"
      at == k.regs[index] + ((a \div 8) % 4)
      shift == a % 8
      width == FieldWidth(shift, size)
      mask == FieldMask(size)
      old == Load(k, seg, at, width)
      new == Inserted(old, k.regs.AW, shift, Word(mask * 2^shift))
      end == ByteOf(ByteOf(a) + size + 1)
      value == IF i.opcode = "EXT" THEN [k EXCEPT !.regs.AW = Extracted(old, shift, mask)]
               ELSE Save(k, seg, at, width, new)
      moved == IF end > 15 THEN [value EXCEPT !.regs[index] = Word(@ + 2)] ELSE value
  IN  Deliver(moved, i, Long(0, IF end > 15 THEN end - 16 ELSE end), <<>>)

-----------------------------------------------------------------------------
Execute(k, i) ==
  LET n == [k EXCEPT !.pc = i.end_pc]
  IN  CASE i.opcode \in Computes -> Compute(n, i)
        [] i.opcode = "XCH"      -> Exchange(n, i)
        [] i.opcode = "MOV_SEG"  -> LoadFar(n, i)
        [] i.opcode \in FlagOps  -> FlagOp(n, i.opcode)
        [] i.opcode \in AccOps   -> AccOp(n, i)
        [] i.opcode \in {"DIV", "DIVU"} -> Divides(n, i)
        [] i.opcode \in Exceptions -> Breaks(n, i)
        [] i.opcode \in Branches -> Branch(n, i)
        [] i.opcode \in StackOps -> StackOp(n, i)
        [] i.opcode \in Blocks   -> Block(n, i, k.pc)
        [] i.opcode \in DecimalOps -> Decimal(n, i)
        [] i.opcode \in Fields   -> Field(n, i)
        [] i.opcode \in {"NOP", "HALT"} -> n

Instruction == m' = Execute(m, InstructionAt(m.sregs.PS, m.pc))

Interrupt == m.flags.IE = 1 /\ \E vector \in Vectors : m' = Enter(m, vector)

(* A reset may cut an instruction short: memory keeps what was written.     *)
PowerOn(cells) ==
  [regs   |-> [n \in DOMAIN m.regs |-> 0],
   sregs  |-> [n \in DOMAIN m.sregs |-> IF n = "PS" THEN 65535 ELSE 0],
   flags  |-> [n \in DOMAIN m.flags |-> 0],
   pc |-> 0, store |-> cells]
Reset == m' = PowerOn(m'.store)

Next == Instruction \/ Interrupt \/ Reset
=============================================================================
