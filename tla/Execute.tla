------------------------------ MODULE Execute ------------------------------
(* The state EXECUTE of hdl/v33.sv: for each opcode what one step does when *)
(* the data port is free.  din is the word the port shows on this edge: it  *)
(* is the one that was read only if the read ends on this very edge.        *)
EXTENDS EuRegisters

Is(opcodes) == decoded.opcode \in opcodes
At(n) == t.exec_stage = n
Width == decoded.width
DinCut(din) == Cut(din, IsWide(decoded))

-----------------------------------------------------------------------------
(* One step. *)
Simple ==
  \/ Is({"NOP", "POPR", "B_COND", "B_CW_COND"}) /\ Done(regs, flags, <<>>, TRUE)
  \/ Is({"PUSH", "PUSHR", "POP", "ALU", "INVALID"}) /\ Done(regs, flags, <<>>, FALSE)
  \/ Is({"MOV"})     /\ Done(regs, flags, [op_result |-> t.ta], FALSE)
  \/ Is({"LDEA"})    /\ Done(regs, flags, [op_result |-> t.calculated_ea], TRUE)
  \/ Is({"HALT"})    /\ Done(regs, flags, [halt |-> TRUE], FALSE)
  \/ Is({"XCH"})     /\ Done(SetReg(regs, Width, decoded.reg0, t.tb), flags,
                             [op_result |-> t.ta], TRUE)

FlagOps ==
  LET To(f) == Done(regs, f, <<>>, FALSE)
  IN  \/ Is({"NOT1_CY"})  /\ To([flags EXCEPT !.CY = 1 - @])
      \/ Is({"CLR1_CY"})  /\ To([flags EXCEPT !.CY = 0])
      \/ Is({"SET1_CY"})  /\ To([flags EXCEPT !.CY = 1])
      \/ Is({"DI"})       /\ To([flags EXCEPT !.IE = 0])
      \/ Is({"EI"})       /\ To([flags EXCEPT !.IE = 1])
      \/ Is({"CLR1_DIR"}) /\ To([flags EXCEPT !.DIR = 0])
      \/ Is({"SET1_DIR"}) /\ To([flags EXCEPT !.DIR = 1])
      \/ Is({"MOV_PSW_AH"}) /\ To(SetFlags(flags, ArithmeticFlags, High(regs.AW)))

AccOps ==
  LET To(r) == Done(r, flags, <<>>, FALSE)
      al == ByteOf(regs.AW)
  IN  \/ Is({"CVTWL"}) /\ To([regs EXCEPT !.DW = IF regs.AW > 32767 THEN 65535 ELSE 0])
      \/ Is({"CVTBW"}) /\ To([regs EXCEPT !.AW = SignExtend(al)])
      \/ Is({"MOV_AH_PSW"}) /\ To([regs EXCEPT !.AW = Pair(al, ByteOf(Psw(flags)))])

(* Digits of AL and AH to a byte; the immediate byte is not used. *)
Cvtdb ==
  LET v == ByteOf(ByteOf(regs.AW) + (High(regs.AW) * 10))
  IN  Is({"CVTDB"}) /\ Done([regs EXCEPT !.AW = v], Signs(v, FALSE) @@ flags, <<>>, TRUE)

MovSeg ==
  /\ Is({"MOV_SEG"})
  /\ regs' = SetReg(regs, "WORD", decoded.reg0, t.ta)
  /\ SetSreg(decoded.sreg, t.tb)
  /\ Store(TRUE)
  /\ NoRequest /\ UNCHANGED <<next_pc, flags, decoded, t>>

Multiply ==
  LET n == Product(decoded.opcode = "MUL", Width, t.ta, t.tb)
      large == Flag(UpperHalf(Width, n) # 0)
  IN  /\ Is({"MUL", "MULU"})
      /\ Done(regs, [flags EXCEPT !.CY = large, !.V = large],
              [op_result |-> n.low, op_result_high |-> n.high], TRUE)

Rotate4 ==
  LET al   == regs.AW % 16
      low  == t.ta % 16
      high == ByteOf(t.ta) \div 16
      To(digit, res) == Done([regs EXCEPT !.AW = @ - al + digit], flags, [op_result |-> res], TRUE)
  IN  \/ Is({"ROL4"}) /\ To(high, (16 * low) + al)
      \/ Is({"ROR4"}) /\ To(low, (16 * al) + high)

(* Exceptions. *)
Breaks ==
  \/ Is({"BRK3"}) /\ Raise(3)
  \/ Is({"BRK"})  /\ Raise(decoded.imm[1])
  \/ Is({"BRKV"}) /\ flags.V = 1 /\ Raise(4)
  \/ Is({"BRKV"}) /\ flags.V = 0 /\ Done(regs, flags, <<>>, FALSE)

Chkind ==
  LET index == GetReg(regs, "WORD", decoded.reg0)
      outside == t.ta > index \/ t.tb < index
  IN  Is({"CHKIND"}) /\ IF outside THEN Raise(5) ELSE Done(regs, flags, <<>>, TRUE)

-----------------------------------------------------------------------------
(* One shift a step.  The count is a byte of the second operand. *)
ShiftOnce(f) == Shift(decoded.shift, Width = "WORD", t.ta, f)
ShiftResult  == [op_result |-> ShiftOnce(flags).result, ta |-> ShiftOnce(flags).result]
Shifts ==
  \/ /\ Is({"SHIFT1"})
     /\ Done(regs, ShiftOnce(flags).flags @@ flags, ShiftResult, FALSE)
  \/ /\ Is({"SHIFT"}) /\ t.shift_count # ByteOf(t.tb)
     /\ Set(ShiftResult @@ [shift_count |-> ByteOf(t.shift_count + 1), delayed |-> FALSE])
     /\ flags' = [V |-> flags.V] @@ ShiftOnce(flags).flags @@ flags
     /\ Stay /\ NoRequest /\ UNCHANGED regs
  \/ /\ Is({"SHIFT"}) /\ t.shift_count = ByteOf(t.tb)
     /\ Done(regs, flags, <<>>, TRUE)

(* The divider: operands out, then its answer. *)
Operands ==
  LET signed == Is({"DIV"})
      high == IF IsWide(decoded) THEN regs.DW
              ELSE IF signed /\ regs.AW > 32767 THEN 65535 ELSE 0
      byte == ByteOf(t.ta)
  IN  [signed |-> signed, wide |-> IsWide(decoded), num |-> Long(high, regs.AW),
       denom |-> IF IsWide(decoded) THEN t.ta ELSE IF signed THEN SignExtend(byte) ELSE byte]
Digits == [signed |-> FALSE, wide |-> FALSE, num |-> Long(0, ByteOf(regs.AW)), denom |-> 10]

Start(operands) ==
  /\ At(0) /\ Set([div |-> operands] @@ Stage(1, TRUE))
  /\ Stay /\ NoRequest /\ UNCHANGED <<regs, flags>>
NotDone(div_done) ==
  /\ ~At(0) /\ ~div_done /\ Set([delayed |-> FALSE])
  /\ Stay /\ NoRequest /\ UNCHANGED <<regs, flags>>
Answer == Divide(t.div.signed, t.div.wide, t.div.num, t.div.denom)

Division(div_done) ==
  \/ Is({"DIV", "DIVU"}) /\ Start(Operands)
  \/ Is({"CVTBD"}) /\ Start(Digits)
  \/ Is({"DIV", "DIVU", "CVTBD"}) /\ NotDone(div_done)
  \/ /\ Is({"DIV", "DIVU"}) /\ ~At(0) /\ div_done
     /\ IF Answer.fault THEN Raise(0)
        ELSE IF IsWide(decoded)
        THEN Done([regs EXCEPT !.AW = Answer.quot, !.DW = Answer.rem], flags, <<>>, FALSE)
        ELSE Done([regs EXCEPT !.AW = Pair(Answer.quot, Answer.rem)], flags, <<>>, FALSE)
  \/ /\ Is({"CVTBD"}) /\ ~At(0) /\ div_done
     /\ LET aw == Pair(Answer.rem, Answer.quot)
        IN  Done([regs EXCEPT !.AW = aw],
                 [Z |-> Flag(aw = 0)] @@ Signs(Answer.rem, FALSE) @@ flags, <<>>, FALSE)

-----------------------------------------------------------------------------
(* Block transfers. *)
NothingLeft == Exhausted /\ At(0) /\ Done(regs, flags, <<>>, Is({"STM"}))
Move(names) == Moved(regs, names)

Stm(intreq) ==
  /\ Is({"STM"}) /\ ~Exhausted
  /\ WriteMemory(regs.IY, "DS1", Width, regs.AW, FALSE)
  /\ regs' = Counted(Move({"IY"}))
  /\ Set([delayed |-> TRUE])
  /\ EndElement(Repeated /\ regs.CW # 1, TRUE, intreq)
  /\ UNCHANGED flags

(* LDM counts an element before it reads it, the first one in stage 0. *)
Ldm(din, intreq) ==
  \/ /\ Is({"LDM"}) /\ At(0) /\ ~Exhausted
     /\ regs' = Counted(regs) /\ Set(Stage(1, FALSE))
     /\ Stay /\ NoRequest /\ UNCHANGED flags
  \/ /\ Is({"LDM"}) /\ At(1)
     /\ ReadMemory(regs.IX, decoded.segment, Width, FALSE)
     /\ Set(Stage(2, FALSE)) /\ Stay /\ UNCHANGED <<regs, flags>>
  \/ /\ Is({"LDM"}) /\ At(2)
     /\ LET loaded == SetAcc(Move({"IX"}), Width, din)
            again  == Repeated /\ regs.CW # 0
        IN  /\ regs' = IF again THEN Counted(loaded) ELSE loaded
            /\ Set(Stage(1, ~again)) /\ EndElement(again, TRUE, intreq)
     /\ NoRequest /\ UNCHANGED flags

(* The others read in stage 0 and write in stage 1. *)
ReadSource ==
  CASE Is({"MOVBK", "CMPBK"}) -> ReadMemory(regs.IX, decoded.segment, Width, FALSE)
    [] Is({"CMPM"}) -> ReadMemory(regs.IY, "DS1", Width, FALSE)
    [] Is({"INM"})  -> ReadMemory(regs.DW, decoded.segment, Width, TRUE)
    [] Is({"OUTM"}) -> ReadMemory(regs.IX, decoded.segment, Width, FALSE)
FirstRead ==
  /\ Is({"MOVBK", "CMPBK", "CMPM", "INM", "OUTM"}) /\ At(0) /\ ~Exhausted
  /\ ReadSource /\ regs' = Counted(regs)
  /\ Set(Stage(1, FALSE)) /\ Stay /\ UNCHANGED flags

WriteElement(din, intreq) ==
  /\ Is({"MOVBK", "INM", "OUTM"}) /\ At(1)
  /\ IF Is({"OUTM"}) THEN WriteMemory(regs.DW, "DS1", Width, din, TRUE)
     ELSE WriteMemory(regs.IY, "DS1", Width, din, FALSE)
  /\ regs' = Move(CASE Is({"MOVBK"}) -> {"IX", "IY"} [] Is({"INM"}) -> {"IY"} [] Is({"OUTM"}) -> {"IX"})
  /\ Set(Stage(0, TRUE))
  /\ EndElement(Repeated /\ regs.CW # 0, TRUE, intreq)
  /\ UNCHANGED flags

(* The comparison is worked out by the arithmetic unit one step before it   *)
(* is looked at; the repeat prefix says which result goes on.               *)
Compare(a, b) == [ta |-> a, tb |-> b, alu_operation |-> "CMP", alu_wide |-> Width = "WORD"]
GoesOn ==
  /\ Repeated /\ regs.CW # 0
  /\ CASE decoded.rep = "NZ" -> AluFlagsOut.Z = 0
       [] decoded.rep = "Z"  -> AluFlagsOut.Z = 1
       [] decoded.rep = "NC" -> AluFlagsOut.CY = 0
       [] decoded.rep = "C"  -> AluFlagsOut.CY = 1
Compares(din, intreq) ==
  \/ /\ Is({"CMPBK"}) /\ At(1)
     /\ ReadMemory(regs.IY, "DS1", Width, FALSE) /\ regs' = Move({"IX", "IY"})
     /\ Set([ta |-> DinCut(din)] @@ Stage(2, FALSE)) /\ Stay /\ UNCHANGED flags
  \/ /\ Is({"CMPBK"}) /\ At(2)
     /\ Set(Compare(t.ta, DinCut(din)) @@ Stage(3, FALSE))
     /\ Stay /\ NoRequest /\ UNCHANGED <<regs, flags>>
  \/ /\ Is({"CMPM"}) /\ At(1)
     /\ regs' = Move({"IY"})
     /\ Set(Compare(Cut(regs.AW, IsWide(decoded)), DinCut(din)) @@ Stage(2, FALSE))
     /\ Stay /\ NoRequest /\ UNCHANGED flags
  \/ /\ \/ Is({"CMPBK"}) /\ At(3)
        \/ Is({"CMPM"}) /\ At(2)
     /\ flags' = AluFlagsOut
     /\ Set(Stage(0, Is({"CMPBK"}))) /\ EndElement(GoesOn, Is({"CMPBK"}), intreq)
     /\ NoRequest /\ UNCHANGED regs

BlockTransfers(din, intreq) ==
  \/ Is({"STM", "LDM", "MOVBK", "CMPBK", "CMPM", "INM", "OUTM"}) /\ NothingLeft
  \/ Stm(intreq) \/ Ldm(din, intreq) \/ FirstRead \/ WriteElement(din, intreq)
  \/ Compares(din, intreq)

-----------------------------------------------------------------------------
(* Stack frames. *)
Below == Word(regs.SP - 2)
PushWord(v, r, changes) ==
  /\ WriteMemory(Below, "SS", "WORD", v, FALSE)
  /\ regs' = [r EXCEPT !.SP = Below] /\ Set(changes)
  /\ Stay /\ UNCHANGED flags

Prepare ==
  LET level == decoded.imm[3] % 32
      bp2   == Word(regs.BP - 2)
      deeper == t.prepare_nesting_level > 2
  IN  /\ Is({"PREPARE"})
      /\ \/ /\ At(0)
            /\ PushWord(regs.BP, regs,
                 [prepare_nesting_level |-> level, prepare_sp_save |-> Below]
                 @@ Stage(IF level = 0 THEN 3 ELSE IF level = 1 THEN 2 ELSE 1, TRUE))
         \/ /\ At(1)   \* BP - 2 itself goes to the stack, not the word there
            /\ PushWord(bp2, [regs EXCEPT !.BP = bp2],
                 [prepare_nesting_level |-> (t.prepare_nesting_level - 1) % 32]
                 @@ Stage(IF deeper THEN 1 ELSE 2, deeper))
         \/ At(2) /\ PushWord(t.prepare_sp_save, regs, Stage(3, TRUE))
         \/ /\ At(3)
            /\ Done([regs EXCEPT !.BP = t.prepare_sp_save, !.SP = Word(@ - Imm(decoded))],
                    flags, <<>>, FALSE)

Dispose(din) ==
  \/ /\ Is({"DISPOSE"}) /\ At(0)
     /\ ReadMemory(regs.BP, "SS", "WORD", FALSE)
     /\ regs' = [regs EXCEPT !.SP = Word(regs.BP + 2)]
     /\ Set(Stage(1, FALSE)) /\ Stay /\ UNCHANGED flags
  \/ Is({"DISPOSE"}) /\ At(1) /\ Done([regs EXCEPT !.BP = din], flags, <<>>, TRUE)

(* A step that changes temporaries only, and one that reads. *)
Note(changes, n, delay) ==
  Set(changes @@ Stage(n, delay)) /\ Stay /\ NoRequest /\ UNCHANGED <<regs, flags>>
ReadThen(n, addr, seg, width) ==
  /\ ReadMemory(addr, seg, width, FALSE)
  /\ Set(Stage(n, FALSE)) /\ Stay /\ UNCHANGED <<regs, flags>>

Trans(din) ==
  \/ Is({"TRANS"}) /\ At(0) /\ Note(<<>>, 1, FALSE)
  \/ /\ Is({"TRANS"}) /\ At(1)
     /\ ReadThen(2, regs.BW + ByteOf(regs.AW), decoded.segment, "BYTE")
  \/ Is({"TRANS"}) /\ At(2) /\ Done(SetAcc(regs, "BYTE", din), flags, <<>>, FALSE)

-----------------------------------------------------------------------------
(* Strings of packed decimal digits, CL of them, from the low byte up.      *)
(* Registers of a digit and its carry have five bits.  The low digit of a   *)
(* difference is corrected as that of a sum.                                *)
DecimalOps == {"ADD4S", "SUB4S", "CMP4S"}
Adding == Is({"ADD4S"})
Combine(a, b) == (IF Adding THEN a + b ELSE a - b) % 32
LowWrong    == t.bcd_low > 9
DecimalLow  == (IF LowWrong THEN t.bcd_low + 6 ELSE t.bcd_low) % 16
HighCarried == (IF LowWrong THEN t.bcd_high + 1 ELSE t.bcd_high) % 32
HighWrong   == HighCarried > 9
DecimalHigh == (IF ~HighWrong THEN HighCarried
                ELSE IF Adding THEN HighCarried + 6 ELSE HighCarried - 6) % 16
WithFlags(f) == flags' = f @@ flags /\ UNCHANGED regs

Decimals(din) ==
  /\ Is(DecimalOps)
  /\ \/ /\ At(0)
        /\ Set([bcd_offset |-> 0] @@ Stage(1, FALSE))
        /\ WithFlags([Z |-> 1, CY |-> 0]) /\ Stay /\ NoRequest
     \/ /\ At(1) /\ t.bcd_offset = ByteOf(regs.CW) \div 2
        /\ Done(regs, flags, <<>>, FALSE)
     \/ /\ At(1) /\ t.bcd_offset # ByteOf(regs.CW) \div 2
        /\ ReadThen(2, regs.IX + t.bcd_offset, decoded.segment, "BYTE")
     \/ /\ At(2)
        /\ ReadMemory(regs.IY + t.bcd_offset, "DS1", "BYTE", FALSE)
        /\ Set([bcd_src |-> ByteOf(din + flags.CY)] @@ Stage(3, FALSE))
        /\ WithFlags([CY |-> 0]) /\ Stay
     \/ /\ At(3)
        /\ Note([bcd_low  |-> Combine(din % 16, t.bcd_src % 16),
                 bcd_high |-> Combine(ByteOf(din) \div 16, t.bcd_src \div 16)], 4, FALSE)
     \/ /\ At(4)
        /\ Set([bcd_acc |-> (16 * DecimalHigh) + DecimalLow] @@ Stage(5, TRUE))
        /\ WithFlags(IF HighWrong THEN [CY |-> 1] ELSE <<>>) /\ Stay /\ NoRequest
     \/ /\ At(5)
        /\ IF Is({"CMP4S"}) THEN NoRequest
           ELSE WriteMemory(regs.IY + t.bcd_offset, "DS1", "BYTE", t.bcd_acc, FALSE)
        /\ Set([bcd_offset |-> (t.bcd_offset + 1) % 128] @@ Stage(1, Is({"CMP4S"})))
        /\ WithFlags(IF t.bcd_acc # 0 THEN [Z |-> 0] ELSE <<>>) /\ Stay

-----------------------------------------------------------------------------
(* Bit fields: TA is the bit offset, TB the length less one.                *)
Offset == t.ta % 8
Length == t.tb % 16
FieldAt(index) == Word(index + ((t.ta \div 8) % 4))
NextOffset == ByteOf(ByteOf(t.ta) + Length + 1)
FieldDone(index, r) ==
  LET crosses == NextOffset > 15
  IN  Done(IF crosses THEN [r EXCEPT ![index] = Word(@ + 2)] ELSE r, flags,
           [op_result |-> IF crosses THEN NextOffset - 16 ELSE NextOffset], FALSE)

Ext(din) ==
  /\ Is({"EXT"})
  /\ \/ At(0) /\ Note([bitfield_addr |-> FieldAt(regs.IX),
                        bitfield_width |-> FieldWidth(Offset, Length),
                        bitfield_mask |-> FieldMask(Length)], 1, FALSE)
     \/ At(1) /\ ReadThen(2, t.bitfield_addr, decoded.segment, t.bitfield_width)
     \/ At(2) /\ FieldDone("IX", [regs EXCEPT !.AW = Extracted(din, Offset, t.bitfield_mask)])

Ins(din) ==
  /\ Is({"INS"})
  /\ \/ At(0) /\ Note([bitfield_addr |-> FieldAt(regs.IY),
                        bitfield_width |-> FieldWidth(Offset, Length),
                        bitfield_mask |-> Word(FieldMask(Length) * 2^Offset)], 1, FALSE)
     \/ At(1) /\ ReadThen(2, t.bitfield_addr, "DS1", t.bitfield_width)
     \/ At(2) /\ Note([bitfield_out |-> Inserted(din, regs.AW, Offset, t.bitfield_mask)], 3, FALSE)
     \/ /\ At(3)
        /\ WriteMemory(t.bitfield_addr, "DS1", t.bitfield_width, t.bitfield_out, FALSE)
        /\ Set(Stage(4, FALSE)) /\ Stay /\ UNCHANGED <<regs, flags>>
     \/ At(4) /\ FieldDone("IY", regs)

-----------------------------------------------------------------------------
Opcode(din, div_done, intreq) ==
  \/ Simple \/ FlagOps \/ AccOps \/ Cvtdb \/ MovSeg \/ Multiply \/ Rotate4
  \/ Breaks \/ Chkind \/ Shifts \/ Division(div_done)
  \/ BlockTransfers(din, intreq)
  \/ Prepare \/ Dispose(din) \/ Trans(din) \/ Decimals(din) \/ Ext(din) \/ Ins(din)
=============================================================================
