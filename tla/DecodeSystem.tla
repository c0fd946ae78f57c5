-------------------------- MODULE DecodeSystem --------------------------
(* The decoder between a prefetch queue that may be empty at any time and   *)
(* an execution unit that retires instructions, or jumps, at any time.  The *)
(* bytes are not fixed beforehand: every program over the given bytes is a  *)
(* behaviour.  One step is one clock edge on which ce_1 or ce_2 is high.    *)
EXTENDS NecDecode

CONSTANT
  Streams   \* the programs to tell apart, records of
            \*   first   : bytes an instruction may begin with,
            \*   further : bytes after a prefix or an illegal byte,
            \*   second  : bytes in the other states of the table,
            \*   lead    : bound on prefixes and illegal bytes before an instruction,
            \*   ops     : bound on instructions retired between two jumps,
            \*   targets : where jumps go

(* The queue delivers bytes, and next_pc is a register of the width of an   *)
(* offset.                                                                  *)
ASSUME StreamsAssumption ==
  \A s \in Streams :
    s.first \cup s.further \cup s.second \subseteq AnyByte /\ s.targets \subseteq Offsets

VARIABLE stream

(* Execution unit: set_pc lasts one edge. *)
VARIABLES phase, set_pc, next_pc

(* History. *)
VARIABLES taken,  \* the bytes of the instruction in flight
          ops     \* instructions retired since the last jump

vars == <<decodeVars, stream, phase, set_pc, next_pc, taken, ops>>

WantsOperand == state = "TERMINAL" /\ ~OperandsRead

(* Operand bytes are told apart by their place in the instruction. *)
Offered ==
  IF WantsOperand THEN {Len(taken)}
  ELSE IF state \in {"INITIAL", "TERMINAL"} THEN stream.first
  ELSE IF state \in {"PREFIX_CONTINUE", "ILLEGAL"}
    THEN IF Len(taken) < stream.lead + 1 THEN stream.further ELSE {}
  ELSE stream.second

Log(q) == taken' = Append(taken, q)

JumpEdge == set_pc /\ FollowJump(next_pc) /\ taken' = <<>> /\ ops' = 0

(* The decoder on ce_1 when set_pc is low. *)
ByteEdge == \E q \in Offered :
  /\ WithByte(q, FALSE)
  /\ IF pc' = pc THEN UNCHANGED taken ELSE Log(q)
  /\ UNCHANGED ops

EmptyEdge == WithoutByte(FALSE) /\ UNCHANGED <<taken, ops>>

RetireEdge ==
  /\ Valid(set_pc) /\ ops < stream.ops
  /\ \/ WithoutByte(TRUE) /\ taken' = <<>>
     \/ \E q \in Offered : WithByte(q, TRUE) /\ taken' = <<q>>
  /\ ops' = ops + 1

(* On ce_2 the decoder only looks at set_pc. *)
SecondEdge == UNCHANGED <<decodeVars, taken, ops>>

EuEdge == \/ set_pc' = FALSE /\ UNCHANGED next_pc
          \/ set_pc' = TRUE /\ next_pc' \in stream.targets

Next ==
  /\ IF set_pc THEN JumpEdge
     ELSE IF phase = 1 THEN ByteEdge \/ EmptyEdge \/ RetireEdge
     ELSE SecondEdge
  /\ EuEdge
  /\ phase' = 3 - phase
  /\ UNCHANGED stream

(* The reset of the core asserts set_pc; no reset reaches the decoder's own *)
(* registers.                                                               *)
Fields == NoOperation ++
  [pc |-> 0, end_pc |-> 0, width |-> "BYTE", rm |-> 0, reg0 |-> 0, reg1 |-> 0,
   sreg |-> "DS1", cond |-> 0, shift |-> "ROL",
   disp |-> <<0, 0>>, imm |-> <<0, 0, 0, 0>>]

Init ==
  /\ stream \in Streams
  /\ phase \in {1, 2} /\ set_pc = TRUE /\ next_pc = 0
  /\ state = "INITIAL" /\ d = Fields /\ pc = 0 /\ disp_read = 0 /\ imm_read = 0
  /\ taken = <<>> /\ ops = 0

Spec == Init /\ [][Next]_vars

-----------------------------------------------------------------------------
(* What the execution unit reads of an instruction. *)
Operands(i)  == {i.source0, i.source1, i.dest}
IoOperands   == {"IO_DIRECT", "IO_INDIRECT"}
UsesMemory(i) ==   \* calc_ea, read_memory, write_memory
  \/ "MODRM" \in Operands(i) /\ i.mod # 3

OperandFields(operand) ==
  CASE operand \in {"ACC", "IMM", "PRODUCT"} \cup IoOperands -> {"width"}
    [] operand = "MODRM" -> {"width", "mod", "rm"}
    [] operand = "REG_0" -> {"width", "reg0"}
    [] operand = "REG_1" -> {"width", "reg1"}
    [] operand = "SREG"  -> {"width", "sreg"}
    [] OTHER -> {}

OpcodeFields(opcode) ==
  CASE opcode = "MOV_SEG" -> {"reg0", "sreg"}
    [] opcode = "XCH"     -> {"width", "reg0"}
    [] opcode \in {"STM", "LDM", "MOVBK", "INM", "OUTM", "CMPBK", "CMPM"} ->
         {"width", "rep", "segment"}
    [] opcode \in {"SHIFT", "SHIFT1"} -> {"width", "shift"}
    [] opcode \in {"DIV", "DIVU", "MUL", "MULU", "BR_ABS"} -> {"width"}
    [] opcode = "ALU"     -> {"width", "alu_operation"}
    [] opcode = "CHKIND"  -> {"reg0"}
    [] opcode \in {"B_COND", "B_CW_COND"} -> {"cond"}
    [] OTHER -> {}

Dispatch == {"opcode", "opclass", "mem_read", "mem_write", "io", "push", "pop",
             "buslock", "source0", "source1", "dest"}
FieldsRead(i) ==
  Dispatch \cup OpcodeFields(i.opcode) \cup (UNION {OperandFields(x) : x \in Operands(i)})
  \cup (IF UsesMemory(i) THEN {"segment"} ELSE {})

DispRead(i) ==
  IF "IO_DIRECT" \in Operands(i) THEN 1
  ELSE IF ~UsesMemory(i) THEN 0
  ELSE IF i.mod = 0 THEN IF i.rm = 6 THEN 2 ELSE 0
  ELSE i.mod

ImmRead(i) ==
  IF i.opcode = "PREPARE" THEN 3
  ELSE IF i.opcode = "BR_ABS" /\ i.source0 = "IMM" /\ i.width = "DWORD" THEN 4
  ELSE IF "IMM" \in Operands(i) THEN IF i.width = "BYTE" THEN 1 ELSE 2
  ELSE IF Operands(i) \cap {"IMM8", "IMM_EXT"} # {} THEN 1
  ELSE 0

-----------------------------------------------------------------------------
(* The instruction the bytes stand for by themselves, read up to the last   *)
(* byte that the table asks for.                                            *)
Nothing == [state |-> "INITIAL", fields |-> <<>>, size |-> 0]
ReadOn(i, q) ==
  LET e == ProcessDecode(i.state, q, i.fields ++ NoOperation)
  IN  IF i.state = "TERMINAL" THEN i
      ELSE [state |-> e.next, fields |-> e.fields ++ i.fields, size |-> i.size + 1]
Alone(bytes) ==
  LET after[n \in 0 .. Len(bytes)] == IF n = 0 THEN Nothing ELSE ReadOn(after[n - 1], bytes[n])
  IN  after[Len(bytes)]

(* reset_decode leaves a dozen fields as the instruction before set them.   *)
(* Every field the execution unit reads of a valid instruction was set by   *)
(* the instruction's own bytes, or is what reset_decode made it.            *)
OwnFields ==
  Valid(set_pc) =>
    LET own == Alone(taken).fields
    IN  \A f \in FieldsRead(d) :
          /\ f \in DOMAIN own \cup DOMAIN NoOperation
          /\ d[f] = (own ++ NoOperation)[f]

(* A valid instruction is the opcode bytes, the displacement and the        *)
(* immediate, in this order and in consecutive locations, and no byte of    *)
(* disp or imm is read that it did not bring.                               *)
OwnOperands ==
  Valid(set_pc) =>
    LET opcodeSize == Alone(taken).size
    IN  /\ taken = SubSeq(taken, 1, opcodeSize) \o SubSeq(d.disp, 1, d.disp_size)
                   \o SubSeq(d.imm, 1, ImmSize)
        /\ d.end_pc = pc /\ pc = OffsetPlus(d.pc, Len(taken))
        /\ DispRead(d) <= d.disp_size /\ ImmRead(d) <= ImmSize

(* The execution unit fetches and writes back memory operands by the flags  *)
(* mem_read and mem_write alone, and has one address for both: they must    *)
(* agree with the operands.                                                 *)
Outside(i, x) == x \in IoOperands \/ (x = "MODRM" /\ i.mod # 3)
FlagsAgree(i) ==
  /\ i.mem_read  <=> Outside(i, i.source0) \/ Outside(i, i.source1)
  /\ i.mem_write <=> Outside(i, i.dest)
  /\ i.io <=> Operands(i) \cap IoOperands # {}
MemoryFlags == Valid(set_pc) => FlagsAgree(d)

(* BRANCHING waits for ever on an opcode handle_branch does not know, and   *)
(* jumps to an old next_pc if it gives no target; EXECUTE does nothing for  *)
(* a branch; PUSH and POP each see one list.                                *)
RelativeOps == {"B_COND", "B_CW_COND", "BR_REL"}
ReturnOps   == {"RET", "RET_POP_VALUE"}
Servable(i) ==
  /\ i.opcode # "INVALID"
  /\ i.opclass = "BRANCH" <=> i.opcode \in RelativeOps \cup ReturnOps \cup {"BR_ABS"}
  /\ i.opcode = "BR_ABS" => i.width = "WORD" \/ (i.width = "DWORD" /\ i.source0 \in {"IMM", "MODRM"})
  /\ i.opcode \in ReturnOps <=> "PC" \in i.pop
  /\ i.push = {} \/ i.pop = {}
  /\ i.opcode \in {"PUSH", "PUSHR"} => i.push # {}
  /\ i.opcode \in {"POP", "POPR"} => i.pop # {}
Served == Valid(set_pc) => Servable(d)

(* The table's meaning does not depend on the order of its entries: no byte *)
(* matches two entries with as many x's.                                    *)
Unambiguous ==
  [][taken' = taken \/ taken' = <<>> \/ state = "TERMINAL" \/
     Cardinality(Best(state, taken'[Len(taken')], d)) <= 1]_vars

(* A valid instruction stays as it is until it is retired or a jump comes:  *)
(* the execution unit may take it any number of cycles later.               *)
ValidHeld ==
  [][Valid(set_pc) /\ ops' = ops /\ ~set_pc' => Valid(set_pc') /\ UNCHANGED d]_vars

(* No byte between two instructions is skipped or read twice: each begins   *)
(* where the one before ended, or at the target of the jump.                *)
InOrder ==
  [][d'.pc # d.pc => d'.pc = IF set_pc THEN next_pc ELSE d.end_pc]_vars

-----------------------------------------------------------------------------
(* opcodes.yaml:1055 calls 0F 31 with two registers "INS reg8, reg8"; the   *)
(* entry below that line makes it an EXT.                                   *)
InsRegReg ==
  Valid(set_pc) /\ Len(taken) = 3 /\ SubSeq(taken, 1, 2) = <<15, 49>> => d.opcode = "INS"
=============================================================================
