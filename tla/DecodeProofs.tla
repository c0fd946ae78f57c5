--------------------------- MODULE DecodeProofs ---------------------------
(* For every set of programs, whatever the queue and the execution unit do: *)
(* a valid instruction has the fields and the operand bytes of its own      *)
(* bytes and no others, is one the execution unit can serve, is held until  *)
(* it is taken, and begins where the one before ended.                      *)
(*                                                                          *)
(* The decoder keeps one record for all instructions.  The argument is that *)
(* it agrees, on the fields that the instruction in flight has set or that  *)
(* reset_decode clears, with what its bytes mean by themselves (Alone), and *)
(* that no entry of the table, the first part here, completes an            *)
(* instruction that reads a field outside of these.                         *)
EXTENDS DecodeSystem, Induction, SequenceTheorems

(* The instruction table, entry by entry: whatever the entry for a byte     *)
(* sets, an instruction that it completes is one the execution unit can     *)
(* take, and one that it does not complete is still without operands.       *)

(* Assignments to fields. *)
LEMMA MergeIs == ASSUME NEW f, NEW g PROVE f ++ g = Merged(f, g)
<1>1. {Merged(a, b) : a \in {f}, b \in {g}} = {Merged(f, g)}
  OBVIOUS
<1>2. (CHOOSE h \in {Merged(f, g)} : h = h) = Merged(f, g)
  OBVIOUS
<1> QED BY <1>1, <1>2 DEF ++

(* The fields of a merge, and their values: those of the left side first. *)
LEMMA MergeDomain == \A f, g : DOMAIN (f ++ g) = DOMAIN f \cup DOMAIN g
BY MergeIs DEF Merged
LEMMA MergeLeft == \A f, g : \A x \in DOMAIN f : (f ++ g)[x] = f[x]
BY MergeIs DEF Merged
LEMMA MergeRight == \A f, g : \A x \in DOMAIN g \ DOMAIN f : (f ++ g)[x] = g[x]
BY MergeIs DEF Merged
(* Nothing is assigned. *)
LEMMA MergeEmpty == \A f : <<>> ++ f = [x \in DOMAIN f |-> f[x]]
<1> TAKE f
<1>1. <<>> ++ f = [x \in DOMAIN <<>> \cup DOMAIN f |-> IF x \in DOMAIN <<>> THEN <<>>[x] ELSE f[x]]
  BY MergeIs DEF Merged
<1>2. DOMAIN <<>> = {} OBVIOUS
<1> QED BY <1>1, <1>2
(* Assignments may be grouped either way. *)
LEMMA MergeAssoc == \A f, g, h : (f ++ g) ++ h = f ++ (g ++ h)
<1> TAKE f, g, h
<1> DEFINE D == DOMAIN f \cup DOMAIN g \cup DOMAIN h
<1> DEFINE F == [x \in D |-> IF x \in DOMAIN f THEN f[x] ELSE IF x \in DOMAIN g THEN g[x] ELSE h[x]]
<1>1. (f ++ g) ++ h = F
  <2>1. (f ++ g) ++ h = [x \in DOMAIN (f ++ g) \cup DOMAIN h |-> IF x \in DOMAIN (f ++ g) THEN (f ++ g)[x] ELSE h[x]]
    BY MergeIs DEF Merged
  <2>2. DOMAIN (f ++ g) \cup DOMAIN h = D BY MergeDomain
  <2>3. ASSUME NEW x \in D PROVE (IF x \in DOMAIN (f ++ g) THEN (f ++ g)[x] ELSE h[x]) = F[x]
    <3>1. DOMAIN (f ++ g) = DOMAIN f \cup DOMAIN g BY MergeDomain
    <3>2. CASE x \in DOMAIN f
      <4>1. (f ++ g)[x] = f[x] BY <3>2, MergeLeft
      <4> QED BY <3>1, <3>2, <4>1
    <3>3. CASE x \notin DOMAIN f /\ x \in DOMAIN g
      <4>1. (f ++ g)[x] = g[x] BY <3>3, MergeRight
      <4> QED BY <3>1, <3>3, <4>1
    <3>4. CASE x \notin DOMAIN f /\ x \notin DOMAIN g BY <3>1, <3>4
    <3> QED BY <3>2, <3>3, <3>4
  <2> QED BY <2>1, <2>2, <2>3
<1>2. f ++ (g ++ h) = F
  <2>1. f ++ (g ++ h) = [x \in DOMAIN f \cup DOMAIN (g ++ h) |-> IF x \in DOMAIN f THEN f[x] ELSE (g ++ h)[x]]
    BY MergeIs DEF Merged
  <2>2. DOMAIN f \cup DOMAIN (g ++ h) = D
    <3>1. DOMAIN (g ++ h) = DOMAIN g \cup DOMAIN h BY MergeDomain
    <3> QED BY <3>1
  <2>3. ASSUME NEW x \in D PROVE (IF x \in DOMAIN f THEN f[x] ELSE (g ++ h)[x]) = F[x]
    <3>1. CASE x \in DOMAIN f BY <3>1
    <3>2. CASE x \notin DOMAIN f /\ x \in DOMAIN g
      <4>1. (g ++ h)[x] = g[x] BY <3>2, MergeLeft
      <4> QED BY <3>2, <4>1
    <3>3. CASE x \notin DOMAIN f /\ x \notin DOMAIN g
      <4>1. (g ++ h)[x] = h[x] BY <3>3, MergeRight
      <4> QED BY <3>3, <4>1
    <3> QED BY <3>1, <3>2, <3>3
  <2> QED BY <2>1, <2>2, <2>3
<1> QED BY <1>1, <1>2

-----------------------------------------------------------------------------
(* What an instruction must be for the execution unit, field by field: the  *)
(* conditions of MemoryFlags, Served, OwnOperands and OwnFields on a        *)
(* complete instruction i of which the fields S are set, in a form without  *)
(* helpers.                                                                 *)
Io == {"IO_DIRECT", "IO_INDIRECT"}
IsOperand(i, x) == i["source0"] = x \/ i["source1"] = x \/ i["dest"] = x
WidthRead == {"ACC", "IMM", "PRODUCT", "IO_DIRECT", "IO_INDIRECT", "MODRM", "REG_0", "REG_1", "SREG"}
WidthOps  == {"XCH", "STM", "LDM", "MOVBK", "INM", "OUTM", "CMPBK", "CMPM", "SHIFT", "SHIFT1",
              "DIV", "DIVU", "MUL", "MULU", "BR_ABS", "ALU"}

FlagsFit(i) ==
  /\ i["io"] <=> i["source0"] \in Io \/ i["source1"] \in Io \/ i["dest"] \in Io
  /\ i["mem_read"] <=> (\E x \in {i["source0"], i["source1"]} :
                          x \in Io \/ (x = "MODRM" /\ i["mod"] # 3))
  /\ i["mem_write"] <=> i["dest"] \in Io \/ (i["dest"] = "MODRM" /\ i["mod"] # 3)
OpFits(i) ==
  /\ i["opcode"] # "INVALID"
  /\ i["opclass"] = "BRANCH"
       <=> i["opcode"] \in {"B_COND", "B_CW_COND", "BR_REL", "RET", "RET_POP_VALUE", "BR_ABS"}
  /\ i["opcode"] = "BR_ABS"
       => i["width"] = "WORD" \/ (i["width"] = "DWORD" /\ i["source0"] \in {"IMM", "MODRM"})
  /\ i["opcode"] \in {"RET", "RET_POP_VALUE"} <=> "PC" \in i["pop"]
  /\ i["push"] = {} \/ i["pop"] = {}
  /\ i["opcode"] \in {"PUSH", "PUSHR"} => i["push"] # {}
  /\ i["opcode"] \in {"POP", "POPR"} => i["pop"] # {}
DispFits(i) ==
  \/ i["mod"] = 3 /\ i["disp_size"] = 0 /\ ~IsOperand(i, "IO_DIRECT")
  \/ i["mod"] = 3 /\ i["disp_size"] = 1
  \/ /\ i["mod"] \in 0 .. 3 /\ i["disp_size"] = CalcDispSize(i["rm"], i["mod"])
     /\ ~IsOperand(i, "IO_DIRECT")
ImmFits(i) ==
  /\ i["dest"] \notin {"IMM", "IMM8", "IMM_EXT"}
  /\ i["opcode"] = "PREPARE" => i["source0"] = "IMM" /\ i["width"] = "TRIPLE"
  /\ ~(i["source0"] \in {"IMM8", "IMM_EXT"} /\ i["source1"] = "IMM")
  /\ i["source0"] = "IMM" \/ i["source1"] = "IMM" => i["width"] \in {"BYTE", "WORD", "TRIPLE", "DWORD"}
Covers(i, S) ==
  /\ (\E x \in {i["source0"], i["source1"], i["dest"]} : x \in WidthRead) \/ i["opcode"] \in WidthOps
     => "width" \in S
  /\ IsOperand(i, "MODRM") => "rm" \in S
  /\ IsOperand(i, "REG_0") \/ i["opcode"] \in {"MOV_SEG", "XCH", "CHKIND"} => "reg0" \in S
  /\ IsOperand(i, "REG_1") => "reg1" \in S
  /\ IsOperand(i, "SREG") \/ i["opcode"] = "MOV_SEG" => "sreg" \in S
  /\ i["opcode"] \in {"B_COND", "B_CW_COND"} => "cond" \in S
  /\ i["opcode"] \in {"SHIFT", "SHIFT1"} => "shift" \in S
Sound(i, S) == FlagsFit(i) /\ OpFits(i) /\ DispFits(i) /\ ImmFits(i) /\ Covers(i, S)

(* Every field the execution unit reads of an instruction is one that the   *)
(* entry set.                                                               *)
LEMMA CoversReads ==
  ASSUME NEW i, NEW S, DOMAIN NoOperation \subseteq S, Covers(i, S)
  PROVE  FieldsRead(i) \subseteq S
<1>1. Dispatch \subseteq S /\ {"segment", "rep", "mod", "alu_operation"} \subseteq S
  BY DEF Dispatch, NoOperation
<1>2. OpcodeFields(i.opcode) \subseteq S
  BY <1>1 DEF OpcodeFields, Covers, WidthOps
<1>3. \A x \in Operands(i) : OperandFields(x) \subseteq S
  <2> TAKE x \in Operands(i)
  <2>1. IsOperand(i, x) BY DEF Operands, IsOperand
  <2>2. x \in WidthRead => "width" \in S BY <2>1 DEF IsOperand, Covers
  <2>3. (x = "MODRM" => "rm" \in S) /\ (x = "REG_0" => "reg0" \in S)
        /\ (x = "REG_1" => "reg1" \in S) /\ (x = "SREG" => "sreg" \in S)
    BY <2>1 DEF Covers
  <2> QED BY <1>1, <2>2, <2>3 DEF OperandFields, IoOperands, WidthRead
<1>4. ASSUME NEW f \in FieldsRead(i) PROVE f \in S
  BY <1>1, <1>2, <1>3 DEF FieldsRead
<1> QED BY <1>4

(* ImmSize and DispRead are enough for what the execution unit takes from   *)
(* imm and disp.                                                            *)
ImmOf(i) == LET first == ImmBytes(i.source0, i.width)
            IN  IF first > 0 THEN first ELSE ImmBytes(i.source1, i.width)

(* The immediate bytes that the execution unit reads are among those that   *)
(* the decoder fetches.                                                     *)
LEMMA ImmFitsReads ==
  ASSUME NEW i, ImmFits(i)
  PROVE  ImmOf(i) \in 0 .. 4 /\ ImmRead(i) <= ImmOf(i)
<1>1. WidthBytes["BYTE"] = 1 /\ WidthBytes["WORD"] = 2 /\ WidthBytes["TRIPLE"] = 3 /\ WidthBytes["DWORD"] = 4
  BY DEF WidthBytes
<1>2. \A x, w : ImmBytes(x, w) = IF x = "IMM" THEN WidthBytes[w] ELSE IF x \in {"IMM8", "IMM_EXT"} THEN 1 ELSE 0
  BY DEF ImmBytes
<1> DEFINE first == ImmBytes(i.source0, i.width)
           second == ImmBytes(i.source1, i.width)
<1>3. ImmOf(i) = IF first > 0 THEN first ELSE second BY DEF ImmOf
<1>4. first \in 0 .. 4 /\ second \in 0 .. 4 BY <1>1, <1>2 DEF ImmFits
<1>5. ImmRead(i) <= ImmOf(i)
  <2>1. CASE i.opcode = "PREPARE"
    <3>1. ImmRead(i) = 3 BY <2>1 DEF ImmRead
    <3> QED BY <3>1, <2>1, <1>1, <1>2, <1>3 DEF ImmFits
  <2>2. CASE i.opcode # "PREPARE" /\ i.opcode = "BR_ABS" /\ i.source0 = "IMM" /\ i.width = "DWORD"
    <3>1. ImmRead(i) = 4 BY <2>2 DEF ImmRead
    <3> QED BY <3>1, <2>2, <1>1, <1>2, <1>3 DEF ImmFits
  <2>3. CASE i.opcode # "PREPARE" /\ ~(i.opcode = "BR_ABS" /\ i.source0 = "IMM" /\ i.width = "DWORD")
             /\ "IMM" \in Operands(i)
    <3>1. ImmRead(i) = IF i.width = "BYTE" THEN 1 ELSE 2 BY <2>3 DEF ImmRead
    <3>2. i.source0 = "IMM" \/ i.source1 = "IMM" BY <2>3 DEF Operands, ImmFits
    <3> QED BY <3>1, <3>2, <1>1, <1>2, <1>3 DEF ImmFits
  <2>4. CASE i.opcode # "PREPARE" /\ "IMM" \notin Operands(i) /\ Operands(i) \cap {"IMM8", "IMM_EXT"} # {}
    <3>1. ImmRead(i) = 1 BY <2>4 DEF ImmRead, Operands
    <3>2. i.source0 \in {"IMM8", "IMM_EXT"} \/ i.source1 \in {"IMM8", "IMM_EXT"}
      BY <2>4 DEF Operands, ImmFits
    <3>3. i.source0 # "IMM" /\ i.source1 # "IMM" BY <2>4 DEF Operands
    <3> QED BY <3>1, <3>2, <3>3, <1>2, <1>3 
  <2>5. CASE i.opcode # "PREPARE" /\ "IMM" \notin Operands(i) /\ Operands(i) \cap {"IMM8", "IMM_EXT"} = {}
    <3>1. ImmRead(i) = 0 BY <2>5 DEF ImmRead, Operands
    <3> QED BY <3>1, <1>3, <1>4
  <2> QED BY <2>1, <2>2, <2>3, <2>4, <2>5
<1> QED BY <1>3, <1>4, <1>5

(* So are the displacement bytes. *)
LEMMA DispFitsReads ==
  ASSUME NEW i, DispFits(i)
  PROVE  i.disp_size \in 0 .. 2 /\ DispRead(i) <= i.disp_size
<1>1. \A r, m : m \in 0 .. 3 => CalcDispSize(r, m) = IF m = 0 THEN IF r = 6 THEN 2 ELSE 0 ELSE IF m = 3 THEN 0 ELSE m
  BY DEF CalcDispSize
<1>2. UsesMemory(i) => i.mod # 3 BY DEF UsesMemory
<1> QED BY <1>1, <1>2 DEF DispFits, DispRead, Operands, IsOperand

-----------------------------------------------------------------------------
(* The fields of an instruction that has no operands yet: Core, as          *)
(* reset_decode leaves them, and what looking up a field of an assignment   *)
(* gives.                                                                   *)
Core == {"opcode", "opclass", "dest", "source0", "source1", "mod", "mem_read", "mem_write",
         "io", "push", "pop", "disp_size"}
Fresh(k) == Core \subseteq DOMAIN k /\ \A f \in Core : k[f] = NoOperation[f]

(* The three facts about one field. *)
LEMMA Lookup == \A f, g, x :
  /\ x \in DOMAIN (f ++ g) <=> x \in DOMAIN f \/ x \in DOMAIN g
  /\ x \in DOMAIN f => (f ++ g)[x] = f[x]
  /\ x \notin DOMAIN f /\ x \in DOMAIN g => (f ++ g)[x] = g[x]
<1> TAKE f, g, x
<1>1. DOMAIN (f ++ g) = DOMAIN f \cup DOMAIN g BY MergeDomain
<1>2. x \in DOMAIN f => (f ++ g)[x] = f[x] BY MergeLeft
<1>3. x \notin DOMAIN f /\ x \in DOMAIN g => (f ++ g)[x] = g[x] BY MergeRight
<1> QED BY <1>1, <1>2, <1>3

(* What the parts of an entry set, and what they leave alone: one lemma for *)
(* each.                                                                    *)
LEMMA OperandLookup == \A f, v, x :
  /\ x \in DOMAIN Operand(f, v) <=> v # "NONE" /\ x = f
  /\ v # "NONE" => Operand(f, v)[f] = v
BY DEF Operand

LEMMA UseLookup == \A op, dest, s0, s1, x :
  /\ x \in DOMAIN Use(op, dest, s0, s1) <=>
       \/ x = "opcode"
       \/ x = "dest" /\ dest # "NONE"
       \/ x = "source0" /\ s0 # "NONE"
       \/ x = "source1" /\ s1 # "NONE"
  /\ Use(op, dest, s0, s1)["opcode"] = op
  /\ dest # "NONE" => Use(op, dest, s0, s1)["dest"] = dest
  /\ s0 # "NONE" => Use(op, dest, s0, s1)["source0"] = s0
  /\ s1 # "NONE" => Use(op, dest, s0, s1)["source1"] = s1
<1> TAKE op, dest, s0, s1, x
<1> DEFINE o == [opcode |-> op]
<1>1. \A y : y \in DOMAIN o <=> y = "opcode" OBVIOUS
<1>2. o["opcode"] = op OBVIOUS
<1>3. Use(op, dest, s0, s1) = o ++ Operand("dest", dest) ++ Operand("source0", s0) ++ Operand("source1", s1)
  BY DEF Use
<1> HIDE DEF o
<1> QED BY <1>1, <1>2, <1>3, Lookup, OperandLookup, SMT

LEMMA NoOperationLookup ==
  /\ Core \subseteq DOMAIN NoOperation
  /\ NoOperation["opclass"] = "MISC" /\ NoOperation["dest"] = "NONE"
  /\ NoOperation["source0"] = "NONE" /\ NoOperation["source1"] = "NONE"
  /\ NoOperation["mod"] = 3 /\ NoOperation["disp_size"] = 0
  /\ NoOperation["mem_read"] = FALSE /\ NoOperation["mem_write"] = FALSE
  /\ NoOperation["io"] = FALSE /\ NoOperation["push"] = {} /\ NoOperation["pop"] = {}
BY DEF Core, NoOperation

LEMMA FreshLookup == ASSUME NEW k, Fresh(k) PROVE
  /\ {"opclass", "dest", "source0", "source1", "mod", "disp_size", "mem_read", "mem_write", "io", "push", "pop"} \subseteq DOMAIN k
  /\ k["opclass"] = "MISC" /\ k["dest"] = "NONE"
  /\ k["source0"] = "NONE" /\ k["source1"] = "NONE"
  /\ k["mod"] = 3 /\ k["disp_size"] = 0
  /\ k["mem_read"] = FALSE /\ k["mem_write"] = FALSE
  /\ k["io"] = FALSE /\ k["push"] = {} /\ k["pop"] = {}
BY NoOperationLookup DEF Fresh, Core

(* Records of one field. *)
LEMMA OneField == \A v, x :
  /\ (x \in DOMAIN [width |-> v] <=> x = "width") /\ [width |-> v]["width"] = v
  /\ (x \in DOMAIN [reg0 |-> v] <=> x = "reg0") /\ [reg0 |-> v]["reg0"] = v
  /\ (x \in DOMAIN [reg1 |-> v] <=> x = "reg1") /\ [reg1 |-> v]["reg1"] = v
  /\ (x \in DOMAIN [sreg |-> v] <=> x = "sreg") /\ [sreg |-> v]["sreg"] = v
  /\ (x \in DOMAIN [cond |-> v] <=> x = "cond") /\ [cond |-> v]["cond"] = v
  /\ (x \in DOMAIN [shift |-> v] <=> x = "shift") /\ [shift |-> v]["shift"] = v
  /\ (x \in DOMAIN [rep |-> v] <=> x = "rep") /\ [rep |-> v]["rep"] = v
  /\ (x \in DOMAIN [push |-> v] <=> x = "push") /\ [push |-> v]["push"] = v
  /\ (x \in DOMAIN [pop |-> v] <=> x = "pop") /\ [pop |-> v]["pop"] = v
  /\ (x \in DOMAIN [opclass |-> v] <=> x = "opclass") /\ [opclass |-> v]["opclass"] = v
  /\ (x \in DOMAIN [opcode |-> v] <=> x = "opcode") /\ [opcode |-> v]["opcode"] = v
  /\ (x \in DOMAIN [alu_operation |-> v] <=> x = "alu_operation") /\ [alu_operation |-> v]["alu_operation"] = v
  /\ (x \in DOMAIN [segment |-> v] <=> x = "segment") /\ [segment |-> v]["segment"] = v
  /\ (x \in DOMAIN [buslock |-> v] <=> x = "buslock") /\ [buslock |-> v]["buslock"] = v
  /\ (x \in DOMAIN [disp_size |-> v] <=> x = "disp_size") /\ [disp_size |-> v]["disp_size"] = v
  /\ (x \in DOMAIN [mem_read |-> v] <=> x = "mem_read") /\ [mem_read |-> v]["mem_read"] = v
  /\ (x \in DOMAIN [mem_write |-> v] <=> x = "mem_write") /\ [mem_write |-> v]["mem_write"] = v
  /\ (x \in DOMAIN [io |-> v] <=> x = "io") /\ [io |-> v]["io"] = v
OBVIOUS

(* The memory operand. *)
MemFields == {"mod", "rm", "disp_size", "segment"}
LEMMA MemLookup == \A q, k, x :
  /\ x \in DOMAIN MOD_MEM(q, k) <=> x \in MemFields
  /\ MOD_MEM(q, k)["mod"] = Mod(q) /\ MOD_MEM(q, k)["rm"] = Low(q)
  /\ MOD_MEM(q, k)["disp_size"] = CalcDispSize(Low(q), Mod(q))
BY DEF MOD_MEM, MemFields

LEMMA ReadLookup == \A q, k, x :
  /\ x \in DOMAIN Rd(q, k) <=> x \in MemFields \/ x = "mem_read"
  /\ Rd(q, k)["mod"] = Mod(q) /\ Rd(q, k)["rm"] = Low(q)
  /\ Rd(q, k)["disp_size"] = CalcDispSize(Low(q), Mod(q))
  /\ Mod(q) # 3 => Rd(q, k)["mem_read"] = TRUE
  /\ Mod(q) = 3 => Rd(q, k)["mem_read"] = FALSE
<1> TAKE q, k, x
<1>1. Mod(q) = 3 => Rd(q, k) = MOD_MEM(q, k) ++ [mem_read |-> FALSE]
  BY DEF Rd, InMemory
<1>2. Mod(q) # 3 => Rd(q, k) = MOD_MEM(q, k) ++ [mem_read |-> TRUE]
  BY DEF Rd, InMemory
<1> QED BY <1>1, <1>2, MemLookup, OneField, Lookup DEF MemFields

LEMMA WriteLookup == \A q, k, x :
  /\ x \in DOMAIN Wr(q, k) <=> x \in MemFields \/ x = "mem_write"
  /\ Wr(q, k)["mod"] = Mod(q) /\ Wr(q, k)["rm"] = Low(q)
  /\ Wr(q, k)["disp_size"] = CalcDispSize(Low(q), Mod(q))
  /\ Mod(q) # 3 => Wr(q, k)["mem_write"] = TRUE
  /\ Mod(q) = 3 => Wr(q, k)["mem_write"] = FALSE
<1> TAKE q, k, x
<1>1. Mod(q) = 3 => Wr(q, k) = MOD_MEM(q, k) ++ [mem_write |-> FALSE]
  BY DEF Wr, InMemory
<1>2. Mod(q) # 3 => Wr(q, k) = MOD_MEM(q, k) ++ [mem_write |-> TRUE]
  BY DEF Wr, InMemory
<1> QED BY <1>1, <1>2, MemLookup, OneField, Lookup DEF MemFields

LEMMA UpdateLookup == \A q, k, x :
  /\ x \in DOMAIN RdWr(q, k) <=> x \in MemFields \/ x = "mem_read" \/ x = "mem_write"
  /\ RdWr(q, k)["mod"] = Mod(q) /\ RdWr(q, k)["rm"] = Low(q)
  /\ RdWr(q, k)["disp_size"] = CalcDispSize(Low(q), Mod(q))
  /\ Mod(q) # 3 => RdWr(q, k)["mem_read"] = TRUE /\ RdWr(q, k)["mem_write"] = TRUE
  /\ Mod(q) = 3 => RdWr(q, k)["mem_read"] = FALSE /\ RdWr(q, k)["mem_write"] = FALSE
<1> TAKE q, k, x
<1>1. Mod(q) = 3 => RdWr(q, k) = Rd(q, k) ++ [mem_write |-> FALSE]
  BY DEF RdWr, InMemory
<1>2. Mod(q) # 3 => RdWr(q, k) = Rd(q, k) ++ [mem_write |-> TRUE]
  BY DEF RdWr, InMemory
<1> QED BY <1>1, <1>2, ReadLookup, OneField, Lookup DEF MemFields

(* The fields of a ModR/M byte. *)
LEMMA ByteParts == \A q \in AnyByte : Mod(q) \in 0 .. 3 /\ Low(q) \in 0 .. 7 /\ Middle(q) \in 0 .. 7
BY DEF AnyByte, Mod, Low, Middle

(* The operands of the instructions that name them by themselves. *)
LEMMA PortLookup == \A x :
  /\ (x \in DOMAIN Input <=> x = "mem_read" \/ x = "io") /\ Input["mem_read"] = TRUE /\ Input["io"] = TRUE
  /\ (x \in DOMAIN Output <=> x = "mem_write" \/ x = "io") /\ Output["mem_write"] = TRUE /\ Output["io"] = TRUE
BY DEF Input, Output
LEMMA DirectLookup == \A x :
  /\ x \in DOMAIN Direct <=> x \in {"rm", "mod", "disp_size"}
  /\ Direct["rm"] = 6 /\ Direct["mod"] = 0 /\ Direct["disp_size"] = 2
BY DEF Direct, CalcDispSize

-----------------------------------------------------------------------------
(* What an entry must do.  If it completes the instruction (Runs), the      *)
(* result is sound and the addresses and operand bytes, which the table     *)
(* does not know, stay as they are.  If it does not (Continues), the        *)
(* instruction stays fresh, and the states that rely on the width of the    *)
(* first byte have it.                                                      *)
Kept == {"pc", "end_pc", "disp", "imm"}
Runs(f, k, S) == Sound(f ++ k, DOMAIN f \cup S) /\ DOMAIN f \cap Kept = {}

Bare(i) ==
  /\ {"opclass", "dest", "source0", "source1", "mod", "disp_size", "mem_read", "mem_write",
      "io", "push", "pop"} \subseteq DOMAIN i
  /\ i["opclass"] = "MISC"
  /\ i["dest"] = "NONE" /\ i["source0"] = "NONE" /\ i["source1"] = "NONE"
  /\ i["push"] = {} /\ i["pop"] = {}
  /\ i["mod"] = 3 /\ i["disp_size"] = 0
  /\ i["mem_read"] = FALSE /\ i["mem_write"] = FALSE /\ i["io"] = FALSE
(* The instruction of which only a prefix was read has no operand. *)
LEMMA FreshIsBare == ASSUME NEW k, Fresh(k) PROVE Bare(k)
BY FreshLookup DEF Bare

SizedStates ==
  { "ROOT_00xxx00x", "ROOT_00xxx01x", "ROOT_0011100x", "ROOT_0011101x", "ROOT_1000010x",
    "ROOT_1000011x", "ROOT_1000100x", "ROOT_1000101x", "ROOT_1000000x", "ROOT_1000001x",
    "ROOT_1101000x", "ROOT_1101001x", "ROOT_1100000x", "ROOT_1100011x",
    "ROOT_00001111_0001000x", "ROOT_00001111_0001100x",
    "ROOT_00001111_0001001x", "ROOT_00001111_0001101x", "ROOT_00001111_0001010x",
    "ROOT_00001111_0001110x", "ROOT_00001111_0001011x", "ROOT_00001111_0001111x" }
Sized(k, S) == "width" \in S /\ "width" \in DOMAIN k /\ k["width"] \in {"BYTE", "WORD"}
Advances(e, k, S) ==
  /\ DOMAIN e.fields \cap Kept = {}
  /\ e.next = "TERMINAL" => Sound(e.fields ++ k, DOMAIN e.fields \cup S)
  /\ e.next # "TERMINAL" =>
       /\ e.next \in SecondByteStates \cup {"PREFIX_CONTINUE", "ILLEGAL"}
       /\ Fresh(e.fields ++ k)
       /\ e.next \in SizedStates => Sized(e.fields ++ k, DOMAIN e.fields \cup S)

(* An entry that completes the instruction advances it. *)
LEMMA RunsAdvances == ASSUME NEW e, e.next = "TERMINAL", NEW k, NEW S, Runs(e.fields, k, S) PROVE Advances(e, k, S)
BY DEF Runs, Advances

-----------------------------------------------------------------------------
(* The entries that complete an instruction, one section of the table a     *)
(* lemma.                                                                   *)
LEMMA BranchesRun ==
  ASSUME NEW k, Fresh(k), NEW S, NEW q, NEW e \in Branches(q)
  PROVE  e.next = "TERMINAL" /\ Runs(e.fields, k, S)
<1>1. Bare(k) BY FreshIsBare
<1> USE <1>1, OneField, UseLookup, Lookup
        DEF Op, Entry, Branches, Branch, Far, Wide, Bare
<1>2. FlagsFit(e.fields ++ k) BY SMTT(60) DEF FlagsFit, Io
<1>3. OpFits(e.fields ++ k) BY SMTT(60) DEF OpFits
<1>4. DispFits(e.fields ++ k) BY SMTT(60) DEF DispFits, IsOperand
<1>5. ImmFits(e.fields ++ k) BY SMTT(60) DEF ImmFits
<1>6. Covers(e.fields ++ k, DOMAIN e.fields \cup S) BY SMTT(60) DEF Covers, IsOperand, WidthRead, WidthOps
<1>7. DOMAIN e.fields \cap Kept = {} BY SMTT(60) DEF Kept
<1>8. e.next = "TERMINAL" BY SMTT(60)
<1> QED BY ONLY <1>2, <1>3, <1>4, <1>5, <1>6, <1>7, <1>8 DEF Runs, Sound

StackRegisters == {"AW", "CW", "DW", "BW", "SP", "BP", "IX", "IY", "DS0", "DS1", "SS", "PS", "PSW"}

(* Each group of entries completes an instruction that the execution unit   *)
(* can take.                                                                *)
LEMMA PushRun ==
  ASSUME NEW k, Fresh(k), NEW S, NEW byte, NEW reg \in StackRegisters,
         NEW e \in {Push(byte, reg), Pop(byte, reg)}
  PROVE  e.next = "TERMINAL" /\ Runs(e.fields, k, S)
<1>1. Bare(k) BY FreshIsBare
<1> USE <1>1, OneField, UseLookup, Lookup
        DEF Op, Entry, Push, Pop, Just, StackRegisters, Bare
<1>2. FlagsFit(e.fields ++ k) BY SMTT(60) DEF FlagsFit, Io
<1>3. OpFits(e.fields ++ k) BY SMTT(60) DEF OpFits
<1>4. DispFits(e.fields ++ k) BY SMTT(60) DEF DispFits, IsOperand
<1>5. ImmFits(e.fields ++ k) BY SMTT(60) DEF ImmFits
<1>6. Covers(e.fields ++ k, DOMAIN e.fields \cup S) BY SMTT(60) DEF Covers, IsOperand, WidthRead, WidthOps
<1>7. DOMAIN e.fields \cap Kept = {} BY SMTT(60) DEF Kept
<1>8. e.next = "TERMINAL" BY SMTT(60)
<1> QED BY ONLY <1>2, <1>3, <1>4, <1>5, <1>6, <1>7, <1>8 DEF Runs, Sound

LEMMA FramesRun ==
  ASSUME NEW k, Fresh(k), NEW S, NEW e \in Frames
  PROVE  e.next = "TERMINAL" /\ Runs(e.fields, k, S)
<1>1. Bare(k) BY FreshIsBare
<1> USE <1>1, OneField, UseLookup, Lookup
        DEF Op, Entry, Frames, Just, AllPush, AllPop, Wide, Narrow, Bare
<1>2. FlagsFit(e.fields ++ k) BY SMTT(60) DEF FlagsFit, Io
<1>3. OpFits(e.fields ++ k) BY SMTT(60) DEF OpFits
<1>4. DispFits(e.fields ++ k) BY SMTT(60) DEF DispFits, IsOperand
<1>5. ImmFits(e.fields ++ k) BY SMTT(60) DEF ImmFits
<1>6. Covers(e.fields ++ k, DOMAIN e.fields \cup S) BY SMTT(60) DEF Covers, IsOperand, WidthRead, WidthOps
<1>7. DOMAIN e.fields \cap Kept = {} BY SMTT(60) DEF Kept
<1>8. e.next = "TERMINAL" BY SMTT(60)
<1> QED BY ONLY <1>2, <1>3, <1>4, <1>5, <1>6, <1>7, <1>8 DEF Runs, Sound

LEMMA StackRun ==
  ASSUME NEW k, Fresh(k), NEW S, NEW e \in Stack
  PROVE  e.next = "TERMINAL" /\ Runs(e.fields, k, S)
<1>1. \A i \in 1 .. 8 : Gp[i] \in StackRegisters BY DEF Gp, StackRegisters
<1>2. {"DS0", "DS1", "SS", "PS", "PSW"} \subseteq StackRegisters BY DEF StackRegisters
<1>3. e \in Frames \/ \E byte : \E reg \in StackRegisters : e \in {Push(byte, reg), Pop(byte, reg)}
  BY <1>1, <1>2 DEF Stack
<1> QED BY <1>3, FramesRun, PushRun

LEMMA ControlRun ==
  ASSUME NEW k, Fresh(k), NEW S, NEW e \in Control
  PROVE  e.next = "TERMINAL" /\ Runs(e.fields, k, S)
<1>1. Bare(k) BY FreshIsBare
<1> USE <1>1, OneField, UseLookup, Lookup
        DEF Op, Entry, Control, Just, Narrow, Bare
<1>2. FlagsFit(e.fields ++ k) BY SMTT(60) DEF FlagsFit, Io
<1>3. OpFits(e.fields ++ k) BY SMTT(60) DEF OpFits
<1>4. DispFits(e.fields ++ k) BY SMTT(60) DEF DispFits, IsOperand
<1>5. ImmFits(e.fields ++ k) BY SMTT(60) DEF ImmFits
<1>6. Covers(e.fields ++ k, DOMAIN e.fields \cup S) BY SMTT(60) DEF Covers, IsOperand, WidthRead, WidthOps
<1>7. DOMAIN e.fields \cap Kept = {} BY SMTT(60) DEF Kept
<1>8. e.next = "TERMINAL" BY SMTT(60)
<1> QED BY ONLY <1>2, <1>3, <1>4, <1>5, <1>6, <1>7, <1>8 DEF Runs, Sound

LEMMA ConversionsRun ==
  ASSUME NEW k, Fresh(k), NEW S, NEW e \in Conversions
  PROVE  e.next = "TERMINAL" /\ Runs(e.fields, k, S)
<1>1. Bare(k) BY FreshIsBare
<1> USE <1>1, OneField, UseLookup, Lookup
        DEF Op, Entry, Conversions, Adjust, Alu, Just, Narrow, Wide, Bare
<1>2. FlagsFit(e.fields ++ k) BY SMTT(60) DEF FlagsFit, Io
<1>3. OpFits(e.fields ++ k) BY SMTT(60) DEF OpFits
<1>4. DispFits(e.fields ++ k) BY SMTT(60) DEF DispFits, IsOperand
<1>5. ImmFits(e.fields ++ k) BY SMTT(60) DEF ImmFits
<1>6. Covers(e.fields ++ k, DOMAIN e.fields \cup S) BY SMTT(60) DEF Covers, IsOperand, WidthRead, WidthOps
<1>7. DOMAIN e.fields \cap Kept = {} BY SMTT(60) DEF Kept
<1>8. e.next = "TERMINAL" BY SMTT(60)
<1> QED BY ONLY <1>2, <1>3, <1>4, <1>5, <1>6, <1>7, <1>8 DEF Runs, Sound

LEMMA BlockRun ==
  ASSUME NEW k, Fresh(k), NEW S, NEW q, NEW e \in Block(q)
  PROVE  e.next = "TERMINAL" /\ Runs(e.fields, k, S)
<1>1. Bare(k) BY FreshIsBare
<1> USE <1>1, OneField, UseLookup, Lookup
        DEF Op, Entry, Block, Just, W, Bare
<1>2. FlagsFit(e.fields ++ k) BY SMTT(60) DEF FlagsFit, Io
<1>3. OpFits(e.fields ++ k) BY SMTT(60) DEF OpFits
<1>4. DispFits(e.fields ++ k) BY SMTT(60) DEF DispFits, IsOperand
<1>5. ImmFits(e.fields ++ k) BY SMTT(60) DEF ImmFits
<1>6. Covers(e.fields ++ k, DOMAIN e.fields \cup S) BY SMTT(60) DEF Covers, IsOperand, WidthRead, WidthOps
<1>7. DOMAIN e.fields \cap Kept = {} BY SMTT(60) DEF Kept
<1>8. e.next = "TERMINAL" BY SMTT(60)
<1> QED BY ONLY <1>2, <1>3, <1>4, <1>5, <1>6, <1>7, <1>8 DEF Runs, Sound

LEMMA MovesRun ==
  ASSUME NEW k, Fresh(k), NEW S, NEW q, NEW e \in Moves(q)
  PROVE  e.next = "TERMINAL" /\ Runs(e.fields, k, S)
<1>1. Bare(k) BY FreshIsBare
<1> USE <1>1, OneField, UseLookup, Lookup, PortLookup, DirectLookup
        DEF Op, Entry, Moves, Disp8, Wide, W, CalcDispSize, Bare
<1>2. FlagsFit(e.fields ++ k) BY SMTT(60) DEF FlagsFit, Io
<1>3. OpFits(e.fields ++ k) BY SMTT(60) DEF OpFits
<1>4. DispFits(e.fields ++ k) BY SMTT(60) DEF DispFits, IsOperand
<1>5. ImmFits(e.fields ++ k) BY SMTT(60) DEF ImmFits
<1>6. Covers(e.fields ++ k, DOMAIN e.fields \cup S) BY SMTT(60) DEF Covers, IsOperand, WidthRead, WidthOps
<1>7. DOMAIN e.fields \cap Kept = {} BY SMTT(60) DEF Kept
<1>8. e.next = "TERMINAL" BY SMTT(60)
<1> QED BY ONLY <1>2, <1>3, <1>4, <1>5, <1>6, <1>7, <1>8 DEF Runs, Sound

LEMMA RegistersRun ==
  ASSUME NEW k, Fresh(k), NEW S, NEW q \in AnyByte, NEW s \in RegisterStates,
         s \in SizedStates => Sized(k, S), NEW e \in Registers(s, q, k)
  PROVE  e.next = "TERMINAL" /\ Runs(e.fields, k, S)
<1>1. Bare(k) BY FreshIsBare
<1> USE <1>1, OneField, UseLookup, Lookup, ReadLookup, WriteLookup, UpdateLookup, ByteParts
        DEF Op, Entry, Registers, RegisterStates, SizedStates, Sized, Alu, GP0, SR, Wide,
            Far, MemFields, Bare
<1>2. FlagsFit(e.fields ++ k) BY SMTT(60) DEF FlagsFit, Io
<1>3. OpFits(e.fields ++ k) BY SMTT(60) DEF OpFits
<1>4. DispFits(e.fields ++ k) BY SMTT(60) DEF DispFits, IsOperand
<1>5. ImmFits(e.fields ++ k) BY SMTT(60) DEF ImmFits
<1>6. Covers(e.fields ++ k, DOMAIN e.fields \cup S) BY SMTT(60) DEF Covers, IsOperand, WidthRead, WidthOps
<1>7. DOMAIN e.fields \cap Kept = {} BY SMTT(60) DEF Kept
<1>8. e.next = "TERMINAL" BY SMTT(60)
<1> QED BY ONLY <1>2, <1>3, <1>4, <1>5, <1>6, <1>7, <1>8 DEF Runs, Sound

LEMMA GroupsRun ==
  ASSUME NEW k, Fresh(k), NEW S, NEW q \in AnyByte, NEW s \in GroupStates,
         s \in SizedStates => Sized(k, S), NEW e \in Groups(s, q, k)
  PROVE  e.next = "TERMINAL" /\ Runs(e.fields, k, S)
<1>1. Bare(k) BY FreshIsBare
<1> USE <1>1, OneField, UseLookup, Lookup, ReadLookup, WriteLookup, UpdateLookup, ByteParts
        DEF Op, Entry, Groups, GroupStates, SizedStates, Sized, Immediate, Shift, Unary,
            Indirect, Call, MulDiv, Branch, ALU, SFT, Alu, Wide, Narrow, Far, MemFields,
            Bare
<1>2. FlagsFit(e.fields ++ k) BY SMTT(60) DEF FlagsFit, Io
<1>3. OpFits(e.fields ++ k) BY SMTT(120) DEF OpFits
<1>4. DispFits(e.fields ++ k) BY SMTT(60) DEF DispFits, IsOperand
<1>5. ImmFits(e.fields ++ k) BY SMTT(60) DEF ImmFits
<1>6. Covers(e.fields ++ k, DOMAIN e.fields \cup S) BY SMTT(60) DEF Covers, IsOperand, WidthRead, WidthOps
<1>7. DOMAIN e.fields \cap Kept = {} BY SMTT(60) DEF Kept
<1>8. e.next = "TERMINAL" BY SMTT(60)
<1> QED BY ONLY <1>2, <1>3, <1>4, <1>5, <1>6, <1>7, <1>8 DEF Runs, Sound

LEMMA Group3Run ==
  ASSUME NEW k, Fresh(k), NEW S, NEW q \in AnyByte,
         NEW s \in Group3States \ {"ROOT_00001111"}, s \in SizedStates => Sized(k, S),
         NEW e \in Group3(s, q, k)
  PROVE  e.next = "TERMINAL" /\ Runs(e.fields, k, S)
<1>1. Bare(k) BY FreshIsBare
<1> USE <1>1, OneField, UseLookup, Lookup, ReadLookup, WriteLookup, UpdateLookup, ByteParts, MergeEmpty
        DEF Op, Entry, Group3, Group3States, SizedStates, Sized, Bit, Test, Nibbles,
            BitField, GP1, Just, Alu, Wide, Narrow, Far, MemFields, Bare
<1>2. FlagsFit(e.fields ++ k) BY SMTT(60) DEF FlagsFit, Io
<1>3. OpFits(e.fields ++ k) BY SMTT(60) DEF OpFits
<1>4. DispFits(e.fields ++ k) BY SMTT(60) DEF DispFits, IsOperand
<1>5. ImmFits(e.fields ++ k) BY SMTT(60) DEF ImmFits
<1>6. Covers(e.fields ++ k, DOMAIN e.fields \cup S) BY SMTT(60) DEF Covers, IsOperand, WidthRead, WidthOps
<1>7. DOMAIN e.fields \cap Kept = {} BY SMTT(60) DEF Kept
<1>8. e.next = "TERMINAL" BY SMTT(60)
<1> QED BY ONLY <1>2, <1>3, <1>4, <1>5, <1>6, <1>7, <1>8 DEF Runs, Sound

LEMMA ArithmeticRun ==
  ASSUME NEW k, Fresh(k), NEW S, NEW q, NEW e \in Arithmetic(q), e.next = "TERMINAL"
  PROVE  Runs(e.fields, k, S)
<1>1. Bare(k) BY FreshIsBare
<1> USE <1>1, OneField, UseLookup, Lookup
        DEF Op, Entry, GoW, Arithmetic, Alu, Wide, W, ALU, Bare
<1>2. FlagsFit(e.fields ++ k) BY SMTT(60) DEF FlagsFit, Io
<1>3. OpFits(e.fields ++ k) BY SMTT(60) DEF OpFits
<1>4. DispFits(e.fields ++ k) BY SMTT(60) DEF DispFits, IsOperand
<1>5. ImmFits(e.fields ++ k) BY SMTT(60) DEF ImmFits
<1>6. Covers(e.fields ++ k, DOMAIN e.fields \cup S) BY SMTT(60) DEF Covers, IsOperand, WidthRead, WidthOps
<1>7. DOMAIN e.fields \cap Kept = {} BY SMTT(60) DEF Kept
<1> QED BY ONLY <1>2, <1>3, <1>4, <1>5, <1>6, <1>7 DEF Runs, Sound

LEMMA NibbleStringsRun ==
  ASSUME NEW k, Fresh(k), NEW S, NEW q, NEW e \in Group3("ROOT_00001111", q, k),
         e.next = "TERMINAL"
  PROVE  Runs(e.fields, k, S)
<1>1. Bare(k) BY FreshIsBare
<1> USE <1>1, OneField, UseLookup, Lookup
        DEF Op, Entry, Go, GoW, Group3, Just, W, Bare
<1>2. FlagsFit(e.fields ++ k) BY SMTT(60) DEF FlagsFit, Io
<1>3. OpFits(e.fields ++ k) BY SMTT(60) DEF OpFits
<1>4. DispFits(e.fields ++ k) BY SMTT(60) DEF DispFits, IsOperand
<1>5. ImmFits(e.fields ++ k) BY SMTT(60) DEF ImmFits
<1>6. Covers(e.fields ++ k, DOMAIN e.fields \cup S) BY SMTT(60) DEF Covers, IsOperand, WidthRead, WidthOps
<1>7. DOMAIN e.fields \cap Kept = {} BY SMTT(60) DEF Kept
<1> QED BY ONLY <1>2, <1>3, <1>4, <1>5, <1>6, <1>7 DEF Runs, Sound

-----------------------------------------------------------------------------
(* The entries that do not. *)
Harmless(f) == DOMAIN f \cap (Core \cup Kept) = {}
Continues(e) ==
  /\ Harmless(e.fields)
  /\ e.next \in SecondByteStates \cup {"PREFIX_CONTINUE", "ILLEGAL"}
  /\ e.next \in SizedStates
       => "width" \in DOMAIN e.fields /\ e.fields["width"] \in {"BYTE", "WORD"}

(* The states of the table are told apart. *)
LEMMA NoStateTwice == "TERMINAL" \notin SecondByteStates \cup {"PREFIX_CONTINUE", "ILLEGAL"}
BY DEF SecondByteStates, RegisterStates, GroupStates, Group3States

(* An entry that does not complete the instruction gives it no operand yet. *)
LEMMA ContinuesAdvances ==
  ASSUME NEW k, Fresh(k), NEW S, NEW e, Continues(e)
  PROVE  Advances(e, k, S)
<1>1. e.next # "TERMINAL" BY NoStateTwice DEF Continues
<1>2. Fresh(e.fields ++ k)
  BY Lookup DEF Fresh, Continues, Harmless
<1>3. e.next \in SizedStates => Sized(e.fields ++ k, DOMAIN e.fields \cup S)
  BY Lookup DEF Sized, Continues
<1> QED BY <1>1, <1>2, <1>3 DEF Advances, Continues, Harmless

LEMMA PrefixesContinue == ASSUME NEW e \in Prefixes PROVE Continues(e)
<1>1. DOMAIN e.fields \subseteq {"segment", "segment_override", "buslock", "rep"}
  BY SMTT(30) DEF Prefixes, Pre, Entry
<1>2. e.next = "PREFIX_CONTINUE" BY SMTT(30) DEF Prefixes, Pre, Entry
<1> QED BY <1>1, <1>2 DEF Continues, Harmless, Core, Kept, SizedStates

LEMMA WidthContinues ==
  ASSUME NEW e, NEW q, e.fields = W(q), e.next \in SecondByteStates
  PROVE  Continues(e)
<1>1. DOMAIN e.fields = {"width"} /\ e.fields["width"] \in {"BYTE", "WORD"}
  BY DEF W
<1> QED BY <1>1 DEF Continues, Harmless, Core, Kept

LEMMA PlainContinues ==
  ASSUME NEW e, e.fields = <<>>,
         e.next \in (SecondByteStates \cup {"ILLEGAL"}) \ SizedStates
  PROVE  Continues(e)
BY DEF Continues, Harmless

LEMMA ContinuedContinues == ASSUME NEW q, NEW e \in Continued(q) PROVE Continues(e)
<1> USE DEF Continued, Go, GoW, Entry
<1>1. e.next \in SecondByteStates
  BY SMTT(30) DEF SecondByteStates, RegisterStates, GroupStates, Group3States
<1>2. e.fields = W(q) \/ (e.fields = <<>> /\ e.next \notin SizedStates)
  BY SMTT(30) DEF SizedStates
<1> QED BY ONLY <1>1, <1>2, WidthContinues, PlainContinues

LEMMA ArithmeticContinues ==
  ASSUME NEW q, NEW e \in Arithmetic(q), e.next # "TERMINAL"
  PROVE  Continues(e)
<1> USE DEF Arithmetic, Op, GoW, Entry
<1>1. e.next \in SecondByteStates
  BY SMTT(30) DEF SecondByteStates, RegisterStates, GroupStates, Group3States
<1>2. e.fields = W(q) \/ e.fields = ALU(q) ++ W(q) BY SMTT(30)
<1>3. CASE e.fields = ALU(q) ++ W(q)
  <2>1. /\ \A x \in DOMAIN e.fields : x \in {"alu_operation", "width"}
        /\ "width" \in DOMAIN e.fields /\ e.fields["width"] \in {"BYTE", "WORD"}
    BY ONLY <1>3, OneField, Lookup, SMTT(30) DEF ALU, W
  <2> QED BY ONLY <1>1, <2>1 DEF Continues, Harmless, Core, Kept
<1> QED BY ONLY <1>1, <1>2, <1>3, WidthContinues

LEMMA Group3Continues ==
  ASSUME NEW q, NEW k, NEW e \in Group3("ROOT_00001111", q, k), e.next # "TERMINAL"
  PROVE  Continues(e)
<1> USE DEF Group3, Op, Go, GoW, Entry
<1>1. e.next \in SecondByteStates
  BY SMTT(30) DEF SecondByteStates, RegisterStates, GroupStates, Group3States
<1>2. e.fields = W(q) \/ (e.fields = <<>> /\ e.next \notin SizedStates)
  BY SMTT(30) DEF SizedStates
<1> QED BY ONLY <1>1, <1>2, WidthContinues, PlainContinues

-----------------------------------------------------------------------------
(* Every entry of the table, and process_decode. *)
LEMMA EntriesAdvance ==
  ASSUME NEW k, Fresh(k), NEW S, NEW q \in AnyByte,
         NEW s \in DecodeStates, s \in SizedStates => Sized(k, S),
         NEW e \in Entries(s, q, k)
  PROVE  Advances(e, k, S)
<1>1. CASE s \in RegisterStates
  <2>1. e \in Registers(s, q, k)
    BY <1>1 DEF Entries, RegisterStates, GroupStates, Group3States, FirstByteStates
  <2> QED BY <1>1, <2>1, RegistersRun, RunsAdvances
<1>2. CASE s \in GroupStates
  <2>1. e \in Groups(s, q, k)
    BY <1>2 DEF Entries, RegisterStates, GroupStates, Group3States, FirstByteStates
  <2> QED BY <1>2, <2>1, GroupsRun, RunsAdvances
<1>3. CASE s \in Group3States
  <2>1. e \in Group3(s, q, k)
    BY <1>3 DEF Entries, RegisterStates, GroupStates, Group3States, FirstByteStates
  <2>2. CASE s = "ROOT_00001111"
    BY <2>1, <2>2, NibbleStringsRun, RunsAdvances, Group3Continues, ContinuesAdvances
  <2>3. CASE s # "ROOT_00001111"
    BY <1>3, <2>1, <2>3, Group3Run, RunsAdvances
  <2> QED BY <2>2, <2>3
<1>4. CASE s \in FirstByteStates
  <2>1. e \in Root(q)
    BY <1>4 DEF Entries, RegisterStates, GroupStates, Group3States, FirstByteStates
  <2>2. CASE e \in Prefixes \cup Continued(q)
    BY <2>2, PrefixesContinue, ContinuedContinues, ContinuesAdvances
  <2>3. CASE e \in Arithmetic(q)
    BY <2>3, ArithmeticRun, RunsAdvances, ArithmeticContinues, ContinuesAdvances
  <2>4. CASE e \in Branches(q) BY <2>4, BranchesRun, RunsAdvances
  <2>5. CASE e \in Stack BY <2>5, StackRun, RunsAdvances
  <2>6. CASE e \in Control BY <2>6, ControlRun, RunsAdvances
  <2>7. CASE e \in Conversions BY <2>7, ConversionsRun, RunsAdvances
  <2>8. CASE e \in Block(q) BY <2>8, BlockRun, RunsAdvances
  <2>9. CASE e \in Moves(q) BY <2>9, MovesRun, RunsAdvances
  <2> QED BY <2>1, <2>2, <2>3, <2>4, <2>5, <2>6, <2>7, <2>8, <2>9 DEF Root
<1> QED BY <1>1, <1>2, <1>3, <1>4 DEF DecodeStates, SecondByteStates

(* The table as a whole: whichever entry wins, and INVALID if none matches, *)
(* the instruction advances.                                                *)
LEMMA ProcessDecodeAdvances ==
  ASSUME NEW k, Fresh(k), NEW S, NEW q \in AnyByte,
         NEW s \in DecodeStates, s \in SizedStates => Sized(k, S)
  PROVE  Advances(ProcessDecode(s, q, k), k, S)
<1> DEFINE best == Best(s, q, k)
<1>1. CASE best = {}
  <2>1. ProcessDecode(s, q, k) = Entry({q}, "ILLEGAL", <<>>)
    BY <1>1 DEF ProcessDecode, Chosen
  <2>2. "ILLEGAL" \notin SizedStates BY DEF SizedStates
  <2>3. Continues(Entry({q}, "ILLEGAL", <<>>)) BY <2>2, PlainContinues DEF Entry
  <2> QED BY <2>1, <2>3, ContinuesAdvances
<1>2. CASE best # {}
  <2>1. ProcessDecode(s, q, k) \in best
    BY <1>2 DEF ProcessDecode, Chosen
  <2>2. best \subseteq Entries(s, q, k) BY DEF Best, Fewest
  <2> QED BY <2>1, <2>2, EntriesAdvance
<1> QED BY <1>1, <1>2

-----------------------------------------------------------------------------
(* The conditions above are those of MemoryFlags and Served, and look at    *)
(* few fields.                                                              *)
LEMMA SoundAgrees == ASSUME NEW i, NEW S, Sound(i, S) PROVE FlagsAgree(i) /\ Servable(i)
<1>1. FlagsAgree(i)
  BY DEF Sound, FlagsFit, FlagsAgree, Outside, Operands, IoOperands, Io
<1>2. Servable(i)
  BY DEF Sound, OpFits, Servable, RelativeOps, ReturnOps
<1> QED BY <1>1, <1>2

SoundFields == Core \cup {"width", "rm"}
(* The conditions look at few fields. *)
LEMMA SoundElsewhere ==
  ASSUME NEW i, NEW j, NEW S, Sound(i, S), \A f \in SoundFields : j[f] = i[f]
  PROVE  Sound(j, S)
<1>1. /\ j["opcode"] = i["opcode"] /\ j["opclass"] = i["opclass"] /\ j["dest"] = i["dest"]
      /\ j["source0"] = i["source0"] /\ j["source1"] = i["source1"] /\ j["mod"] = i["mod"]
      /\ j["mem_read"] = i["mem_read"] /\ j["mem_write"] = i["mem_write"] /\ j["io"] = i["io"]
      /\ j["push"] = i["push"] /\ j["pop"] = i["pop"] /\ j["disp_size"] = i["disp_size"]
      /\ j["width"] = i["width"] /\ j["rm"] = i["rm"]
  BY DEF SoundFields, Core
<1> QED BY <1>1 DEF Sound, FlagsFit, OpFits, DispFits, ImmFits, Covers, IsOperand

(* Of the instruction so far the table reads segment_override and segment.  *)
LEMMA SameOperand ==
  ASSUME NEW q, NEW k, NEW l, k.segment_override = l.segment_override, k.segment = l.segment
  PROVE  Rd(q, k) = Rd(q, l) /\ Wr(q, k) = Wr(q, l) /\ RdWr(q, k) = RdWr(q, l)
<1>1. MOD_MEM(q, k) = MOD_MEM(q, l) BY DEF MOD_MEM
<1> QED BY <1>1 DEF Rd, Wr, RdWr

(* The table reads one register beside the byte: the segment override and   *)
(* its segment.                                                             *)
LEMMA SameDecode ==
  ASSUME NEW s \in DecodeStates, NEW q, NEW k, NEW l,
         k.segment_override = l.segment_override, k.segment = l.segment
  PROVE  ProcessDecode(s, q, k) = ProcessDecode(s, q, l)
<1>1. Rd(q, k) = Rd(q, l) /\ Wr(q, k) = Wr(q, l) /\ RdWr(q, k) = RdWr(q, l)
  BY SameOperand
<1>2. Registers(s, q, k) = Registers(s, q, l)
  BY <1>1 DEF Registers
<1>3. /\ \A imm : Immediate(q, k, imm) = Immediate(q, l, imm)
      /\ \A op, count : Shift(q, k, op, count) = Shift(q, l, op, count)
      /\ \A m, a, width : Unary(q, k, m, a, width) = Unary(q, l, m, a, width)
      /\ \A m, width : Indirect(q, k, m, width) = Indirect(q, l, m, width)
      /\ \A m, width, list : Call(q, k, m, width, list) = Call(q, l, m, width, list)
  BY <1>1 DEF Immediate, Shift, Unary, Indirect, Call
<1>4. \A width : MulDiv(q, k, width) = MulDiv(q, l, width)
  BY <1>1, <1>3 DEF MulDiv
<1>5. s \in GroupStates => Groups(s, q, k) = Groups(s, q, l)
  <2>1. CASE s = "ROOT_11111111"
    <3>1. /\ \A m, a, width : Unary(q, k, m, a, width) = Unary(q, l, m, a, width)
          /\ \A m, width : Indirect(q, k, m, width) = Indirect(q, l, m, width)
          /\ \A m, width, list : Call(q, k, m, width, list) = Call(q, l, m, width, list)
      BY <1>3
    <3> QED BY ONLY <1>1, <3>1, <2>1, SMTT(30) DEF Groups
  <2>2. CASE s \in {"ROOT_1000000x", "ROOT_1000001x"}
    BY <1>3, <2>2 DEF Groups
  <2>3. CASE s \in {"ROOT_1101000x", "ROOT_1101001x", "ROOT_1100000x"}
    BY <1>3, <2>3 DEF Groups
  <2>4. CASE s = "ROOT_11111110" BY <1>3, <2>4 DEF Groups
  <2>5. CASE s \in {"ROOT_11110110", "ROOT_11110111"} BY <1>4, <2>5 DEF Groups
  <2>6. CASE s \in {"ROOT_1100011x", "ROOT_10001111"} BY <1>1, <2>6 DEF Groups
  <2> QED BY <2>1, <2>2, <2>3, <2>4, <2>5, <2>6 DEF GroupStates
<1>6. Group3(s, q, k) = Group3(s, q, l)
  <2>1. /\ \A a, count : Bit(q, k, a, count) = Bit(q, l, a, count)
        /\ \A count : Test(q, k, count) = Test(q, l, count)
        /\ \A op : Nibbles(q, k, op) = Nibbles(q, l, op)
    BY <1>1 DEF Bit, Test, Nibbles
  <2> QED BY <2>1 DEF Group3
<1>7. Entries(s, q, k) = Entries(s, q, l)
  <2>1. CASE s \in GroupStates
    BY <1>5, <2>1 DEF Entries, RegisterStates, GroupStates, Group3States, FirstByteStates
  <2>2. CASE s \in RegisterStates \cup Group3States \cup FirstByteStates
    BY <1>2, <1>6, <2>2 DEF Entries, RegisterStates, GroupStates, Group3States, FirstByteStates
  <2> QED BY <2>1, <2>2 DEF DecodeStates, SecondByteStates
<1> QED BY <1>7 DEF ProcessDecode, Best

(* After a complete instruction the table is at its start, where it reads   *)
(* none.                                                                    *)
LEMMA StartsAnew ==
  ASSUME NEW q, NEW k, NEW l
  PROVE  ProcessDecode("TERMINAL", q, k) = ProcessDecode("INITIAL", q, l)
<1>1. "TERMINAL" \in FirstByteStates /\ "INITIAL" \in FirstByteStates
  BY DEF FirstByteStates
<1>2. \A s \in FirstByteStates : \A m : Entries(s, q, m) = Root(q)
  BY DEF Entries, FirstByteStates, RegisterStates, GroupStates, Group3States
<1> QED BY <1>1, <1>2 DEF ProcessDecode, Best

-----------------------------------------------------------------------------
(* The decoder. *)
(* Alone, unfolded: reading one byte more is ReadOn. *)
After(f, bytes, n) ==
  f = [j \in 0 .. n |-> IF j = 0 THEN Nothing ELSE ReadOn(f[j - 1], bytes[j])]

(* There is such an f: the function that Alone chooses is recursive, and    *)
(* this is its existence.                                                   *)
LEMMA AfterExists == ASSUME NEW bytes PROVE \A n \in Nat : \E f : After(f, bytes, n)
<1> DEFINE T == {n \in Nat : \E f : After(f, bytes, n)}
<1>1. 0 \in T
  <2>1. After([j \in 0 .. 0 |-> Nothing], bytes, 0) BY DEF After
  <2> QED BY <2>1
<1>2. ASSUME NEW n \in T PROVE n + 1 \in T
  <2>1. PICK f : After(f, bytes, n) BY <1>2
  <2>n. n \in Nat OBVIOUS
  <2> DEFINE h == [j \in 0 .. n + 1 |-> IF j <= n THEN f[j] ELSE ReadOn(f[n], bytes[n + 1])]
  <2>2. ASSUME NEW j \in 0 .. n + 1
        PROVE  h[j] = IF j = 0 THEN Nothing ELSE ReadOn(h[j - 1], bytes[j])
    <3>1. CASE j = 0
      <4>1. 0 \in 0 .. n BY <2>n
      <4>2. f[0] = Nothing BY <2>1, <4>1 DEF After
      <4> QED BY <3>1, <4>2, <2>n
    <3>2. CASE j \in 1 .. n
      <4>1. f[j] = ReadOn(f[j - 1], bytes[j]) BY <2>1, <3>2, <2>n DEF After
      <4>2. h[j] = f[j] /\ h[j - 1] = f[j - 1] BY <3>2, <2>n
      <4> QED BY <3>2, <4>1, <4>2
    <3>3. CASE j = n + 1
      <4>1. h[j] = ReadOn(f[n], bytes[n + 1]) /\ h[n] = f[n] BY <3>3, <2>n
      <4>2. j # 0 /\ j - 1 = n BY <3>3, <2>n
      <4> HIDE DEF h
      <4> QED BY <3>3, <4>1, <4>2
    <3> QED BY <2>n, <3>1, <3>2, <3>3
  <2>3. h = [j \in 0 .. n + 1 |-> IF j = 0 THEN Nothing ELSE ReadOn(h[j - 1], bytes[j])]
    <3>1. h = [j \in 0 .. n + 1 |-> h[j]] OBVIOUS
    <3> HIDE DEF h
    <3> QED BY <2>2, <3>1, Zenon
  <2>4. After(h, bytes, n + 1) BY <2>3, Zenon DEF After
  <2> HIDE DEF h
  <2> QED BY <2>4, <2>n
<1>3. T \subseteq Nat OBVIOUS
<1> HIDE DEF T
<1>4. T = Nat BY <1>1, <1>2, <1>3, Inductive
<1> QED BY <1>4 DEF T

(* Two programs that begin alike are read alike. *)
LEMMA AfterUnique ==
  ASSUME NEW b, NEW c, NEW n \in Nat, NEW m \in Nat, n <= m,
         NEW f, NEW g, After(f, b, n), After(g, c, m),
         \A j \in 1 .. n : b[j] = c[j]
  PROVE  f[n] = g[n]
<1> DEFINE T == {j \in Nat : j <= n => f[j] = g[j]}
<1>1. 0 \in T
  <2>1. 0 \in 0 .. n /\ 0 \in 0 .. m OBVIOUS
  <2> QED BY <2>1 DEF After
<1>2. ASSUME NEW j \in T PROVE j + 1 \in T
  <2> SUFFICES ASSUME j + 1 <= n PROVE f[j + 1] = g[j + 1] BY <1>2
  <2>1. j \in Nat /\ j + 1 \in 1 .. n /\ j + 1 \in 0 .. n /\ j + 1 \in 0 .. m BY <1>2
  <2>2. f[j] = g[j] BY <1>2, <2>1
  <2>3. f[j + 1] = ReadOn(f[j], b[j + 1]) BY <2>1 DEF After
  <2>4. g[j + 1] = ReadOn(g[j], c[j + 1]) BY <2>1 DEF After
  <2> QED BY <2>1, <2>2, <2>3, <2>4
<1>3. T \subseteq Nat OBVIOUS
<1> HIDE DEF T
<1>4. T = Nat BY <1>1, <1>2, <1>3, Inductive
<1> QED BY <1>4 DEF T

(* Alone is the last value of such a function. *)
LEMMA AloneAfter ==
  ASSUME NEW bytes \in Seq(Nat)
  PROVE  \E f : After(f, bytes, Len(bytes)) /\ Alone(bytes) = f[Len(bytes)]
<1>1. Len(bytes) \in Nat OBVIOUS
<1>2. \E f : After(f, bytes, Len(bytes)) BY <1>1, AfterExists
<1> DEFINE f == CHOOSE f : f = [n \in 0 .. Len(bytes) |-> IF n = 0 THEN Nothing ELSE ReadOn(f[n - 1], bytes[n])]
<1>3. f = [n \in 0 .. Len(bytes) |-> IF n = 0 THEN Nothing ELSE ReadOn(f[n - 1], bytes[n])]
  BY <1>2, Zenon DEF After
<1>4. Alone(bytes) = f[Len(bytes)] BY DEF Alone
<1> QED BY <1>3, <1>4 DEF After

(* No byte, no instruction. *)
LEMMA AloneEmpty == Alone(<<>>) = Nothing
<1>1. <<>> \in Seq(Nat) /\ Len(<<>>) = 0 OBVIOUS
<1>2. PICK f : After(f, <<>>, 0) /\ Alone(<<>>) = f[0] BY <1>1, AloneAfter
<1> QED BY <1>2 DEF After

(* One byte more is one step of ReadOn: this is what a step of the decoder  *)
(* is compared with.                                                        *)
LEMMA AloneAppend ==
  ASSUME NEW bytes \in Seq(Nat), NEW q \in Nat
  PROVE  Alone(Append(bytes, q)) = ReadOn(Alone(bytes), q)
<1> DEFINE n == Len(bytes)
           more == Append(bytes, q)
<1>1. n \in Nat /\ more \in Seq(Nat) /\ Len(more) = n + 1 /\ more[n + 1] = q
      /\ \A j \in 1 .. n : bytes[j] = more[j]
  OBVIOUS
<1>2. PICK f : After(f, bytes, n) /\ Alone(bytes) = f[n] BY AloneAfter
<1>3. PICK g : After(g, more, n + 1) /\ Alone(more) = g[n + 1] BY <1>1, AloneAfter
<1> HIDE DEF n, more
<1>4. f[n] = g[n]
  <2>1. n + 1 \in Nat /\ n <= n + 1 BY <1>1
  <2>2. After(f, bytes, n) /\ After(g, more, n + 1) BY <1>2, <1>3
  <2>3. \A j \in 1 .. n : bytes[j] = more[j] BY <1>1
  <2> QED BY ONLY <1>1, <2>1, <2>2, <2>3, AfterUnique
<1>5. g[n + 1] = ReadOn(g[n], more[n + 1]) BY <1>1, <1>3 DEF After
<1> QED BY <1>1, <1>2, <1>3, <1>4, <1>5 DEF more

-----------------------------------------------------------------------------
(* The inductive invariant.  The fields reset_decode or the entries so far  *)
(* have set are as they would be with no instruction before this one, and   *)
(* what is built of the fields satisfies the table's conditions.            *)
Always    == Kept \cup {"width", "rm"}
OwnSet(o) == DOMAIN o \cup DOMAIN NoOperation

Owned(i, o) ==
  /\ DOMAIN o \cap Kept = {}
  /\ \A f \in OwnSet(o) : f \in DOMAIN i /\ i[f] = (o ++ NoOperation)[f]
Shape(s, i, S) ==
  /\ s \in DecodeStates
  /\ s # "TERMINAL" => Fresh(i)
  /\ s \in SizedStates => Sized(i, S)
  /\ s = "TERMINAL" => Sound(i, S)

Own == Alone(taken)

(* The bytes taken are those from d.pc up to pc. *)
Where ==
  /\ taken \in Seq(Nat) /\ pc \in Offsets /\ next_pc \in Offsets
  /\ stream \in Streams /\ ops \in Nat
  /\ Always \subseteq DOMAIN d /\ d["pc"] \in Offsets
  /\ pc = OffsetPlus(d["pc"], Len(taken))
  /\ taken # <<>> => d["end_pc"] = pc

(* The fields. *)
Decoded ==
  /\ Own.state = state
  /\ Owned(d, Own.fields)
  /\ Shape(state, d, OwnSet(Own.fields))

(* How many bytes are read, and where they are. *)
Numbers ==
  /\ disp_read \in Nat /\ imm_read \in Nat /\ Own.size \in Nat
  /\ Len(taken) = Own.size + disp_read + imm_read
  /\ state # "TERMINAL" => disp_read = 0 /\ imm_read = 0
  /\ state = "TERMINAL" => disp_read <= d.disp_size /\ imm_read <= ImmSize
  /\ imm_read > 0 => disp_read = d.disp_size
Contents ==
  /\ d["disp"] \in [1 .. 2 -> Nat] /\ d["imm"] \in [1 .. 4 -> Nat]
  /\ \A j \in 1 .. disp_read : d["disp"][j] = taken[Own.size + j]
  /\ \A j \in 1 .. imm_read : d["imm"][j] = taken[Own.size + disp_read + j]

IInv == Where /\ Decoded /\ Numbers /\ Contents

(* reset_decode gives the fields of dispatch a value, and touches neither   *)
(* the addresses nor the operand bytes.                                     *)
LEMMA NoOperationFields ==
  /\ DOMAIN NoOperation \cap Kept = {} /\ Core \subseteq DOMAIN NoOperation
  /\ "segment" \in DOMAIN NoOperation /\ "segment_override" \in DOMAIN NoOperation
BY DEF NoOperation, Core, Kept

(* Offsets wrap; the next one is a different one. *)
LEMMA OffsetSum ==
  ASSUME NEW a \in Offsets, NEW n \in Nat
  PROVE  /\ OffsetPlus(a, 0) = a
         /\ OffsetPlus(a, n) \in Offsets
         /\ OffsetPlus(OffsetPlus(a, n), 1) = OffsetPlus(a, n + 1)
         /\ OffsetPlus(a, 1) # a
<1>1. Offs \in Nat \ {0} /\ Offs >= 16
  BY WidthAssumption
<1>2. a % Offs = a /\ (a + 1) % Offs # a BY <1>1, Wraps DEF Offsets
<1>3. a \in Int /\ a + n \in Int /\ a + 0 = a /\ (a + n) + 1 = a + (n + 1) BY <1>1 DEF Offsets
<1>4. (((a + n) % Offs) + 1) % Offs = ((a + n) + 1) % Offs BY <1>1, <1>3, NextWraps
<1>5. (a + n) % Offs \in 0 .. Offs - 1 BY <1>1, <1>3, Division
<1> QED BY <1>2, <1>3, <1>4, <1>5 DEF OffsetPlus, Offsets

(* What reset_decode leaves: the fields of NoOperation, and everything else *)
(* as it was.                                                               *)
LEMMA ResetFresh ==
  /\ Fresh(ResetFields)
  /\ \A f : f \in DOMAIN NoOperation => f \in DOMAIN ResetFields /\ ResetFields[f] = NoOperation[f]
  /\ \A f : f \in DOMAIN d => f \in DOMAIN ResetFields
  /\ \A f : f \in DOMAIN d /\ f \notin DOMAIN NoOperation => ResetFields[f] = d[f]
<1>1. \A f : f \in DOMAIN NoOperation => f \in DOMAIN ResetFields /\ ResetFields[f] = NoOperation[f]
  BY Lookup DEF ResetFields
<1>2. Fresh(ResetFields)
  BY <1>1, NoOperationFields DEF Fresh
<1> QED BY <1>1, <1>2, Lookup DEF ResetFields

(* A jump, and a retirement with no byte at hand, begin with nothing read. *)
LEMMA ResetKeeps ==
  ASSUME IInv, NEW x \in Offsets, d' = [pc |-> x] ++ ResetFields, state' = "INITIAL",
         pc' = x, disp_read' = 0, imm_read' = 0, taken' = <<>>,
         next_pc' \in Offsets, stream' \in Streams, ops' \in Nat
  PROVE  IInv'
<1> DEFINE p == [pc |-> x]
<1>p. (\A f : f \in DOMAIN p <=> f = "pc") /\ p["pc"] = x OBVIOUS
<1>d. d' = p ++ ResetFields OBVIOUS
<1> HIDE DEF p
<1>1. /\ d'["pc"] = x
      /\ \A f : f \in DOMAIN d => f \in DOMAIN d'
      /\ \A f : f \in DOMAIN NoOperation => f \in DOMAIN d' /\ d'[f] = NoOperation[f]
      /\ d'["disp"] = d["disp"] /\ d'["imm"] = d["imm"]
  <2>1. "pc" \notin DOMAIN NoOperation /\ "disp" \notin DOMAIN NoOperation
        /\ "imm" \notin DOMAIN NoOperation
    BY NoOperationFields DEF Kept
  <2>2. "disp" \in DOMAIN d /\ "imm" \in DOMAIN d BY DEF IInv, Where, Always, Kept
  <2> QED BY <1>p, <1>d, <2>1, <2>2, ResetFresh, Lookup
<1>2. Own' = Nothing BY AloneEmpty DEF Own
<1>3. DOMAIN Own'.fields = {} /\ Own'.state = "INITIAL" /\ Own'.size = 0
  BY <1>2 DEF Nothing
<1>4. Where'
  <2>1. Len(<<>>) = 0 /\ <<>> \in Seq(Nat) OBVIOUS
  <2>2. Always \subseteq DOMAIN d' BY <1>1 DEF IInv, Where
  <2> QED BY <1>1, <2>1, <2>2, OffsetSum DEF IInv, Where
<1>5. Decoded'
  <2>1. OwnSet(Own'.fields) = DOMAIN NoOperation BY <1>3 DEF OwnSet
  <2>2. \A f \in DOMAIN NoOperation : d'[f] = (Own'.fields ++ NoOperation)[f]
    BY <1>1, <1>3, Lookup
  <2>3. Owned(d', Own'.fields) BY <1>1, <1>3, <2>1, <2>2 DEF Owned
  <2>4. Fresh(d') BY <1>1, NoOperationFields DEF Fresh
  <2>5. Shape("INITIAL", d', OwnSet(Own'.fields))
    BY <2>4 DEF Shape, SizedStates, DecodeStates, FirstByteStates
  <2> QED BY <1>3, <2>3, <2>5 DEF Decoded
<1>7. Numbers' /\ Contents'
  <2>1. Len(<<>>) = 0 OBVIOUS
  <2>2. d'["disp"] \in [1 .. 2 -> Nat] /\ d'["imm"] \in [1 .. 4 -> Nat]
    BY <1>1 DEF IInv, Numbers, Contents
  <2> QED BY <1>3, <2>1, <2>2 DEF Numbers, Contents
<1> QED BY <1>4, <1>5, <1>7 DEF IInv

(* What an entry e does to an instruction of which own is set. *)
LEMMA EntryKeeps ==
  ASSUME NEW e, NEW k, NEW own, NEW p, NEW i,
         Fresh(k), Always \subseteq DOMAIN k, Owned(k, own),
         Advances(e, k, OwnSet(own)),
         DOMAIN p \subseteq {"pc", "end_pc"}, i = (p ++ e.fields) ++ k
  PROVE  /\ Owned(i, e.fields ++ own) /\ Shape(e.next, i, OwnSet(e.fields ++ own))
         /\ Always \subseteq DOMAIN i /\ i["disp"] = k["disp"] /\ i["imm"] = k["imm"]
         /\ \A f \in DOMAIN p : i[f] = p[f]
         /\ \A f \in {"pc", "end_pc"} \ DOMAIN p : i[f] = k[f]
<1> DEFINE x == e.fields
           S == OwnSet(own)
<1>1. i = p ++ (x ++ k) BY MergeAssoc
<1>2. DOMAIN x \cap Kept = {} BY DEF Advances
<1>3. /\ e.next \in DecodeStates
      /\ e.next # "TERMINAL" => Fresh(x ++ k)
      /\ e.next \in SizedStates => Sized(x ++ k, DOMAIN x \cup S)
      /\ e.next = "TERMINAL" => Sound(x ++ k, DOMAIN x \cup S)
  BY DEF Advances, DecodeStates, FirstByteStates, SizedStates
<1> HIDE DEF x
<1> USE DEF OwnSet
<1>4. OwnSet(x ++ own) = DOMAIN x \cup S
  <2>1. DOMAIN (x ++ own) = DOMAIN x \cup DOMAIN own BY MergeDomain
  <2> QED BY <2>1
<1>5. \A f : f \notin {"pc", "end_pc"} /\ f \in DOMAIN (x ++ k) => i[f] = (x ++ k)[f]
  BY <1>1, Lookup
<1>6. \A f : f \in DOMAIN k \/ f \in DOMAIN x => f \in DOMAIN (x ++ k) /\ f \in DOMAIN i
  BY <1>1, Lookup
<1>7. Owned(i, x ++ own)
  <2>1. DOMAIN (x ++ own) \cap Kept = {} BY <1>2, MergeDomain DEF Owned
  <2>2. ASSUME NEW f \in OwnSet(x ++ own) PROVE f \in DOMAIN i /\ i[f] = ((x ++ own) ++ NoOperation)[f]
    <3>1. f \notin Kept BY <1>2, <1>4, NoOperationFields DEF Owned
    <3>2. f \notin {"pc", "end_pc"} BY <3>1 DEF Kept
    <3>3. CASE f \in DOMAIN x
      <4>1. i[f] = x[f] BY <1>5, <1>6, <3>2, <3>3, Lookup
      <4>2. ((x ++ own) ++ NoOperation)[f] = x[f] BY <3>3, Lookup
      <4> QED BY <1>6, <3>3, <4>1, <4>2
    <3>4. CASE f \notin DOMAIN x
      <4>1. f \in S BY <1>4, <3>4
      <4>2. f \in DOMAIN k /\ k[f] = (own ++ NoOperation)[f] BY <4>1 DEF Owned
      <4>3. i[f] = k[f] BY <1>5, <1>6, <3>2, <3>4, <4>2, Lookup
      <4>4. (x ++ (own ++ NoOperation))[f] = (own ++ NoOperation)[f]
        BY <3>4, <4>1, Lookup
      <4> QED BY <1>6, <4>2, <4>3, <4>4, MergeAssoc
    <3> QED BY <3>3, <3>4
  <2> QED BY <2>1, <2>2 DEF Owned
<1>8. Core \subseteq DOMAIN k /\ Kept \subseteq DOMAIN k /\ SoundFields \subseteq DOMAIN k
  BY DEF Fresh, SoundFields, Always
<1>9. \A f \in SoundFields : f \in DOMAIN i /\ i[f] = (x ++ k)[f]
  <2>1. {"pc", "end_pc"} \cap SoundFields = {} BY DEF SoundFields, Core
  <2> QED BY <1>5, <1>6, <1>8, <2>1
<1>10. Shape(e.next, i, DOMAIN x \cup S)
  <2>1. e.next # "TERMINAL" => Fresh(i)
    <3>1. Core \subseteq SoundFields BY DEF SoundFields
    <3> QED BY <1>3, <1>9, <3>1 DEF Fresh
  <2>2. e.next \in SizedStates => Sized(i, DOMAIN x \cup S)
    <3>1. "width" \in SoundFields BY DEF SoundFields
    <3> QED BY <1>3, <1>9, <3>1 DEF Sized
  <2>3. e.next = "TERMINAL" => Sound(i, DOMAIN x \cup S)
    BY <1>3, <1>9, SoundElsewhere
  <2> QED BY <1>3, <2>1, <2>2, <2>3 DEF Shape
<1>11. Always \subseteq DOMAIN i BY <1>6
<1>12. \A f \in Kept \ DOMAIN p : i[f] = k[f]
  BY <1>1, <1>2, <1>8, Lookup
<1>13. \A f \in DOMAIN p : i[f] = p[f] BY <1>1, Lookup
<1>14. i["disp"] = k["disp"] /\ i["imm"] = k["imm"]
  <2>1. "disp" \notin DOMAIN p /\ "imm" \notin DOMAIN p OBVIOUS
  <2> QED BY <1>12, <2>1 DEF Kept
<1>15. \A f \in {"pc", "end_pc"} \ DOMAIN p : i[f] = k[f]
  BY <1>12 DEF Kept
<1> QED BY <1>4, <1>7, <1>10, <1>11, <1>13, <1>14, <1>15 DEF x

(* Bounds of what is read, which a complete instruction has. *)
LEMMA SoundBounds ==
  ASSUME NEW i, NEW S, Sound(i, S)
  PROVE  /\ i.disp_size \in 0 .. 2 /\ DispRead(i) <= i.disp_size
         /\ ImmOf(i) \in 0 .. 4 /\ ImmRead(i) <= ImmOf(i)
BY DispFitsReads, ImmFitsReads DEF Sound

(* imm_size of the decoder is the size the table's conditions speak of. *)
LEMMA ImmSizeOf == ImmSize = ImmOf(d)
BY DEF ImmSize, ImmOf

(* A byte of the opcode: the decoder and Alone take the same entry, since   *)
(* the entry depends on the segment override alone.                         *)
LEMMA DecodeKeeps ==
  ASSUME IInv, NEW q \in AnyByte, DecodeByte(q), taken' = Append(taken, q),
         next_pc' \in Offsets, stream' \in Streams, ops' \in Nat
  PROVE  IInv'
<1> DEFINE e == ProcessDecode(state, q, d)
           p == [end_pc |-> OffsetPlus(pc, 1)]
           o == Own.fields
<1>1. /\ state # "TERMINAL" /\ state' = e.next /\ d' = (p ++ e.fields) ++ d
      /\ pc' = OffsetPlus(pc, 1) /\ disp_read' = disp_read /\ imm_read' = imm_read
  BY Zenon DEF DecodeByte, TakeByte
<1>2. /\ Own.state = state /\ Owned(d, o) /\ Fresh(d)
      /\ Shape(state, d, OwnSet(o)) /\ Always \subseteq DOMAIN d
  BY <1>1 DEF IInv, Where, Decoded, Shape
<1>3. Advances(e, d, OwnSet(o))
  BY <1>2, ProcessDecodeAdvances DEF Shape
<1>4. q \in Nat /\ taken \in Seq(Nat) BY DEF AnyByte, IInv, Where
<1>5. Own' = [state |-> e.next, fields |-> e.fields ++ o, size |-> Own.size + 1]
  <2>1. Own' = ReadOn(Own, q) BY <1>4, AloneAppend DEF Own
  <2>2. ProcessDecode(state, q, o ++ NoOperation) = e
    <3>1. \A f \in DOMAIN NoOperation : d[f] = (o ++ NoOperation)[f]
      BY <1>2 DEF Owned, OwnSet
    <3>2. d["segment"] = (o ++ NoOperation)["segment"]
          /\ d["segment_override"] = (o ++ NoOperation)["segment_override"]
      BY <3>1, NoOperationFields
    <3> QED BY <1>2, <3>2, SameDecode DEF Shape
  <2> HIDE DEF e
  <2> QED BY <1>1, <1>2, <2>1, <2>2 DEF ReadOn
<1>6. DOMAIN p = {"end_pc"} /\ p["end_pc"] = OffsetPlus(pc, 1) OBVIOUS
<1> HIDE DEF e, p, o
<1>7. DOMAIN p \subseteq {"pc", "end_pc"} BY <1>6
<1>8. /\ Owned(d', e.fields ++ o) /\ Shape(e.next, d', OwnSet(e.fields ++ o))
      /\ Always \subseteq DOMAIN d' /\ d'["disp"] = d["disp"] /\ d'["imm"] = d["imm"]
      /\ \A f \in DOMAIN p : d'[f] = p[f]
      /\ \A f \in {"pc", "end_pc"} \ DOMAIN p : d'[f] = d[f]
  BY <1>1, <1>2, <1>3, <1>7, EntryKeeps
<1>9. Own'.state = e.next /\ Own'.fields = e.fields ++ o /\ Own'.size = Own.size + 1
  BY <1>5
<1>10. Len(taken') = Len(taken) + 1 /\ taken' \in Seq(Nat) /\ taken' # <<>>
  BY <1>4
<1>11. Where'
  <2>1. d'["pc"] = d["pc"] /\ d'["end_pc"] = OffsetPlus(pc, 1) BY <1>6, <1>8
  <2>2. d["pc"] \in Offsets /\ pc = OffsetPlus(d["pc"], Len(taken)) /\ Len(taken) \in Nat
    BY <1>4 DEF IInv, Where
  <2>3. /\ OffsetPlus(OffsetPlus(d["pc"], Len(taken)), 1) = OffsetPlus(d["pc"], Len(taken) + 1)
        /\ OffsetPlus(d["pc"], Len(taken) + 1) \in Offsets
    BY ONLY <2>2, OffsetSum
  <2>4. pc' = OffsetPlus(d'["pc"], Len(taken')) /\ pc' \in Offsets
    BY <1>1, <1>10, <2>1, <2>2, <2>3
  <2>5. d'["pc"] \in Offsets BY <2>1, <2>2
  <2> QED BY <1>1, <1>8, <1>10, <2>1, <2>4, <2>5 DEF Where
<1>12. Decoded' BY <1>1, <1>8, <1>9 DEF Decoded
<1>13. Numbers' /\ Contents'
  <2>1. /\ disp_read = 0 /\ imm_read = 0 /\ Own.size \in Nat /\ Len(taken) = Own.size
        /\ d["disp"] \in [1 .. 2 -> Nat] /\ d["imm"] \in [1 .. 4 -> Nat]
    BY <1>1 DEF IInv, Numbers, Contents
  <2>2. state' = "TERMINAL" => 0 <= d'.disp_size /\ 0 <= ImmSize'
    <3> SUFFICES ASSUME state' = "TERMINAL" PROVE 0 <= d'.disp_size /\ 0 <= ImmSize' OBVIOUS
    <3>1. Sound(d', OwnSet(e.fields ++ o)) BY <1>1, <1>8 DEF Shape
    <3>2. d'.disp_size \in 0 .. 2 /\ ImmOf(d') \in 0 .. 4 BY <3>1, SoundBounds
    <3>3. ImmSize' = ImmOf(d') BY DEF ImmSize, ImmOf
    <3> QED BY <3>2, <3>3
  <2> QED BY <1>1, <1>8, <1>9, <1>10, <2>1, <2>2, SMTT(30) DEF Numbers, Contents
<1> QED BY <1>11, <1>12, <1>13 DEF IInv

(* A retirement that takes the first byte of the next instruction: the      *)
(* decoder looks it up with the fields of the old instruction, which the    *)
(* entries of a first byte do not read.                                     *)
LEMMA NextKeeps ==
  ASSUME IInv, NEW q \in AnyByte, RetireNext(q), taken' = <<q>>,
         next_pc' \in Offsets, stream' \in Streams, ops' \in Nat
  PROVE  IInv'
<1> DEFINE e == ProcessDecode(state, q, d)
           p == [pc |-> pc, end_pc |-> OffsetPlus(pc, 1)]
           k == ResetFields
<1>1. /\ state = "TERMINAL" /\ state' = e.next /\ d' = (p ++ e.fields) ++ k
      /\ pc' = OffsetPlus(pc, 1) /\ disp_read' = 0 /\ imm_read' = 0
  BY Zenon DEF RetireNext, Retire, ResetReads, TakeByte
<1>2. e = ProcessDecode("INITIAL", q, k) /\ e = ProcessDecode("INITIAL", q, <<>> ++ NoOperation)
  BY <1>1, StartsAnew
<1>3. Fresh(k) /\ Always \subseteq DOMAIN k /\ k["disp"] = d["disp"] /\ k["imm"] = d["imm"]
  <2>1. Always \subseteq DOMAIN d BY DEF IInv, Where
  <2>2. "disp" \in DOMAIN d \ DOMAIN NoOperation /\ "imm" \in DOMAIN d \ DOMAIN NoOperation
    BY <2>1, NoOperationFields DEF Always, Kept
  <2> QED BY <2>1, <2>2, ResetFresh
<1>4. Owned(k, <<>>)
  <2>1. OwnSet(<<>>) = DOMAIN NoOperation /\ DOMAIN <<>> = {} BY DEF OwnSet
  <2>2. \A f \in DOMAIN NoOperation : f \in DOMAIN k /\ k[f] = (<<>> ++ NoOperation)[f]
    BY <2>1, ResetFresh, Lookup
  <2> QED BY <2>1, <2>2 DEF Owned
<1>5. Advances(e, k, OwnSet(<<>>))
  <2>1. "INITIAL" \in DecodeStates /\ "INITIAL" \notin SizedStates
    BY DEF DecodeStates, FirstByteStates, SizedStates
  <2> HIDE DEF e, k
  <2> QED BY <1>2, <1>3, <2>1, ProcessDecodeAdvances
<1>6. q \in Nat /\ <<q>> \in Seq(Nat) /\ <<q>> = Append(<<>>, q) /\ <<>> \in Seq(Nat)
  BY DEF AnyByte
<1>7. Own' = [state |-> e.next, fields |-> e.fields ++ <<>>, size |-> 1]
  <2>1. Own' = ReadOn(Nothing, q)
    BY <1>6, AloneAppend, AloneEmpty DEF Own
  <2> HIDE DEF e
  <2> QED BY <1>2, <2>1 DEF ReadOn, Nothing
<1>8. DOMAIN p = {"pc", "end_pc"} /\ p["pc"] = pc /\ p["end_pc"] = OffsetPlus(pc, 1) OBVIOUS
<1> HIDE DEF e, p, k
<1>9. /\ Owned(d', e.fields ++ <<>>) /\ Shape(e.next, d', OwnSet(e.fields ++ <<>>))
      /\ Always \subseteq DOMAIN d' /\ d'["disp"] = k["disp"] /\ d'["imm"] = k["imm"]
      /\ \A f \in DOMAIN p : d'[f] = p[f]
  BY <1>1, <1>3, <1>4, <1>5, <1>8, EntryKeeps
<1>10. Own'.state = e.next /\ Own'.fields = e.fields ++ <<>> /\ Own'.size = 1
  BY <1>7
<1>11. Len(<<q>>) = 1 /\ taken' # <<>> BY <1>6
<1>12. Where'
  <2>1. d'["pc"] = pc /\ d'["end_pc"] = OffsetPlus(pc, 1) BY <1>8, <1>9
  <2>2. pc \in Offsets BY DEF IInv, Where
  <2>3. pc' \in Offsets BY <1>1, <2>2, OffsetSum
  <2> QED BY <1>1, <1>6, <1>9, <1>11, <2>1, <2>2, <2>3 DEF Where
<1>13. Decoded' BY <1>1, <1>9, <1>10 DEF Decoded
<1>14. Numbers' /\ Contents'
  <2>1. d'["disp"] \in [1 .. 2 -> Nat] /\ d'["imm"] \in [1 .. 4 -> Nat]
    BY <1>3, <1>9 DEF IInv, Numbers, Contents
  <2>2. state' = "TERMINAL" => 0 <= d'.disp_size /\ 0 <= ImmSize'
    <3> SUFFICES ASSUME state' = "TERMINAL" PROVE 0 <= d'.disp_size /\ 0 <= ImmSize' OBVIOUS
    <3>1. Sound(d', OwnSet(e.fields ++ <<>>)) BY <1>1, <1>9 DEF Shape
    <3>2. d'.disp_size \in 0 .. 2 /\ ImmOf(d') \in 0 .. 4 BY <3>1, SoundBounds
    <3>3. ImmSize' = ImmOf(d') BY DEF ImmSize, ImmOf
    <3> QED BY <3>2, <3>3
  <2> QED BY <1>1, <1>10, <1>11, <2>1, <2>2 DEF Numbers, Contents
<1> QED BY <1>12, <1>13, <1>14 DEF IInv

(* An operand byte changes nothing the table set. *)
LEMMA OperandKeeps ==
  ASSUME IInv, NEW q \in Nat, NEW p, DOMAIN p \subseteq {"disp", "imm", "end_pc"},
         "end_pc" \in DOMAIN p, p["end_pc"] = OffsetPlus(pc, 1),
         d' = p ++ d, pc' = OffsetPlus(pc, 1), state = "TERMINAL", state' = state,
         taken' = Append(taken, q), next_pc' \in Offsets, stream' \in Streams, ops' \in Nat
  PROVE  /\ Where' /\ Decoded' /\ Own' = Own
         /\ Len(taken') = Len(taken) + 1 /\ taken'[Len(taken) + 1] = q
         /\ \A j \in 1 .. Len(taken) : taken'[j] = taken[j]
         /\ d'.disp_size = d.disp_size /\ ImmSize' = ImmSize
<1>1. taken \in Seq(Nat) /\ Len(taken) \in Nat BY DEF IInv, Where
<1>2. /\ taken' \in Seq(Nat) /\ taken' # <<>>
      /\ Len(taken') = Len(taken) + 1 /\ taken'[Len(taken) + 1] = q
      /\ \A j \in 1 .. Len(taken) : taken'[j] = taken[j]
  BY <1>1
<1>3. Own' = Own
  <2>1. Own' = ReadOn(Own, q) BY <1>1, AloneAppend DEF Own
  <2>2. Own.state = "TERMINAL" BY DEF IInv, Decoded
  <2> QED BY <2>1, <2>2 DEF ReadOn
<1>4. Always \subseteq DOMAIN d BY DEF IInv, Where
<1>5. /\ \A f \in DOMAIN d : f \in DOMAIN d'
      /\ \A f \in DOMAIN d \ DOMAIN p : d'[f] = d[f]
      /\ d'["end_pc"] = OffsetPlus(pc, 1)
  BY Lookup
<1>6. Where'
  <2>1. "pc" \in DOMAIN d \ DOMAIN p BY <1>4 DEF Always, Kept
  <2>2. d["pc"] \in Offsets /\ pc = OffsetPlus(d["pc"], Len(taken)) BY DEF IInv, Where
  <2>3. /\ OffsetPlus(OffsetPlus(d["pc"], Len(taken)), 1) = OffsetPlus(d["pc"], Len(taken) + 1)
        /\ OffsetPlus(d["pc"], Len(taken) + 1) \in Offsets
    BY ONLY <1>1, <2>2, OffsetSum
  <2>4. pc' = OffsetPlus(d'["pc"], Len(taken')) /\ pc' \in Offsets
    BY <1>2, <1>5, <2>1, <2>2, <2>3
  <2>5. d'["pc"] \in Offsets BY <1>5, <2>1, <2>2
  <2> QED BY <1>2, <1>4, <1>5, <2>4, <2>5 DEF Where
<1>7. \A f \in SoundFields : f \in DOMAIN d /\ f \notin DOMAIN p /\ d'[f] = d[f]
  <2>1. Owned(d, Own.fields) BY DEF IInv, Decoded
  <2>2. Core \subseteq DOMAIN d BY <2>1, NoOperationFields DEF Owned, OwnSet
  <2>3. SoundFields \subseteq DOMAIN d BY <1>4, <2>2 DEF SoundFields, Always
  <2>4. SoundFields \cap {"disp", "imm", "end_pc"} = {} BY DEF SoundFields, Core
  <2> QED BY <1>5, <2>3, <2>4
<1>8. Decoded'
  <2>1. Own.state = state /\ Owned(d, Own.fields) /\ Sound(d, OwnSet(Own.fields))
    BY DEF IInv, Decoded, Shape
  <2>2. Sound(d', OwnSet(Own.fields)) BY <1>7, <2>1, SoundElsewhere
  <2>3. Shape("TERMINAL", d', OwnSet(Own.fields))
    BY <2>2 DEF Shape, DecodeStates, FirstByteStates, SizedStates
  <2>4. Owned(d', Own.fields)
    <3>1. ASSUME NEW f \in OwnSet(Own.fields)
          PROVE  f \in DOMAIN d' /\ d'[f] = (Own.fields ++ NoOperation)[f]
      <4>1. f \in DOMAIN d /\ d[f] = (Own.fields ++ NoOperation)[f] BY <2>1 DEF Owned
      <4>2. f \notin Kept BY <2>1, NoOperationFields DEF Owned, OwnSet
      <4>3. f \notin DOMAIN p BY <4>2 DEF Kept
      <4> QED BY <1>5, <4>1, <4>3
    <3> QED BY <2>1, <3>1 DEF Owned
  <2> QED BY <1>3, <2>1, <2>3, <2>4 DEF Decoded
<1>9. d'.disp_size = d.disp_size /\ d'.source0 = d.source0 /\ d'.source1 = d.source1
      /\ d'.width = d.width
  BY <1>7 DEF SoundFields, Core
<1>10. ImmSize' = ImmSize
  BY <1>9 DEF ImmSize
<1> QED BY <1>2, <1>3, <1>6, <1>8, <1>9, <1>10

(* One byte more behind the r bytes that a already holds of t. *)
LEMMA OneMore ==
  ASSUME NEW t \in Seq(Nat), NEW q \in Nat, NEW m \in Nat, NEW r \in Nat, NEW s \in Nat,
         NEW a \in [1 .. m -> Nat], r < m, Len(t) = s + r,
         \A j \in 1 .. r : a[j] = t[s + j],
         NEW b, b = [a EXCEPT ![r + 1] = q], NEW u, u = Append(t, q)
  PROVE  b \in [1 .. m -> Nat] /\ \A j \in 1 .. r + 1 : b[j] = u[s + j]
<1>1. r + 1 \in 1 .. m OBVIOUS
<1>2. b \in [1 .. m -> Nat] /\ b[r + 1] = q /\ \A j \in 1 .. r : b[j] = a[j] BY <1>1
<1>3. u[Len(t) + 1] = q /\ \A j \in 1 .. Len(t) : u[j] = t[j] OBVIOUS
<1>4. \A j \in 1 .. r : s + j \in 1 .. Len(t) OBVIOUS
<1>5. s + (r + 1) = Len(t) + 1 OBVIOUS
<1>6. \A j \in 1 .. r + 1 : b[j] = u[s + j]
  <2> TAKE j \in 1 .. r + 1
  <2>1. CASE j = r + 1 BY <1>2, <1>3, <1>5, <2>1
  <2>2. CASE j \in 1 .. r BY <1>2, <1>3, <1>4, <2>2
  <2> QED BY <2>1, <2>2, SMTT(30)
<1> QED BY <1>2, <1>6

(* The first bytes of t stay where they are. *)
LEMMA StillThere ==
  ASSUME NEW t \in Seq(Nat), NEW q \in Nat, NEW r \in Nat, NEW s \in Nat, s + r <= Len(t)
  PROVE  \A j \in 1 .. r : Append(t, q)[s + j] = t[s + j]
<1>1. \A j \in 1 .. r : s + j \in 1 .. Len(t) OBVIOUS
<1>2. \A j \in 1 .. Len(t) : Append(t, q)[j] = t[j] OBVIOUS
<1> QED BY <1>1, <1>2

(* A byte of the displacement. *)
LEMMA DispKeeps ==
  ASSUME IInv, NEW q \in Nat, ReadDisp(q), taken' = Append(taken, q),
         next_pc' \in Offsets, stream' \in Streams, ops' \in Nat
  PROVE  IInv'
<1> DEFINE disp == [d.disp EXCEPT ![disp_read + 1] = q]
           p == [disp |-> disp, end_pc |-> OffsetPlus(pc, 1)]
           ds == d.disp_size
           im == ImmSize
           n == Own.size
           old == d["disp"]
<1>1. /\ state = "TERMINAL" /\ state' = state /\ disp_read < ds /\ d' = p ++ d
      /\ disp_read' = disp_read + 1 /\ imm_read' = imm_read /\ pc' = OffsetPlus(pc, 1)
  BY Zenon DEF ReadDisp, TakeByte
<1>2. /\ \A f : f \in DOMAIN p <=> f \in {"disp", "end_pc"}
      /\ p["disp"] = disp /\ p["end_pc"] = OffsetPlus(pc, 1)
  OBVIOUS
<1>i. Numbers /\ Contents BY DEF IInv
<1> HIDE DEF p
<1>3. /\ Where' /\ Decoded' /\ Own' = Own
      /\ Len(taken') = Len(taken) + 1
      /\ d'.disp_size = ds /\ ImmSize' = im
  <2>1. DOMAIN p \subseteq {"disp", "imm", "end_pc"} BY <1>2
  <2> QED BY <1>1, <1>2, <2>1, OperandKeeps
<1>n. n' = n BY <1>3
<1>4. ds \in 0 .. 2
  <2>1. Sound(d, OwnSet(Own.fields)) BY <1>1 DEF IInv, Decoded, Shape
  <2> QED BY <2>1, SoundBounds
<1>5. /\ disp_read \in Nat /\ imm_read \in Nat /\ n \in Nat
      /\ Len(taken) = n + disp_read + imm_read
      /\ imm_read <= im /\ (imm_read > 0 => disp_read = ds)
  BY <1>i, <1>1, Zenon DEF Numbers
<1>6. /\ old \in [1 .. 2 -> Nat] /\ d["imm"] \in [1 .. 4 -> Nat]
      /\ \A j \in 1 .. disp_read : old[j] = taken[n + j]
  BY <1>i, Zenon DEF Contents
<1>t. taken \in Seq(Nat) BY DEF IInv, Where
<1>7. d'["disp"] = [old EXCEPT ![disp_read + 1] = q] /\ d'["imm"] = d["imm"]
  <2>1. "imm" \in DOMAIN d BY DEF IInv, Where, Always, Kept
  <2>2. d'["disp"] = disp /\ d'["imm"] = d["imm"] BY <1>1, <1>2, <2>1, Lookup
  <2> QED BY <2>2
<1> HIDE DEF disp, ds, im, n, old
<1>8. imm_read = 0 /\ disp_read < 2 /\ disp_read + 1 <= ds BY <1>1, <1>4, <1>5
<1>9. Len(taken) = n + disp_read BY <1>5, <1>8
<1>10. Numbers'
  <2>1. Len(taken') = n + (disp_read + 1) + imm_read BY <1>3, <1>5
  <2> QED BY <1>1, <1>3, <1>5, <1>8, <1>n, <2>1 DEF Numbers, n, ds, im
<1>11. Contents'
  <2>1. d'["disp"] \in [1 .. 2 -> Nat]
        /\ \A j \in 1 .. disp_read + 1 : d'["disp"][j] = taken'[n + j]
    <3> DEFINE b == d'["disp"]
               u == taken'
               w == 2
    <3>1. /\ w \in Nat /\ disp_read \in Nat /\ disp_read < w /\ old \in [1 .. w -> Nat]
          /\ b = [old EXCEPT ![disp_read + 1] = q] /\ u = Append(taken, q) /\ q \in Nat
          /\ n \in Nat
      BY <1>5, <1>6, <1>7, <1>8
    <3>2. \A j \in 1 .. disp_read : old[j] = taken[n + j] BY <1>6
    <3> HIDE DEF b, u, w
    <3>3. b \in [1 .. w -> Nat] /\ \A j \in 1 .. disp_read + 1 : b[j] = u[n + j]
      BY ONLY <1>9, <1>t, <3>1, <3>2, OneMore
    <3> QED BY <3>3 DEF b, u, w
  <2>2. \A j \in 1 .. imm_read' : FALSE BY <1>1, <1>8
  <2> QED BY <1>1, <1>6, <1>7, <1>n, <2>1, <2>2 DEF Contents, n
<1> QED BY <1>3, <1>10, <1>11 DEF IInv

(* A byte of the immediate. *)
LEMMA ImmKeeps ==
  ASSUME IInv, NEW q \in Nat, ReadImm(q), taken' = Append(taken, q),
         next_pc' \in Offsets, stream' \in Streams, ops' \in Nat
  PROVE  IInv'
<1> DEFINE imm == [d.imm EXCEPT ![imm_read + 1] = q]
           p == [imm |-> imm, end_pc |-> OffsetPlus(pc, 1)]
           ds == d.disp_size
           im == ImmSize
           n == Own.size
           old == d["imm"]
<1>1. /\ state = "TERMINAL" /\ state' = state /\ disp_read >= ds
      /\ imm_read < im /\ d' = p ++ d
      /\ imm_read' = imm_read + 1 /\ disp_read' = disp_read /\ pc' = OffsetPlus(pc, 1)
  BY Zenon DEF ReadImm, TakeByte
<1>2. /\ \A f : f \in DOMAIN p <=> f \in {"imm", "end_pc"}
      /\ p["imm"] = imm /\ p["end_pc"] = OffsetPlus(pc, 1)
  OBVIOUS
<1>i. Numbers /\ Contents BY DEF IInv
<1> HIDE DEF p
<1>3. /\ Where' /\ Decoded' /\ Own' = Own
      /\ Len(taken') = Len(taken) + 1
      /\ d'.disp_size = ds /\ ImmSize' = im
  <2>1. DOMAIN p \subseteq {"disp", "imm", "end_pc"} BY <1>2
  <2> QED BY <1>1, <1>2, <2>1, OperandKeeps
<1>n. n' = n BY <1>3
<1>4. ds \in 0 .. 2 /\ im \in 0 .. 4
  <2>1. Sound(d, OwnSet(Own.fields)) BY <1>1 DEF IInv, Decoded, Shape
  <2> QED BY <2>1, SoundBounds, ImmSizeOf
<1>5. /\ disp_read \in Nat /\ imm_read \in Nat /\ n \in Nat
      /\ Len(taken) = n + disp_read + imm_read /\ disp_read <= ds
  BY <1>i, <1>1, Zenon DEF Numbers
<1>6. /\ old \in [1 .. 4 -> Nat] /\ d["disp"] \in [1 .. 2 -> Nat]
      /\ \A j \in 1 .. disp_read : d["disp"][j] = taken[n + j]
      /\ \A j \in 1 .. imm_read : old[j] = taken[n + disp_read + j]
  BY <1>i, Zenon DEF Contents
<1>t. taken \in Seq(Nat) BY DEF IInv, Where
<1>7. d'["imm"] = [old EXCEPT ![imm_read + 1] = q] /\ d'["disp"] = d["disp"]
  <2>1. "disp" \in DOMAIN d BY DEF IInv, Where, Always, Kept
  <2>2. d'["imm"] = imm /\ d'["disp"] = d["disp"] BY <1>1, <1>2, <2>1, Lookup
  <2> QED BY <2>2
<1> HIDE DEF imm, ds, im, n, old
<1>8. disp_read = ds /\ imm_read < 4 /\ imm_read + 1 <= im BY <1>1, <1>4, <1>5
<1>10. Numbers'
  <2>1. Len(taken') = n + disp_read + (imm_read + 1) BY <1>3, <1>5
  <2> QED BY <1>1, <1>3, <1>5, <1>8, <1>n, <2>1 DEF Numbers, n, ds, im
<1>11. Contents'
  <2> DEFINE m == n + disp_read
  <2>m. m \in Nat /\ Len(taken) = m + imm_read /\ n + disp_read <= Len(taken) BY <1>5
  <2>0. \A j \in 1 .. imm_read : old[j] = taken[m + j]
    BY <1>6
  <2> HIDE DEF m
  <2>1. d'["imm"] \in [1 .. 4 -> Nat]
        /\ \A j \in 1 .. imm_read + 1 : d'["imm"][j] = taken'[m + j]
    <3> DEFINE b == d'["imm"]
               u == taken'
               w == 4
    <3>1. /\ w \in Nat /\ imm_read \in Nat /\ imm_read < w /\ old \in [1 .. w -> Nat]
          /\ b = [old EXCEPT ![imm_read + 1] = q] /\ u = Append(taken, q) /\ q \in Nat
      BY <1>5, <1>6, <1>7, <1>8
    <3> HIDE DEF b, u, w
    <3>2. b \in [1 .. w -> Nat] /\ \A j \in 1 .. imm_read + 1 : b[j] = u[m + j]
      BY ONLY <1>t, <2>m, <2>0, <3>1, OneMore, SMTT(30)
    <3> QED BY <3>2 DEF b, u, w
  <2>2. \A j \in 1 .. disp_read : d["disp"][j] = taken'[n + j]
    <3>1. \A j \in 1 .. disp_read : taken'[n + j] = taken[n + j]
      BY <1>5, <1>t, <2>m, StillThere
    <3> QED BY <1>6, <3>1
  <2> QED BY <1>1, <1>6, <1>7, <1>n, <2>1, <2>2 DEF Contents, n, m
<1> QED BY <1>3, <1>10, <1>11 DEF IInv

-----------------------------------------------------------------------------
(* What one step of the system does to the decoder. *)
Reset(x) ==
  /\ d' = [pc |-> x] ++ ResetFields /\ state' = "INITIAL" /\ pc' = x
  /\ disp_read' = 0 /\ imm_read' = 0 /\ taken' = <<>>
Complete  == ~set_pc /\ state = "TERMINAL" /\ OperandsRead
Jumps     == set_pc /\ Reset(next_pc) /\ ops' = 0
Retires   == Complete /\ Reset(pc) /\ ops' = ops + 1
Follows   == Complete /\ ops' = ops + 1 /\ \E q \in AnyByte : RetireNext(q) /\ taken' = <<q>>
Decodes   == ~set_pc /\ ops' = ops /\ \E q \in AnyByte : DecodeByte(q) /\ Log(q)
Reads     == ~set_pc /\ ops' = ops /\ \E q \in Nat : (ReadDisp(q) \/ ReadImm(q)) /\ Log(q)
Rests     == UNCHANGED <<decodeVars, taken, ops>>

(* The queue delivers bytes; operand bytes are numbers. *)
LEMMA OfferedBytes ==
  ASSUME Where
  PROVE  Offered \subseteq Nat /\ (~WantsOperand => Offered \subseteq AnyByte)
<1>1. stream.first \subseteq AnyByte /\ stream.further \subseteq AnyByte
      /\ stream.second \subseteq AnyByte
  BY StreamsAssumption DEF Where
<1>2. Len(taken) \in Nat BY DEF Where
<1>3. AnyByte \subseteq Nat BY DEF AnyByte
<1> QED BY <1>1, <1>2, <1>3 DEF Offered

(* A complete instruction has no byte of its own left to take. *)
LEMMA NothingToRead ==
  ASSUME IInv, state = "TERMINAL", OperandsRead, NEW q
  PROVE  ~ReadDisp(q) /\ ~ReadImm(q) /\ ~DecodeByte(q)
<1>1. disp_read \in Nat /\ imm_read \in Nat BY DEF IInv, Numbers
<1>2. ~(disp_read < d.disp_size) /\ ~(imm_read < ImmSize)
  BY <1>1 DEF OperandsRead
<1> QED BY <1>2, Zenon DEF ReadDisp, ReadImm, DecodeByte

(* Every step of the system is one of these, and leaves next_pc an offset. *)
LEMMA Steps ==
  ASSUME IInv, [Next]_vars
  PROVE  /\ next_pc' \in Offsets /\ stream' \in Streams /\ ops' \in Nat
         /\ Jumps \/ Retires \/ Follows \/ Decodes \/ Reads \/ Rests
<1>1. Where BY DEF IInv
<1>2. stream \in Streams /\ next_pc \in Offsets /\ ops \in Nat /\ pc \in Offsets BY <1>1 DEF Where
<1>3. OffsetPlus(pc, 1) # pc BY <1>2, OffsetSum
<1>4. Jumps \/ Retires \/ Follows \/ Decodes \/ Reads \/ Rests
  <2>1. CASE UNCHANGED vars
    BY <2>1 DEF vars, Rests
  <2>2. CASE set_pc /\ JumpEdge
    BY <2>2, Zenon DEF JumpEdge, FollowJump, ResetReads, Jumps, Reset
  <2>3. CASE ~set_pc /\ ByteEdge
    <3>1. PICK q \in Offered :
            /\ WithByte(q, FALSE) /\ ops' = ops
            /\ IF pc' = pc THEN UNCHANGED taken ELSE Log(q)
      BY <2>3, Zenon DEF ByteEdge
    <3>2. CASE ReadDisp(q) \/ ReadImm(q)
      <4>1. pc' = OffsetPlus(pc, 1) BY <3>2, Zenon DEF ReadDisp, ReadImm, TakeByte
      <4>2. Log(q) BY <1>3, <3>1, <4>1
      <4>3. q \in Nat BY <1>1, OfferedBytes
      <4> QED BY <2>3, <3>1, <3>2, <4>2, <4>3, Zenon DEF Reads
    <3>3. CASE DecodeByte(q)
      <4>1. pc' = OffsetPlus(pc, 1) /\ state # "TERMINAL" BY <3>3, Zenon DEF DecodeByte, TakeByte
      <4>2. Log(q) BY <1>3, <3>1, <4>1
      <4>3. ~WantsOperand BY <4>1 DEF WantsOperand
      <4>4. q \in AnyByte BY <1>1, <4>3, OfferedBytes
      <4> QED BY <2>3, <3>1, <3>3, <4>2, <4>4, Zenon DEF Decodes
    <3>4. CASE UNCHANGED decodeVars
      <4>1. pc' = pc BY <3>4 DEF decodeVars
      <4> QED BY <3>1, <3>4, <4>1 DEF Rests
    <3> QED BY <3>1, <3>2, <3>3, <3>4, Zenon DEF WithByte
  <2>4. CASE EmptyEdge
    BY <2>4, Zenon DEF EmptyEdge, WithoutByte, Rests
  <2>5. CASE RetireEdge
    <3>1. Complete /\ ops' = ops + 1
      BY <2>5, Zenon DEF RetireEdge, Valid, Complete
    <3>2. CASE WithoutByte(TRUE) /\ taken' = <<>>
      <4>1. RetireEmpty BY <3>2, Zenon DEF WithoutByte
      <4>2. Reset(pc) BY <3>2, <4>1, Zenon DEF RetireEmpty, Retire, ResetReads, Reset
      <4> QED BY <3>1, <4>2 DEF Retires
    <3>3. CASE \E q \in Offered : WithByte(q, TRUE) /\ taken' = <<q>>
      <4>1. PICK q \in Offered : WithByte(q, TRUE) /\ taken' = <<q>> BY <3>3
      <4>2. state = "TERMINAL" /\ OperandsRead BY <3>1 DEF Complete
      <4>3. RetireNext(q) BY <4>1, <4>2, NothingToRead, Zenon DEF WithByte
      <4>4. ~WantsOperand BY <4>2 DEF WantsOperand
      <4>5. q \in AnyByte BY <1>1, <4>4, OfferedBytes
      <4> QED BY <3>1, <4>1, <4>3, <4>5, Zenon DEF Follows
    <3> QED BY <2>5, <3>2, <3>3, Zenon DEF RetireEdge
  <2>6. CASE SecondEdge
    BY <2>6 DEF SecondEdge, Rests
  <2> QED BY <2>1, <2>2, <2>3, <2>4, <2>5, <2>6, Zenon DEF Next
<1>5. stream' \in Streams /\ next_pc' \in Offsets
  <2>1. CASE UNCHANGED vars BY <1>2, <2>1 DEF vars
  <2>2. CASE Next
    <3>1. UNCHANGED stream /\ EuEdge BY <2>2, Zenon DEF Next
    <3>2. next_pc' = next_pc \/ next_pc' \in stream.targets BY <3>1, Zenon DEF EuEdge
    <3>3. stream.targets \subseteq Offsets BY <1>2, StreamsAssumption
    <3> QED BY <1>2, <3>1, <3>2, <3>3
  <2> QED BY <2>1, <2>2
<1>6. ops' \in Nat
  <2>1. ops' = 0 \/ ops' = ops + 1 \/ ops' = ops
    BY <1>4, Zenon DEF Jumps, Retires, Follows, Decodes, Reads, Rests
  <2> QED BY <1>2, <2>1
<1> QED BY <1>4, <1>5, <1>6

(* The registers after power-up. *)
LEMMA IInvInit == Init => IInv
<1> SUFFICES ASSUME Init PROVE IInv OBVIOUS
<1> DEFINE r == [pc |-> 0, end_pc |-> 0, width |-> "BYTE", rm |-> 0, reg0 |-> 0, reg1 |-> 0,
                 sreg |-> "DS1", cond |-> 0, shift |-> "ROL",
                 disp |-> <<0, 0>>, imm |-> <<0, 0, 0, 0>>]
<1>1. /\ stream \in Streams /\ next_pc = 0 /\ state = "INITIAL" /\ d = NoOperation ++ r /\ pc = 0
      /\ disp_read = 0 /\ imm_read = 0 /\ taken = <<>> /\ ops = 0
  BY Zenon DEF Init, Fields
<1>2. /\ {"pc", "end_pc", "width", "rm", "disp", "imm"} \subseteq DOMAIN r
      /\ r["pc"] = 0 /\ r["disp"] \in [1 .. 2 -> Nat] /\ r["imm"] \in [1 .. 4 -> Nat]
  <2>1. <<0, 0>> \in [1 .. 2 -> Nat] /\ <<0, 0, 0, 0>> \in [1 .. 4 -> Nat] OBVIOUS
  <2> QED BY <2>1
<1> HIDE DEF r
<1>3. Own = Nothing BY <1>1, AloneEmpty DEF Own
<1>4. DOMAIN Own.fields = {} /\ Own.state = "INITIAL" /\ Own.size = 0 BY <1>3 DEF Nothing
<1>5. 0 \in Offsets BY WidthAssumption DEF Offsets
<1>6. /\ Always \subseteq DOMAIN d
      /\ d["pc"] = 0 /\ d["disp"] = r["disp"] /\ d["imm"] = r["imm"]
      /\ \A f \in DOMAIN NoOperation : f \in DOMAIN d /\ d[f] = NoOperation[f]
  <2>1. {"pc", "disp", "imm"} \cap DOMAIN NoOperation = {} BY NoOperationFields DEF Kept
  <2>2. Always = {"pc", "end_pc", "width", "rm", "disp", "imm"} BY DEF Always, Kept
  <2> QED BY <1>1, <1>2, <2>1, <2>2, Lookup
<1>7. Where
  <2>1. <<>> \in Seq(Nat) /\ Len(<<>>) = 0 OBVIOUS
  <2> QED BY <1>1, <1>5, <1>6, <2>1, OffsetSum DEF Where
<1>8. Decoded
  <2>1. OwnSet(Own.fields) = DOMAIN NoOperation BY <1>4 DEF OwnSet
  <2>2. \A f \in DOMAIN NoOperation : (Own.fields ++ NoOperation)[f] = NoOperation[f]
    BY <1>4, Lookup
  <2>3. Owned(d, Own.fields) BY <1>4, <1>6, <2>1, <2>2 DEF Owned
  <2>4. Fresh(d) BY <1>6, NoOperationFields DEF Fresh
  <2>5. Shape("INITIAL", d, OwnSet(Own.fields))
    BY <2>4 DEF Shape, SizedStates, DecodeStates, FirstByteStates
  <2> QED BY <1>1, <1>4, <2>3, <2>5 DEF Decoded
<1>9. Numbers /\ Contents
  <2>1. Len(<<>>) = 0 OBVIOUS
  <2> QED BY <1>1, <1>2, <1>4, <1>6, <2>1 DEF Numbers, Contents
<1> QED BY <1>7, <1>8, <1>9 DEF IInv

(* The invariant is inductive. *)
LEMMA IInvNext == IInv /\ [Next]_vars => IInv'
<1> SUFFICES ASSUME IInv, [Next]_vars PROVE IInv' OBVIOUS
<1>1. next_pc' \in Offsets /\ stream' \in Streams /\ ops' \in Nat BY Steps
<1>2. next_pc \in Offsets /\ pc \in Offsets BY DEF IInv, Where
<1>3. CASE Jumps
  <2>1. Reset(next_pc) BY <1>3 DEF Jumps
  <2> QED BY <1>1, <1>2, <2>1, ResetKeeps DEF Reset
<1>4. CASE Retires
  <2>1. Reset(pc) BY <1>4 DEF Retires
  <2> QED BY <1>1, <1>2, <2>1, ResetKeeps DEF Reset
<1>5. CASE Follows
  BY <1>1, <1>5, NextKeeps, Zenon DEF Follows
<1>6. CASE Decodes
  BY <1>1, <1>6, DecodeKeeps, Zenon DEF Decodes, Log
<1>7. CASE Reads
  BY <1>1, <1>7, DispKeeps, ImmKeeps, Zenon DEF Reads, Log
<1>8. CASE Rests
  <2>1. /\ state' = state /\ d' = d /\ pc' = pc /\ disp_read' = disp_read
        /\ imm_read' = imm_read /\ taken' = taken
    BY <1>8 DEF Rests, decodeVars
  <2>2. Own' = Own /\ ImmSize' = ImmSize BY <2>1 DEF Own, ImmSize
  <2>3. Where' BY <1>1, <2>1 DEF IInv, Where
  <2>4. Decoded' BY <2>1, <2>2 DEF IInv, Decoded
  <2>5. Numbers /\ Contents BY DEF IInv
  <2>6. Numbers' BY <2>1, <2>2, <2>5 DEF Numbers
  <2>7. Contents' BY <2>1, <2>2, <2>5 DEF Contents
  <2> QED BY <2>3, <2>4, <2>6, <2>7 DEF IInv
<1> QED BY <1>3, <1>4, <1>5, <1>6, <1>7, <1>8, Steps

(* The invariant holds. *)
LEMMA IInvAlways == Spec => []IInv
BY IInvInit, IInvNext, PTL DEF Spec

-----------------------------------------------------------------------------
(* A complete instruction, by itself. *)
LEMMA ValidSound ==
  ASSUME IInv, Valid(set_pc)
  PROVE  /\ state = "TERMINAL" /\ OperandsRead /\ Sound(d, OwnSet(Own.fields)) /\ taken # <<>>
<1>1. state = "TERMINAL" /\ OperandsRead BY DEF Valid
<1>2. Own.state = "TERMINAL" /\ Sound(d, OwnSet(Own.fields))
  BY <1>1 DEF IInv, Decoded, Shape
<1>3. taken # <<>>
  <2> SUFFICES ASSUME taken = <<>> PROVE FALSE OBVIOUS
  <2>1. Own = Nothing BY AloneEmpty DEF Own
  <2> QED BY <1>2, <2>1 DEF Nothing
<1> QED BY <1>1, <1>2, <1>3

(* x holds the first elements of t, and y those that follow. *)
LEMMA Joined ==
  ASSUME NEW t \in Seq(Nat), NEW x \in Seq(Nat), NEW y \in Seq(Nat),
         \A j \in 1 .. Len(x) : x[j] = t[j],
         \A j \in 1 .. Len(y) : y[j] = t[Len(x) + j]
  PROVE  /\ x \o y \in Seq(Nat) /\ Len(x \o y) = Len(x) + Len(y)
         /\ \A j \in 1 .. Len(x) + Len(y) : (x \o y)[j] = t[j]
<1>1. /\ x \o y \in Seq(Nat) /\ Len(x \o y) = Len(x) + Len(y)
      /\ \A j \in 1 .. Len(x) + Len(y) :
           (x \o y)[j] = IF j <= Len(x) THEN x[j] ELSE y[j - Len(x)]
  BY ConcatProperties
<1>2. Len(x) \in Nat /\ Len(y) \in Nat OBVIOUS
<1> DEFINE n == Len(x)
           l == Len(y)
           u == x \o y
<1>3. \A j \in 1 .. n + l : u[j] = t[j]
  <2>1. n \in Nat /\ l \in Nat BY <1>2
  <2>2. \A j \in 1 .. n + l : u[j] = IF j <= n THEN x[j] ELSE y[j - n] BY <1>1
  <2>3. (\A j \in 1 .. n : x[j] = t[j]) /\ (\A j \in 1 .. l : y[j] = t[n + j]) OBVIOUS
  <2> HIDE DEF n, l, u
  <2> TAKE j \in 1 .. n + l
  <2>4. CASE j <= n BY <2>1, <2>2, <2>3, <2>4
  <2>5. CASE ~(j <= n)
    <3>1. j - n \in 1 .. l /\ n + (j - n) = j BY <2>1, <2>5
    <3> QED BY <2>2, <2>3, <2>5, <3>1
  <2> QED BY <2>4, <2>5
<1> QED BY <1>1, <1>3

(* The first k elements of a, which has v. *)
LEMMA FirstOf ==
  ASSUME NEW v \in Nat, NEW a \in [1 .. v -> Nat], NEW k \in 0 .. v
  PROVE  /\ SubSeq(a, 1, k) \in Seq(Nat) /\ Len(SubSeq(a, 1, k)) = k
         /\ \A j \in 1 .. k : SubSeq(a, 1, k)[j] = a[j]
<1>1. a \in Seq(Nat) /\ Len(a) = v OBVIOUS
<1> QED BY <1>1

(* A sequence is its three parts. *)
LEMMA ThreeParts ==
  ASSUME NEW t \in Seq(Nat), NEW x \in Seq(Nat), NEW y \in Seq(Nat), NEW z \in Seq(Nat),
         Len(t) = Len(x) + Len(y) + Len(z),
         \A j \in 1 .. Len(x) : x[j] = t[j],
         \A j \in 1 .. Len(y) : y[j] = t[Len(x) + j],
         \A j \in 1 .. Len(z) : z[j] = t[Len(x) + Len(y) + j]
  PROVE  t = x \o y \o z
<1> DEFINE u == x \o y
<1>1. /\ u \in Seq(Nat) /\ Len(u) = Len(x) + Len(y)
      /\ \A j \in 1 .. Len(x) + Len(y) : u[j] = t[j]
  BY Joined
<1> HIDE DEF u
<1>2. /\ u \o z \in Seq(Nat) /\ Len(u \o z) = Len(u) + Len(z)
      /\ \A j \in 1 .. Len(u) + Len(z) : (u \o z)[j] = t[j]
  <2>1. \A j \in 1 .. Len(u) : u[j] = t[j] BY <1>1
  <2>2. \A j \in 1 .. Len(z) : z[j] = t[Len(u) + j] BY <1>1
  <2> QED BY <1>1, <2>1, <2>2, Joined, ZenonT(40)
<1>3. t = u \o z
  <2> DEFINE r == u \o z
  <2>1. r \in Seq(Nat) /\ Len(r) = Len(t) /\ \A j \in 1 .. Len(t) : t[j] = r[j] BY <1>1, <1>2
  <2> HIDE DEF r
  <2>2. t = r BY <2>1, SeqEqual
  <2> QED BY <2>2 DEF r
<1> QED BY <1>3 DEF u

(* The fields that the execution unit reads are among those the             *)
(* instruction's entries or reset_decode set.                               *)
LEMMA OwnFieldsHere == IInv => OwnFields
<1> SUFFICES ASSUME IInv, Valid(set_pc)
             PROVE  \A f \in FieldsRead(d) : /\ f \in OwnSet(Own.fields)
                                            /\ d[f] = (Own.fields ++ NoOperation)[f]
  BY DEF OwnFields, Own, OwnSet
<1>1. Sound(d, OwnSet(Own.fields)) BY ValidSound
<1>2. DOMAIN NoOperation \subseteq OwnSet(Own.fields) BY DEF OwnSet
<1>3. FieldsRead(d) \subseteq OwnSet(Own.fields) BY <1>1, <1>2, CoversReads DEF Sound
<1>4. Owned(d, Own.fields) BY DEF IInv, Decoded
<1> QED BY <1>3, <1>4 DEF Owned

(* The bytes of a complete instruction are those of the opcode, the         *)
(* displacement and the immediate.                                          *)
LEMMA OwnOperandsHere == IInv => OwnOperands
<1> SUFFICES ASSUME IInv, Valid(set_pc) PROVE OwnOperands BY Zenon DEF OwnOperands
<1> DEFINE n == Own.size
           ds == d.disp_size
           im == ImmSize
           a == d.disp
           b == d.imm
<1>1. state = "TERMINAL" /\ OperandsRead /\ Sound(d, OwnSet(Own.fields)) /\ taken # <<>>
  BY ValidSound
<1>2. Numbers /\ Contents /\ Where BY DEF IInv
<1>3. disp_read = ds /\ imm_read = im BY <1>1 DEF OperandsRead
<1>4. /\ ds \in 0 .. 2 /\ DispRead(d) <= ds
      /\ im \in 0 .. 4 /\ ImmRead(d) <= im
  BY <1>1, SoundBounds, ImmSizeOf
<1>5. n \in Nat /\ Len(taken) = n + ds + im
  BY <1>2, <1>3 DEF Numbers
<1>6. /\ a \in [1 .. 2 -> Nat] /\ b \in [1 .. 4 -> Nat]
      /\ \A j \in 1 .. ds : a[j] = taken[n + j]
      /\ \A j \in 1 .. im : b[j] = taken[n + ds + j]
  BY <1>2, <1>3 DEF Contents
<1>7. /\ taken \in Seq(Nat) /\ d.end_pc = pc /\ pc = OffsetPlus(d.pc, Len(taken))
  BY <1>1, <1>2 DEF Where
<1>8. taken = SubSeq(taken, 1, n) \o SubSeq(a, 1, ds) \o SubSeq(b, 1, im)
  <2> DEFINE x == SubSeq(taken, 1, n)
             y == SubSeq(a, 1, ds)
             z == SubSeq(b, 1, im)
  <2>1. x \in Seq(Nat) /\ Len(x) = n /\ \A j \in 1 .. n : x[j] = taken[j]
    <3>1. taken \in [1 .. Len(taken) -> Nat] /\ Len(taken) \in Nat BY <1>7
    <3>2. n \in 0 .. Len(taken) BY <1>4, <1>5
    <3> QED BY <3>1, <3>2, FirstOf
  <2>2. y \in Seq(Nat) /\ Len(y) = ds /\ \A j \in 1 .. ds : y[j] = a[j]
    <3>1. 2 \in Nat OBVIOUS
    <3> HIDE DEF a, ds
    <3> QED BY <1>4, <1>6, <3>1, FirstOf
  <2>3. z \in Seq(Nat) /\ Len(z) = im /\ \A j \in 1 .. im : z[j] = b[j]
    <3>1. 4 \in Nat OBVIOUS
    <3> HIDE DEF b, im
    <3> QED BY <1>4, <1>6, <3>1, FirstOf
  <2> HIDE DEF n, ds, im, a, b, x, y, z
  <2>4. Len(taken) = Len(x) + Len(y) + Len(z) BY <1>5, <2>1, <2>2, <2>3
  <2>5. \A j \in 1 .. Len(x) : x[j] = taken[j] BY <2>1
  <2>6. \A j \in 1 .. Len(y) : y[j] = taken[Len(x) + j] BY <1>6, <2>1, <2>2
  <2>7. \A j \in 1 .. Len(z) : z[j] = taken[Len(x) + Len(y) + j] BY <1>6, <2>1, <2>2, <2>3
  <2>8. taken = x \o y \o z BY <1>7, <2>1, <2>2, <2>3, <2>4, <2>5, <2>6, <2>7, ThreeParts, ZenonT(40)
  <2> QED BY <2>8 DEF x, y, z
<1> QED BY <1>4, <1>7, <1>8, Zenon DEF OwnOperands, Own

(* Every field and every byte that the execution unit reads of a valid      *)
(* instruction is the instruction's own: reset_decode leaves registers as   *)
(* the instruction before set them, and no entry of the table lets one of   *)
(* those through (nec_decode.sv, nec_decode_functions.svh).                 *)
THEOREM FieldsAreOwn == Spec => []OwnFields
BY IInvAlways, OwnFieldsHere, PTL

(* A valid instruction is its opcode bytes, its displacement and its        *)
(* immediate, from consecutive locations; no displacement or immediate byte *)
(* that the execution unit reads is left from an earlier instruction.       *)
THEOREM OperandsAreOwn == Spec => []OwnOperands
BY IInvAlways, OwnOperandsHere, PTL

(* The flags by which the execution unit fetches and writes back memory     *)
(* operands agree with the operands of the instruction, for every byte      *)
(* string (nec_decode_functions.svh, the flags of each entry).              *)
THEOREM FlagsAlwaysAgree == Spec => []MemoryFlags
<1>1. IInv => MemoryFlags BY ValidSound, SoundAgrees DEF MemoryFlags
<1> QED BY <1>1, IInvAlways, PTL

(* The execution unit has a way out of every instruction the table can      *)
(* produce: a branch has a target, an opcode outside BRANCH is not one of   *)
(* handle_branch's, pushes and pops have a list.                            *)
THEOREM AlwaysServed == Spec => []Served
<1>1. IInv => Served BY ValidSound, SoundAgrees DEF Served
<1> QED BY <1>1, IInvAlways, PTL

(* d.pc changes only where an instruction begins. *)
LEMMA OrderStep ==
  ASSUME IInv, [Next]_vars, d'.pc # d.pc
  PROVE  d'.pc = IF set_pc THEN next_pc ELSE d.end_pc
<1>1. ASSUME NEW x, Reset(x) PROVE d'.pc = x
  <2> DEFINE p == [pc |-> x]
  <2>1. "pc" \in DOMAIN p /\ p["pc"] = x /\ d' = p ++ ResetFields BY <1>1 DEF Reset
  <2> HIDE DEF p
  <2> QED BY <2>1, Lookup
<1>2. ASSUME Complete PROVE d.end_pc = pc
  <2>1. Valid(set_pc) BY <1>2 DEF Complete, Valid
  <2> QED BY <2>1, ValidSound DEF IInv, Where
<1>3. CASE Jumps BY <1>1, <1>3, Zenon DEF Jumps
<1>4. CASE Retires
  <2>1. d'.pc = pc /\ d.end_pc = pc BY <1>1, <1>2, <1>4, Zenon DEF Retires
  <2> QED BY <1>4, <2>1 DEF Retires, Complete
<1>5. CASE Follows
  <2>1. PICK q \in AnyByte : RetireNext(q) BY <1>5, Zenon DEF Follows
  <2> DEFINE e == ProcessDecode(state, q, d)
             p == [pc |-> pc, end_pc |-> OffsetPlus(pc, 1)]
  <2>2. d' = (p ++ e.fields) ++ ResetFields BY <2>1, Zenon DEF RetireNext
  <2>3. "pc" \in DOMAIN p /\ p["pc"] = pc OBVIOUS
  <2> HIDE DEF p, e
  <2>4. d'.pc = pc BY <2>2, <2>3, Lookup
  <2>5. d.end_pc = pc BY <1>2, <1>5 DEF Follows
  <2> QED BY <1>5, <2>4, <2>5 DEF Follows, Complete
<1>6. ASSUME NEW p, NEW x, d' = p ++ x, "pc" \notin DOMAIN p, x["pc"] = d["pc"], "pc" \in DOMAIN x
      PROVE  FALSE
  BY <1>6, Lookup
<1>7. "pc" \in DOMAIN d BY DEF IInv, Where, Always, Kept
<1>8. CASE Decodes
  <2>1. PICK q \in AnyByte : DecodeByte(q) BY <1>8, Zenon DEF Decodes
  <2> DEFINE e == ProcessDecode(state, q, d)
             p == [end_pc |-> OffsetPlus(pc, 1)]
             S == OwnSet(Own.fields)
  <2>2. d' = (p ++ e.fields) ++ d /\ state # "TERMINAL" BY <2>1, Zenon DEF DecodeByte
  <2>3. Advances(e, d, S)
    BY <2>2, ProcessDecodeAdvances DEF IInv, Where, Decoded, Shape
  <2>4. "pc" \notin DOMAIN e.fields BY <2>3 DEF Advances, Kept
  <2>5. "pc" \notin DOMAIN p OBVIOUS
  <2> HIDE DEF p, e
  <2>6. "pc" \notin DOMAIN (p ++ e.fields) BY <2>4, <2>5, Lookup
  <2> QED BY <1>6, <1>7, <2>2, <2>6
<1>9. CASE Reads
  <2>1. PICK q \in Nat : ReadDisp(q) \/ ReadImm(q) BY <1>9, Zenon DEF Reads
  <2>2. CASE ReadDisp(q)
    <3> DEFINE p == [disp |-> [d.disp EXCEPT ![disp_read + 1] = q], end_pc |-> OffsetPlus(pc, 1)]
    <3>1. d' = p ++ d BY <2>2, Zenon DEF ReadDisp
    <3>2. "pc" \notin DOMAIN p OBVIOUS
    <3> HIDE DEF p
    <3> QED BY <1>6, <1>7, <3>1, <3>2
  <2>3. CASE ReadImm(q)
    <3> DEFINE p == [imm |-> [d.imm EXCEPT ![imm_read + 1] = q], end_pc |-> OffsetPlus(pc, 1)]
    <3>1. d' = p ++ d BY <2>3, Zenon DEF ReadImm
    <3>2. "pc" \notin DOMAIN p OBVIOUS
    <3> HIDE DEF p
    <3> QED BY <1>6, <1>7, <3>1, <3>2
  <2> QED BY <2>1, <2>2, <2>3
<1>10. CASE Rests BY <1>10 DEF Rests, decodeVars
<1> QED BY <1>3, <1>4, <1>5, <1>8, <1>9, <1>10, Steps

(* Each instruction begins where the one before ended or at the target of   *)
(* the jump: a retirement that meets a byte in the queue does not lose its  *)
(* address.                                                                 *)
THEOREM NothingSkipped == Spec => InOrder
<1>1. IInv /\ [Next]_vars => [d'.pc # d.pc => d'.pc = IF set_pc THEN next_pc ELSE d.end_pc]_vars
  BY OrderStep
<1> QED BY <1>1, IInvAlways, PTL DEF Spec, InOrder

(* A step that neither retires nor jumps leaves a complete instruction      *)
(* alone.                                                                   *)
LEMMA HeldStep ==
  ASSUME IInv, [Next]_vars, Valid(set_pc), ops' = ops, ~set_pc'
  PROVE  Valid(set_pc') /\ UNCHANGED d
<1>1. state = "TERMINAL" /\ OperandsRead /\ ~set_pc BY DEF Valid
<1>2. ops \in Nat BY DEF IInv, Where
<1>3. Rests
  <2>1. ~Retires /\ ~Follows BY <1>2 DEF Retires, Follows
  <2>2. ~Decodes /\ ~Reads BY <1>1, NothingToRead, Zenon DEF Decodes, Reads
  <2> QED BY <1>1, <2>1, <2>2, Steps DEF Jumps
<1>4. state' = state /\ d' = d /\ disp_read' = disp_read /\ imm_read' = imm_read
  BY <1>3 DEF Rests, decodeVars
<1>5. ImmSize' = ImmSize BY <1>4 DEF ImmSize
<1> QED BY <1>1, <1>4, <1>5 DEF Valid, OperandsRead

(* The execution unit may take a valid instruction any number of cycles     *)
(* after the decoder has shown it: until it does, or jumps, no byte of the  *)
(* queue changes it (nec_decode.sv, the block on ce_1).                     *)
THEOREM InstructionHeld == Spec => ValidHeld
<1>1. IInv /\ [Next]_vars =>
        [Valid(set_pc) /\ ops' = ops /\ ~set_pc' => Valid(set_pc') /\ UNCHANGED d]_vars
  BY HeldStep
<1> QED BY <1>1, IInvAlways, PTL DEF Spec, ValidHeld
=============================================================================
