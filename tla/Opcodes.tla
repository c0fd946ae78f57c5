----------------------------- MODULE Opcodes -----------------------------
(* The instruction table: hdl/opcodes.svh, which hdl/gen_decode.py writes   *)
(* from hdl/opcodes.yaml.  For a state s of the decoder, a byte q and the   *)
(* instruction d read so far it gives the fields the byte sets and the      *)
(* state that follows.                                                      *)
(*                                                                          *)
(* A casex item is an entry and its pattern the set of bytes it matches.    *)
(* The generator sorts the items of a state by the number of their x's, and *)
(* the first one that matches is taken: the smallest set wins.              *)
EXTENDS Integers, FiniteSets

(* Assignments to fields: f where it assigns, and g everywhere else.  The   *)
(* sets of one element make TLC evaluate f, g and the result once.          *)
Merged(f, g) == [x \in DOMAIN f \cup DOMAIN g |-> IF x \in DOMAIN f THEN f[x] ELSE g[x]]
f ++ g == CHOOSE h \in {Merged(a, b) : a \in {f}, b \in {g}} : h = h

AnyByte   == 0 .. 255
Mod(q)    == q \div 64           \* q[7:6]
Middle(q) == (q \div 8) % 8      \* q[5:3]
Low(q)    == q % 8               \* q[2:0]

(* xxmmmxxx, and 00xxxlll *)
Middles(m) == {q \in AnyByte : Middle(q) \in m}
Lows(l)    == {q \in 0 .. 63 : Low(q) \in l}

Sregs    == <<"DS1", "PS", "SS", "DS0">>
AluOps   == <<"ADD", "OR", "ADDC", "SUBC", "AND", "SUB", "XOR", "CMP">>
ShiftOps == <<"ROL", "ROR", "ROLC", "RORC", "SHL", "SHR", "NONE", "SHRA">>
AW == 0
AL == 0
CW == 1

(* An instruction before its first byte (reset_decode).  The fields that    *)
(* are not here (width, rm, reg0, reg1, sreg, cond, shift, disp, imm) keep  *)
(* the values of the instruction before.                                    *)
NoOperation ==
  [segment_override |-> FALSE, segment |-> "DS0", buslock |-> FALSE,
   rep |-> "NONE", io |-> FALSE, mem_write |-> FALSE, mem_read |-> FALSE,
   mod |-> 3, dest |-> "NONE", source0 |-> "NONE", source1 |-> "NONE",
   opcode |-> "INVALID", alu_operation |-> "NONE", push |-> {}, pop |-> {},
   disp_size |-> 0, opclass |-> "MISC"]

AllPush == {"AW", "CW", "DW", "BW", "SP", "BP", "IX", "IY"}
AllPop  == (AllPush \ {"SP"}) \cup {"SKIP_SP"}

-----------------------------------------------------------------------------
(* The memory operand. *)
CalcDispSize(mem, mod) ==
  CASE mod = 0 -> IF mem = 6 THEN 2 ELSE 0
    [] mod = 1 -> 1
    [] mod = 2 -> 2
    [] mod = 3 -> 0

CalcSeg(mem, mod) ==
  IF mem \in {2, 3} \/ (mem = 6 /\ mod # 0) THEN "SS" ELSE "DS0"

MOD_MEM(q, d) ==
  [mod |-> Mod(q), rm |-> Low(q), disp_size |-> CalcDispSize(Low(q), Mod(q)),
   segment |-> IF d.segment_override THEN d.segment ELSE CalcSeg(Low(q), Mod(q))]

InMemory(q) == Mod(q) # 3
Rd(q, d)    == MOD_MEM(q, d) ++ [mem_read  |-> InMemory(q)]
Wr(q, d)    == MOD_MEM(q, d) ++ [mem_write |-> InMemory(q)]
RdWr(q, d)  == Rd(q, d) ++ [mem_write |-> InMemory(q)]

GP0(q) == [reg0 |-> Middle(q)]
SR(q)  == [sreg |-> Sregs[(Middle(q) % 4) + 1]]   \* q[4:3]
ALU(q) == [alu_operation |-> AluOps[Middle(q) + 1]]
SFT(q) == [shift |-> ShiftOps[Middle(q) + 1]]
W(bit) == [width |-> IF bit % 2 = 1 THEN "WORD" ELSE "BYTE"]
Wide   == [width |-> "WORD"]
Narrow == [width |-> "BYTE"]
Far    == [width |-> "DWORD"]

(* Operands that an entry does not name stay OPERAND_NONE (reset_decode). *)
Operand(field, x) == IF x = "NONE" THEN <<>> ELSE [f \in {field} |-> x]
Use(op, dest, s0, s1) == [opcode |-> op] ++ Operand("dest", dest)
                         ++ Operand("source0", s0) ++ Operand("source1", s1)
Alu(a, dest, s0, s1)  == Use("ALU", dest, s0, s1) ++ [alu_operation |-> a]
Branch(op, s0)        == Use(op, "NONE", s0, "NONE") ++ [opclass |-> "BRANCH"]
Just(op)              == [opcode |-> op]

Entry(bytes, next, fields) == [bytes |-> bytes, next |-> next, fields |-> fields]
Op(bytes, fields)  == Entry(bytes, "TERMINAL", fields)
Pre(bytes, fields) == Entry(bytes, "PREFIX_CONTINUE", fields)
Go(bytes, next)    == Entry(bytes, next, <<>>)
GoW(bytes, next, q) == Entry(bytes, next, W(q))

-----------------------------------------------------------------------------
(* The first byte. *)
Prefixes ==
  { Pre({\h26}, [segment |-> "DS1", segment_override |-> TRUE]),
    Pre({\h2E}, [segment |-> "PS",  segment_override |-> TRUE]),
    Pre({\h36}, [segment |-> "SS",  segment_override |-> TRUE]),
    Pre({\h3E}, [segment |-> "DS0", segment_override |-> TRUE]),
    Pre({\hF0}, [buslock |-> TRUE]),
    Pre({\hF3}, [rep |-> "Z"]),  Pre({\hF2}, [rep |-> "NZ"]),
    Pre({\h65}, [rep |-> "C"]),  Pre({\h64}, [rep |-> "NC"]) }

Branches(q) ==
  { Op({\hE9}, Branch("BR_REL", "IMM") ++ Wide),
    Op({\hEB}, Branch("BR_REL", "IMM_EXT") ++ Wide),
    Op({\hEA}, Branch("BR_ABS", "IMM") ++ Far),
    Op({\hE8}, Branch("BR_REL", "IMM") ++ Wide ++ [push |-> {"PC"}]),
    Op({\h9A}, Branch("BR_ABS", "IMM") ++ Far ++ [push |-> {"PC", "PS"}]),
    Op({\hC3}, Branch("RET", "NONE") ++ [pop |-> {"PC"}]),
    Op({\hCB}, Branch("RET", "NONE") ++ [pop |-> {"PC", "PS"}]),
    Op({\hCF}, Branch("RET", "NONE") ++ [pop |-> {"PC", "PS", "PSW"}]),
    Op({\hC2}, Branch("RET_POP_VALUE", "IMM") ++ Wide ++ [pop |-> {"PC"}]),
    Op({\hCA}, Branch("RET_POP_VALUE", "IMM") ++ Wide ++ [pop |-> {"PC", "PS"}]),
    Op(\h70 .. \h7F, Branch("B_COND", "IMM_EXT") ++ Wide ++ [cond |-> q % 16]),
    Op(\hE0 .. \hEF, Branch("B_CW_COND", "IMM_EXT") ++ Wide ++ [cond |-> q % 16]) }

Push(byte, reg) == Op({byte}, Just("PUSH") ++ [push |-> {reg}])
Pop(byte, reg)  == Op({byte}, Just("POP") ++ [pop |-> {reg}])
Gp == <<"AW", "CW", "DW", "BW", "SP", "BP", "IX", "IY">>
Frames ==
  { Op({\h60}, Just("PUSHR") ++ [push |-> AllPush]),
    Op({\h61}, Just("POPR") ++ [pop |-> AllPop]),
    Op({\h6A}, Use("PUSH", "NONE", "IMM", "NONE") ++ Narrow ++ [push |-> {"OPERAND"}]),
    Op({\h68}, Use("PUSH", "NONE", "IMM", "NONE") ++ Wide ++ [push |-> {"OPERAND"}]),
    Op({\hC8}, Use("PREPARE", "NONE", "IMM", "NONE") ++ [width |-> "TRIPLE"]),
    Op({\hC9}, Just("DISPOSE")) }
Stack ==
  {Push(\h50 + i - 1, Gp[i]) : i \in 1 .. 8} \cup
  {Pop(\h58 + i - 1, Gp[i]) : i \in 1 .. 8} \cup
  { Push(\h06, "DS1"), Push(\h0E, "PS"), Push(\h16, "SS"), Push(\h1E, "DS0"),
    Push(\h9C, "PSW"),
    Pop(\h07, "DS1"), Pop(\h17, "SS"), Pop(\h1F, "DS0"), Pop(\h9D, "PSW") } \cup
  Frames

Control ==
  { Op({\h90}, Just("NOP")),     Op({\hF4}, Just("HALT")),
    Op({\hF5}, Just("NOT1_CY")), Op({\hF8}, Just("CLR1_CY")), Op({\hF9}, Just("SET1_CY")),
    Op({\hFA}, Just("DI")),      Op({\hFB}, Just("EI")),
    Op({\hFC}, Just("CLR1_DIR")), Op({\hFD}, Just("SET1_DIR")),
    Op({\hCC}, Just("BRK3")),    Op({\hCE}, Just("BRKV")),
    Op({\hCD}, Use("BRK", "NONE", "IMM", "NONE") ++ Narrow),
    Op({\hD7}, Just("TRANS")),
    Op({\h9F}, Just("MOV_AH_PSW")), Op({\h9E}, Just("MOV_PSW_AH")) }

Adjust(byte, op, r, width) ==
  Op({byte}, Alu(op, "REG_0", "REG_0", "NONE") ++ [reg0 |-> r] ++ width)
Conversions ==
  { Adjust(\h27, "ADJ4A", AL, Narrow), Adjust(\h2F, "ADJ4S", AL, Narrow),
    Adjust(\h37, "ADJBA", AW, Wide),   Adjust(\h3F, "ADJBS", AW, Wide),
    Op({\hD5}, Use("CVTDB", "NONE", "IMM8", "NONE")),
    Op({\hD4}, Use("CVTBD", "NONE", "IMM8", "NONE")),
    Op({\h98}, Just("CVTBW")), Op({\h99}, Just("CVTWL")) }

(* OUTM's pattern has seven characters in the yaml file: the generator adds *)
(* the eighth at its end, and the width bit is then q[1].                   *)
Block(q) ==
  { Op({\hAA, \hAB}, Just("STM") ++ W(q)),   Op({\hA6, \hA7}, Just("CMPBK") ++ W(q)),
    Op({\hAE, \hAF}, Just("CMPM") ++ W(q)),  Op({\hAC, \hAD}, Just("LDM") ++ W(q)),
    Op({\hA4, \hA5}, Just("MOVBK") ++ W(q)), Op({\h6C, \h6D}, Just("INM") ++ W(q)),
    Op(\h6C .. \h6F, Just("OUTM") ++ W(q \div 2)) }

Direct == [rm |-> 6, mod |-> 0, disp_size |-> CalcDispSize(6, 0)]
Disp8  == [disp_size |-> 1]
Input  == [mem_read |-> TRUE, io |-> TRUE]
OutputUnwritten == [io |-> TRUE]   \* mutant
Output == [mem_write |-> TRUE, io |-> TRUE]
Moves(q) ==
  { Op({\hA0, \hA1}, Use("MOV", "ACC", "MODRM", "NONE") ++ Direct ++ [mem_read |-> TRUE] ++ W(q)),
    Op({\hA2, \hA3}, Use("MOV", "MODRM", "ACC", "NONE") ++ Direct ++ [mem_write |-> TRUE] ++ W(q)),
    Op(\hB0 .. \hBF, Use("MOV", "REG_0", "IMM", "NONE") ++ [reg0 |-> Low(q)] ++ W(q \div 8)),
    Op(\h90 .. \h97, Use("XCH", "REG_1", "REG_0", "REG_1") ++ [reg0 |-> Low(q), reg1 |-> AW] ++ Wide),
    Op({\hE4, \hE5}, Use("MOV", "ACC", "IO_DIRECT", "NONE") ++ Input ++ Disp8 ++ W(q)),
    Op({\hEC, \hED}, Use("MOV", "ACC", "IO_INDIRECT", "NONE") ++ Input ++ W(q)),
    Op({\hE6, \hE7}, Use("MOV", "IO_DIRECT", "ACC", "NONE") ++ Output ++ Disp8 ++ W(q)),
    Op({\hEE, \hEF}, Use("MOV", "IO_INDIRECT", "ACC", "NONE") ++ Output ++ W(q)) }

Arithmetic(q) ==
  { Op({\h3C, \h3D}, Alu("CMP", "NONE", "ACC", "IMM") ++ W(q)),
    Op({\hA8, \hA9}, Alu("AND", "NONE", "ACC", "IMM") ++ W(q)),
    Op(\h48 .. \h4F, Alu("DEC", "REG_0", "REG_0", "NONE") ++ [reg0 |-> Low(q)] ++ Wide),
    Op(\h40 .. \h47, Alu("INC", "REG_0", "REG_0", "NONE") ++ [reg0 |-> Low(q)] ++ Wide),
    Op(Lows({4, 5}), Use("ALU", "ACC", "ACC", "IMM") ++ ALU(q) ++ W(q)),
    Entry(Lows({0, 1}), "ROOT_00xxx00x", ALU(q) ++ W(q)),
    Entry(Lows({2, 3}), "ROOT_00xxx01x", ALU(q) ++ W(q)),
    GoW({\h38, \h39}, "ROOT_0011100x", q), GoW({\h3A, \h3B}, "ROOT_0011101x", q) }

Continued(q) ==
  { Go({\hFF}, "ROOT_11111111"), Go({\hFE}, "ROOT_11111110"),
    Go({\hF6}, "ROOT_11110110"), Go({\hF7}, "ROOT_11110111"),
    Go({\h6B}, "ROOT_01101011"), Go({\h69}, "ROOT_01101001"),
    Go({\h8D}, "ROOT_10001101"), Go({\h8E}, "ROOT_10001110"), Go({\h8C}, "ROOT_10001100"),
    Go({\hC5}, "ROOT_11000101"), Go({\hC4}, "ROOT_11000100"),
    Go({\h8F}, "ROOT_10001111"), Go({\h62}, "ROOT_01100010"), Go({\h0F}, "ROOT_00001111"),
    GoW({\h80, \h81}, "ROOT_1000000x", q), GoW({\h82, \h83}, "ROOT_1000001x", q),
    GoW({\hD0, \hD1}, "ROOT_1101000x", q), GoW({\hD2, \hD3}, "ROOT_1101001x", q),
    GoW({\hC0, \hC1}, "ROOT_1100000x", q), GoW({\h84, \h85}, "ROOT_1000010x", q),
    GoW({\h88, \h89}, "ROOT_1000100x", q), GoW({\h8A, \h8B}, "ROOT_1000101x", q),
    GoW({\hC6, \hC7}, "ROOT_1100011x", q), GoW({\h86, \h87}, "ROOT_1000011x", q) }

Root(q) == Prefixes \cup Branches(q) \cup Stack \cup Control \cup Conversions
           \cup Block(q) \cup Moves(q) \cup Arithmetic(q) \cup Continued(q)

-----------------------------------------------------------------------------
(* The second byte: register forms, groups told apart by q[5:3], and the    *)
(* instructions behind 0F.                                                  *)
Registers(s, q, d) ==
  CASE s = "ROOT_00xxx00x" -> { Op(AnyByte, Use("ALU", "MODRM", "MODRM", "REG_0") ++ RdWr(q, d) ++ GP0(q)) }
    [] s = "ROOT_00xxx01x" -> { Op(AnyByte, Use("ALU", "REG_0", "REG_0", "MODRM") ++ Rd(q, d) ++ GP0(q)) }
    [] s = "ROOT_0011100x" -> { Op(AnyByte, Alu("CMP", "NONE", "MODRM", "REG_0") ++ Rd(q, d) ++ GP0(q)) }
    [] s = "ROOT_0011101x" -> { Op(AnyByte, Alu("CMP", "NONE", "REG_0", "MODRM") ++ Rd(q, d) ++ GP0(q)) }
    [] s = "ROOT_1000010x" -> { Op(AnyByte, Alu("AND", "NONE", "MODRM", "REG_0") ++ Rd(q, d) ++ GP0(q)) }
    [] s = "ROOT_1000011x" -> { Op(AnyByte, Use("XCH", "MODRM", "REG_0", "MODRM") ++ RdWr(q, d) ++ GP0(q)) }
    [] s = "ROOT_1000100x" -> { Op(AnyByte, Use("MOV", "MODRM", "REG_0", "NONE") ++ Wr(q, d) ++ GP0(q)) }
    [] s = "ROOT_1000101x" -> { Op(AnyByte, Use("MOV", "REG_0", "MODRM", "NONE") ++ Rd(q, d) ++ GP0(q)) }
    [] s = "ROOT_01101011" -> { Op(AnyByte, Use("MUL", "REG_0", "MODRM", "IMM_EXT") ++ Rd(q, d) ++ GP0(q) ++ Wide) }
    [] s = "ROOT_01101001" -> { Op(AnyByte, Use("MUL", "REG_0", "MODRM", "IMM") ++ Rd(q, d) ++ GP0(q) ++ Wide) }
    [] s = "ROOT_10001101" -> { Op(AnyByte, Use("LDEA", "REG_0", "MODRM", "NONE") ++ Rd(q, d) ++ GP0(q) ++ Wide) }
    [] s = "ROOT_01100010" -> { Op(AnyByte, Use("CHKIND", "NONE", "MODRM", "NONE") ++ Rd(q, d) ++ GP0(q) ++ Far) }
    [] s = "ROOT_11000101" -> { Op(AnyByte, Use("MOV_SEG", "NONE", "MODRM", "NONE") ++ Rd(q, d) ++ GP0(q)
                                    ++ Far ++ [sreg |-> "DS0"]) }
    [] s = "ROOT_11000100" -> { Op(AnyByte, Use("MOV_SEG", "NONE", "MODRM", "NONE") ++ Rd(q, d) ++ GP0(q)
                                    ++ Far ++ [sreg |-> "DS1"]) }
    [] s = "ROOT_10001110" -> { Op(Middles(0 .. 3), Use("MOV", "SREG", "MODRM", "NONE") ++ Rd(q, d) ++ SR(q) ++ Wide) }
    [] s = "ROOT_10001100" -> { Op(Middles(0 .. 3), Use("MOV", "MODRM", "SREG", "NONE") ++ Wr(q, d) ++ SR(q) ++ Wide) }

Immediate(q, d, imm) ==
  { Op(Middles({7}), Alu("CMP", "NONE", "MODRM", imm) ++ Rd(q, d)),
    Op(AnyByte, Use("ALU", "MODRM", "MODRM", imm) ++ RdWr(q, d) ++ ALU(q)) }
Shift(q, d, op, count) == Op(AnyByte, Use(op, "MODRM", "MODRM", count) ++ RdWr(q, d) ++ SFT(q))
UnaryOff(q, d, m, a, width) ==   \* mutant: the next group
  Op(Middles({m + 1}), Alu(a, "MODRM", "MODRM", "NONE") ++ RdWr(q, d) ++ width)
Unary(q, d, m, a, width) == Op(Middles({m}), Alu(a, "MODRM", "MODRM", "NONE") ++ RdWr(q, d) ++ width)
Indirect(q, d, m, width) == Op(Middles({m}), Branch("BR_ABS", "MODRM") ++ Rd(q, d) ++ width)
CallMisc(q, d, m, width, list) ==   \* mutant: not a branch
  Op(Middles({m}), Use("BR_ABS", "NONE", "MODRM", "NONE") ++ Rd(q, d) ++ width ++ [push |-> list])
Call(q, d, m, width, list) ==
  Op(Middles({m}), Branch("BR_ABS", "MODRM") ++ Rd(q, d) ++ width ++ [push |-> list])
MulDiv(q, d, width) ==
  { Op(Middles({0}), Alu("AND", "NONE", "MODRM", "IMM") ++ Rd(q, d) ++ width),
    Unary(q, d, 2, "NOT", width), Unary(q, d, 3, "NEG", width),
    Op(Middles({4}), Use("MULU", "PRODUCT", "ACC", "MODRM") ++ Rd(q, d) ++ width),
    Op(Middles({5}), Use("MUL", "PRODUCT", "ACC", "MODRM") ++ Rd(q, d) ++ width),
    Op(Middles({6}), Use("DIVU", "NONE", "MODRM", "NONE") ++ Rd(q, d) ++ width),
    Op(Middles({7}), Use("DIV", "NONE", "MODRM", "NONE") ++ Rd(q, d) ++ width) }

Groups(s, q, d) ==
  CASE s = "ROOT_1000000x" -> Immediate(q, d, "IMM")
    [] s = "ROOT_1000001x" -> Immediate(q, d, "IMM_EXT")
    [] s = "ROOT_1101000x" -> { Shift(q, d, "SHIFT1", "NONE") }
    [] s = "ROOT_1101001x" -> { Op(AnyByte, Shift(q, d, "SHIFT", "REG_1").fields ++ [reg1 |-> CW]) }
    [] s = "ROOT_1100000x" -> { Shift(q, d, "SHIFT", "IMM8") }
    [] s = "ROOT_11111110" -> { Unary(q, d, 1, "DEC", Narrow), Unary(q, d, 0, "INC", Narrow) }
    [] s = "ROOT_11111111" -> { Unary(q, d, 1, "DEC", Wide), Unary(q, d, 0, "INC", Wide),
                        Indirect(q, d, 4, Wide), Indirect(q, d, 5, Far),
                        Call(q, d, 2, Wide, {"PC"}), Call(q, d, 3, Far, {"PC", "PS"}),
                        Op(Middles({6}), Use("PUSH", "NONE", "MODRM", "NONE") ++ Rd(q, d) ++ Wide
                                         ++ [push |-> {"OPERAND"}]) }
    [] s = "ROOT_11110110" -> MulDiv(q, d, Narrow)
    [] s = "ROOT_11110111" -> MulDiv(q, d, Wide)
    [] s = "ROOT_1100011x" -> { Op(Middles({0}), Use("MOV", "MODRM", "IMM", "NONE") ++ Wr(q, d)) }
    [] s = "ROOT_10001111" -> { Op(Middles({0}), Use("POP", "MODRM", "NONE", "NONE") ++ Wr(q, d) ++ Wide
                                         ++ [pop |-> {"OPERAND"}]) }

Bit(q, d, a, count) == { Op(Middles({0}), Alu(a, "MODRM", "MODRM", count) ++ RdWr(q, d)) }
Test(q, d, count)   == { Op(Middles({0}), Alu("TEST1", "NONE", "MODRM", count) ++ Rd(q, d)) }
Nibbles(q, d, op)   == { Op(Middles({0}), Use(op, "MODRM", "MODRM", "NONE") ++ RdWr(q, d) ++ Narrow) }
BitField(q, op, s1, more) == Use(op, "REG_0", "REG_0", s1) ++ [reg0 |-> Low(q)] ++ Narrow ++ more
GP1(q) == [reg1 |-> Middle(q)]

Group3(s, q, d) ==
  CASE s = "ROOT_00001111" ->
      { Op({\h20}, Just("ADD4S")), Op({\h22}, Just("SUB4S")), Op({\h26}, Just("CMP4S")),
        Go({\h2A}, "ROOT_00001111_00101010"), Go({\h28}, "ROOT_00001111_00101000"),
        Go({\h33}, "ROOT_00001111_00110011"), Go({\h31}, "ROOT_00001111_00110001"),
        Go({\h39}, "ROOT_00001111_00111001"),
        GoW({\h10, \h11}, "ROOT_00001111_0001000x", q), GoW({\h18, \h19}, "ROOT_00001111_0001100x", q),
        GoW({\h12, \h13}, "ROOT_00001111_0001001x", q), GoW({\h1A, \h1B}, "ROOT_00001111_0001101x", q),
        GoW({\h14, \h15}, "ROOT_00001111_0001010x", q), GoW({\h1C, \h1D}, "ROOT_00001111_0001110x", q),
        GoW({\h16, \h17}, "ROOT_00001111_0001011x", q), GoW({\h1E, \h1F}, "ROOT_00001111_0001111x", q) }
    [] s = "ROOT_00001111_0001000x" -> Test(q, d, "CL")
    [] s = "ROOT_00001111_0001100x" -> Test(q, d, "IMM8")
    [] s = "ROOT_00001111_0001001x" -> Bit(q, d, "CLR1", "CL")
    [] s = "ROOT_00001111_0001101x" -> Bit(q, d, "CLR1", "IMM8")
    [] s = "ROOT_00001111_0001010x" -> Bit(q, d, "SET1", "CL")
    [] s = "ROOT_00001111_0001110x" -> Bit(q, d, "SET1", "IMM8")
    [] s = "ROOT_00001111_0001011x" -> Bit(q, d, "NOT1", "CL")
    [] s = "ROOT_00001111_0001111x" -> Bit(q, d, "NOT1", "IMM8")
    [] s = "ROOT_00001111_00101010" -> Nibbles(q, d, "ROR4")
    [] s = "ROOT_00001111_00101000" -> Nibbles(q, d, "ROL4")
    [] s = "ROOT_00001111_00110011" -> { Op(\hC0 .. \hC7, BitField(q, "EXT", "IMM", <<>>)),
                                 Op(\hC0 .. \hFF, BitField(q, "EXT", "REG_1", GP1(q))) }
    [] s = "ROOT_00001111_00110001" -> { Op(\hC0 .. \hFF, BitField(q, "EXT", "REG_1", GP1(q))) }
    [] s = "ROOT_00001111_00111001" -> { Op(\hC0 .. \hC7, BitField(q, "INS", "IMM", <<>>)) }

-----------------------------------------------------------------------------
(* process_decode.  Every state without a task of its own starts an         *)
(* instruction, or goes on after a prefix or after an illegal byte.         *)
RegisterStates ==
  { "ROOT_00xxx00x", "ROOT_00xxx01x", "ROOT_0011100x", "ROOT_0011101x", "ROOT_1000010x",
    "ROOT_1000011x", "ROOT_1000100x", "ROOT_1000101x", "ROOT_01101011", "ROOT_01101001",
    "ROOT_10001101", "ROOT_01100010", "ROOT_11000101", "ROOT_11000100", "ROOT_10001110",
    "ROOT_10001100" }
GroupStates ==
  { "ROOT_1000000x", "ROOT_1000001x", "ROOT_1101000x", "ROOT_1101001x", "ROOT_1100000x",
    "ROOT_11111110", "ROOT_11111111", "ROOT_11110110", "ROOT_11110111", "ROOT_1100011x",
    "ROOT_10001111" }
Group3States ==
  { "ROOT_00001111", "ROOT_00001111_0001000x", "ROOT_00001111_0001100x",
    "ROOT_00001111_0001001x", "ROOT_00001111_0001101x", "ROOT_00001111_0001010x",
    "ROOT_00001111_0001110x", "ROOT_00001111_0001011x", "ROOT_00001111_0001111x",
    "ROOT_00001111_00101010", "ROOT_00001111_00101000", "ROOT_00001111_00110011",
    "ROOT_00001111_00110001", "ROOT_00001111_00111001" }
SecondByteStates == RegisterStates \cup GroupStates \cup Group3States
FirstByteStates  == {"INITIAL", "TERMINAL", "PREFIX_CONTINUE", "ILLEGAL"}
DecodeStates     == FirstByteStates \cup SecondByteStates

Entries(s, q, d) ==
  CASE s \in RegisterStates  -> Registers(s, q, d)
    [] s \in GroupStates     -> Groups(s, q, d)
    [] s \in Group3States    -> Group3(s, q, d)
    [] s \in FirstByteStates -> Root(q)

(* The items that match with the fewest x's; more than one would mean that  *)
(* the order of the yaml file decides.                                      *)
Fewest(hits) == {e \in hits : \A f \in hits : Cardinality(e.bytes) <= Cardinality(f.bytes)}
Best(s, q, d) == Fewest({e \in Entries(s, q, d) : q \in e.bytes})

Chosen(best, q) == IF best = {} THEN Entry({q}, "ILLEGAL", <<>>) ELSE CHOOSE e \in best : TRUE
ProcessDecode(s, q, d) == Chosen(Best(s, q, d), q)
=============================================================================
