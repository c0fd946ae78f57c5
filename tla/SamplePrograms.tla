-------------------------- MODULE SamplePrograms --------------------------
(* Programs for TLC's runs of the execution unit and of the whole core:     *)
(* between them they use every opcode.                                      *)
EXTENDS MachineCode

(* IX and IY point into DS0 and DS1, BW at an operand, BP and SP into SS.   *)
Low ==
  [regs |-> [AW |-> \h1234, CW |-> 3, DW |-> \h0010, BW |-> \h0100,
             SP |-> \h0800, BP |-> \h0900, IX |-> \h0200, IY |-> \h0300],
   sregs |-> [DS0 |-> \h2000, DS1 |-> \h3000, SS |-> \h4000, PS |-> 0],
   flags |-> [V |-> 0, S |-> 0, Z |-> 0, AC |-> 0, P |-> 0, CY |-> 0,
              DIR |-> 0, IE |-> 0, BRK |-> 0]]

(* At the ends: registers that wrap, odd addresses, negative values, nothing *)
(* to repeat, all flags set.                                                *)
Edge0 ==
  [regs |-> [AW |-> \hFF9A, CW |-> 0, DW |-> \hFFFF, BW |-> \hFFF1,
             SP |-> 2, BP |-> \h0003, IX |-> \h0001, IY |-> \hFFF9],
   sregs |-> [DS0 |-> \hFFFF, DS1 |-> \h2001, SS |-> \h5000, PS |-> 0],
   flags |-> [V |-> 1, S |-> 1, Z |-> 1, AC |-> 1, P |-> 1, CY |-> 1,
              DIR |-> 1, IE |-> 1, BRK |-> 1]]
Both == {Low, Edge0}

(* Serves an interrupt: something to see, and the return. *)
Handler == << <<\h40>>, <<\hCF>> >>                  \* INC AW; RETI

Transfers == <<
  <<\h89, \h40, \h05>>,          \* MOV [BW+IX+5], AW
  <<\h8B, \h50, \h05>>,          \* MOV DW, [BW+IX+5]
  <<\h91>>,                      \* XCH CW, AW
  <<\h87, \h17>>,                \* XCH [BW], DW
  <<\h86, \hC4>>,                \* XCH AL, AH
  <<\h26, \hC6, \h07, \h56>>,    \* MOV DS1:[BW], 56
  <<\hA0, \h00, \h01>>,          \* MOV AL, [0100]
  <<\hD7>>,                      \* TRANS
  <<\h8E, \hC0>>,                \* MOV DS1, AW
  <<\h8C, \h07>>,                \* MOV [BW], DS1
  <<\h8D, \h72, \h02>>,          \* LDEA IX, [BP+IX+2]
  <<\hE4, \h05>>, <<\hEF>>, <<\hED>>, <<\hE6, \h7F>>,  \* IN, OUT
  <<\hC5, \h37>>,                \* MOV DS0, IX, [BW]
  <<\hC4, \h3F>>                 \* MOV DS1, IY, [BW]
>>

Flagging == <<
  <<\hF5>>, <<\hF9>>, <<\hF8>>,  \* NOT1, SET1, CLR1 CY
  <<\hFD>>, <<\hFC>>, <<\hFA>>, <<\hFB>>,  \* DIR and IE
  <<\h9F>>, <<\h9E>>, <<\h98>>, <<\h99>>,  \* MOV AH, PSW and back; CVTBW; CVTWL
  <<\hD5, \h0A>>, <<\h27>>, <<\h2F>>, <<\h37>>, <<\h3F>>, <<\hD4, \h0A>>,
  <<\h90>>, <<\hF4>>             \* NOP; HALT
>>

Computing == <<
  <<\h05, \hFF, \h0F>>,          \* ADD AW, 0FFF
  <<\h11, \h07>>,                \* ADDC [BW], AW
  <<\h1A, \h04>>,                \* SUBC AL, [IX]
  <<\h3B, \h07>>,                \* CMP AW, [BW]
  <<\hFE, \h0F>>,                \* DEC byte [BW]
  <<\hF7, \h17>>, <<\hF6, \h1F>>,  \* NOT [BW]; NEG byte [BW]
  <<\h83, \hE9, \hFF>>,          \* SUB CW, -1
  <<\h0F, \h1D, \h07, \h0B>>,    \* SET1 [BW], 11
  <<\h0F, \h12, \hC1>>,          \* CLR1 CL, CL
  <<\h0F, \h28, \h07>>,          \* ROL4 [BW]
  <<\h0F, \h2A, \hC1>>           \* ROR4 CL
>>

Shifting == <<
  <<\hD1, \hE0>>, <<\hD0, \h1F>>,  \* SHL AW, 1; RORC byte [BW], 1
  <<\hB1, \h03>>,                \* MOV CL, 3
  <<\hD3, \h3F>>, <<\hD2, \hC4>>, <<\hD3, \h17>>,  \* SHRA [BW]; ROL AH; ROLC [BW] by CL
  <<\hC1, \hE8, \h02>>,          \* SHR AW, 2
  <<\hC0, \h0F, \h00>>,          \* ROR byte [BW], 0
  <<\hF6, \hE4>>, <<\hF7, \h2F>>,  \* MULU AH; MUL [BW]
  <<\h6B, \h0F, \hFE>>           \* MUL CW, [BW], -2
>>
Dividing == <<
  <<\hBA, \h01, \h00>>, <<\hB9, \h34, \h12>>,  \* MOV DW, 1; MOV CW, 1234
  <<\hF7, \hF1>>,                \* DIVU CW
  <<\hB1, \hFB>>, <<\hB4, \h00>>,  \* MOV CL, -5; MOV AH, 0
  <<\hF6, \hF9>>,                \* DIV CL
  <<\hF6, \h37>>,                \* DIVU byte [BW]
  <<\hF7, \h3F>>,                \* DIV [BW]
  <<\hF7, \hF2>>                 \* DIVU DW
>>

Stacking == <<
  <<\h54>>, <<\h9C>>, <<\h0E>>,  \* PUSH SP, PSW, PS
  <<\h6A, \hF0>>, <<\h68, \h22, \h11>>, <<\hFF, \h37>>,  \* PUSH F0, 1122, [BW]
  <<\h60>>, <<\h61>>,            \* PUSH R; POP R
  <<\h8F, \h07>>, <<\h8F, \hC1>>,  \* POP [BW]; POP CW
  <<\h07>>, <<\h5C>>,            \* POP DS1; POP SP
  <<\h17>>, <<\h9D>>             \* POP SS; POP PSW
>>

(* A loop, conditions that hold and do not, and calls near and far. *)
Branching0 == <<
  <<\hB9, \h02, \h00>>,          \* 0: MOV CW, 2
  <<\h48>>,                      \* 3: DEC AW
  <<\hE2, \hFD>>,                \* 4: DBNZ 3
  <<\hE3, \h01>>, <<\h40>>,      \* 6: BCWZ 9; 8: INC AW
  <<\hE0, \h00>>, <<\hE1, \h00>>,  \* 9: DBNZNE 11; 11: DBNZE 13
  <<\h74, \h01>>, <<\h40>>,      \* 13: BZ 16; 15: INC AW
  <<\h75, \h01>>, <<\h48>>,      \* 16: BNZ 19; 18: DEC AW
  <<\hE8, \h08, \h00>>,          \* 19: CALL 30
  <<\h9A, \h00, \h00, \h00, \h10>>,  \* 22: CALL 1000:0, the subroutine
  <<\hE9, \h04, \h00>>,          \* 27: BR 34
  <<\hC2, \h02, \h00>>,          \* 30: RET 2
  <<\h90>>,
  <<\hBB, \h26, \h00>>,          \* 34: MOV BW, 38
  <<\h90>>,
  <<\hFF, \hE3>>                 \* 38: BR BW: there is no next instruction
>>
Subroutine == << <<\h48>>, <<\hCB>> >>   \* DEC AW; RET far

(* Jumps and calls through memory.  The cells at DS0:100 lead to Subroutine. *)
Pointers == <<
  <<\hFF, \h1F>>,                \* CALL far [BW]
  <<\hFF, \hD0>>,                \* 2: CALL AW, which is 1233 after Subroutine
  <<\h90>>
>>
JumpTable == <<
  <<\hB8, \h07, \h00>>, <<\hFF, \hD0>>, <<\hEB, \h01>>,  \* MOV AW, 7; CALL AW; 5: BR 8
  <<\hC3>>,                      \* 7: RET
  <<\h0E>>, <<\h68, \h0E, \h00>>,  \* 8: PUSH PS; PUSH 14
  <<\hFF, \h2F>>                 \* 12: BR far [BW]: Subroutine returns to 14
>>

Blocks == <<
  <<\hF3, \hAB>>, <<\hAA>>,      \* REP STMW; STMB
  <<\hB9, \h02, \h00>>, <<\hF3, \hA5>>, <<\hA4>>,   \* MOV CW, 2; REP MOVBKW; MOVBKB
  <<\hB9, \h02, \h00>>, <<\hF3, \h6C>>, <<\h6D>>,   \* REP INMB; INMW
  <<\hB9, \h02, \h00>>, <<\hF3, \h6E>>, <<\h6F>>    \* REP OUTM; OUTM
>>
Loading == <<
  <<\hAD>>, <<\hF3, \hAC>>       \* LDMW; REP LDMB
>>
Comparing == <<
  <<\hB9, \h03, \h00>>, <<\hF3, \hA7>>,  \* MOV CW, 3; REPZ CMPBKW
  <<\hF2, \hA6>>, <<\hA6>>,              \* REPNZ CMPBKB; CMPBKB
  <<\hB9, \h03, \h00>>, <<\h65, \hAE>>,  \* REPC CMPMB
  <<\hB9, \h03, \h00>>, <<\h64, \hAF>>,  \* REPNC CMPMW
  <<\hAF>>                               \* CMPMW
>>

Frames == <<
  <<\hC8, \h04, \h00, \h03>>,    \* PREPARE 4, 3
  <<\hC8, \h02, \h00, \h01>>,    \* PREPARE 2, 1
  <<\hC8, \h00, \h00, \h00>>,    \* PREPARE 0, 0
  <<\hC9>>, <<\hC9>>, <<\hC9>>   \* DISPOSE
>>
Raising == <<
  <<\h62, \h07>>,                \* CHKIND AW, [BW]
  <<\hCC>>, <<\hCD, \h21>>, <<\hCE>>,  \* BRK 3; BRK 21; BRKV
  <<\hB8, \hFF, \h7F>>, <<\h40>>, <<\hCE>>  \* MOV AW, 7FFF; INC AW; BRKV
>>

Decimal0 == <<
  <<\hB1, \h04>>,                \* MOV CL, 4
  <<\h0F, \h20>>, <<\h0F, \h26>>, <<\h0F, \h22>>  \* ADD4S; CMP4S; SUB4S
>>
(* Fields that fit in a byte, and one up to the last bit of a word. *)
FieldOps == <<
  <<\hB1, \h02>>, <<\hB2, \h03>>,  \* MOV CL, 2; MOV DL, 3
  <<\h0F, \h33, \hD1>>,            \* EXT CL, DL
  <<\h0F, \h39, \hC1, \h00>>,      \* INS CL, 0
  <<\h0F, \h33, \hC1, \h01>>       \* EXT CL, 1
>>

(* Reads and writes that overlap, under the lock and not. *)
Locking == <<
  <<\hBB, \h01, \h01>>,          \* MOV BW, 0101
  <<\hF0, \h01, \h07>>,          \* BUSLOCK ADD [BW], AW
  <<\h88, \h67, \h01>>,          \* MOV [BW+1], AH
  <<\hF0, \h87, \h17>>,          \* BUSLOCK XCH [BW], DW
  <<\h8B, \h0F>>                 \* MOV CW, [BW]
>>

(* After the last instruction: BR $. *)
Forever == << <<\hEB, \hFE>> >>

Reset0 == << <<\h9C>>, <<\h58>>, <<\hAA>>, <<\hCC>>, <<\hD3, \hE9>> >>
                                 \* PUSH PSW; POP AW; STMB; BRK 3; SHR CW, CL

(* Program p is at Segment(p):0, Subroutine at 1000:0, Reset0 at FFFF:0. *)
AllPrograms ==
  << Subroutine, Handler, Transfers, Flagging, Computing, Shifting, Dividing, Stacking,
     Branching0, Pointers, JumpTable, Blocks, Comparing, Frames, Raising, Decimal0, FieldOps,
     Locking, Loading, Reset0 >>
Whole(p) == AllPrograms[p] \o Forever
Segment(p) == IF p = Len(AllPrograms) THEN \hFFFF ELSE \h1000 + (16 * (p - 1))
Bottom(p)  == 16 * Segment(p)
Bytes(p)   == FlattenSeq(Whole(p))
Offset0(p, n) == Len(FlattenSeq(SubSeq(Whole(p), 1, n - 1)))

Places == {<<p, n>> \in (DOMAIN AllPrograms) \X (1 .. 30) : n \in DOMAIN Whole(p)}
At0(x) == Bottom(x[1]) + Offset0(x[1], x[2])
AllCode ==
  [a \in {At0(x) : x \in Places} |->
     LET x == CHOOSE y \in Places : At0(y) = a
     IN  Decode(Whole(x[1])[x[2]], Offset0(x[1], x[2]))]
CodeBytes ==
  [a \in UNION {Bottom(p) .. Bottom(p) + Len(Bytes(p)) - 1 : p \in DOMAIN AllPrograms} |->
     LET p == CHOOSE q \in DOMAIN AllPrograms : a \in Bottom(q) .. Bottom(q) + 255
     IN  Bytes(p)[a - Bottom(p) + 1]]

(* DS0:100 holds the far address 1000:0; decimal and equal strings are at   *)
(* the places Low points to; Handler serves all vectors that are used.      *)
Operands0 ==
  (\h20100 :> 0) @@ (\h20101 :> 0) @@ (\h20102 :> 0) @@ (\h20103 :> \h10) @@
  (\h20200 :> \h58) @@ (\h20201 :> \h49) @@ (\h30300 :> \h67) @@ (\h30301 :> \h99) @@
  (\h20202 :> 7) @@ (\h30302 :> 7)
VectorTable ==
  [a \in UNION {4 * v .. (4 * v) + 3 : v \in {0, 3, 4, 5, \h21, \h40}} |->
     <<0, 0, Segment(2) % 256, Segment(2) \div 256>>[(a % 4) + 1]]
AllContents == Operands0 @@ VectorTable @@ CodeBytes

(* Every program, begun with b's registers and flags. *)
Begin(p, b, ie, interrupts, cuts) ==
  [regs |-> b.regs, sregs |-> [b.sregs EXCEPT !.PS = Segment(p)],
   flags |-> [b.flags EXCEPT !.IE = ie], irqs |-> interrupts, resets |-> cuts]
=============================================================================
