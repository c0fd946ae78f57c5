---------------------------- MODULE MachineCode ----------------------------
(* The instruction that a sequence of bytes stands for: what the decoder    *)
(* hands to the execution unit (DecodeSystem checks that it is this).       *)
EXTENDS Integers, SequencesExt, TLC

Table == INSTANCE Opcodes

(* Fields no table entry has set, with any value. *)
Blank == Table!NoOperation @@
  [pc |-> 0, end_pc |-> 0, width |-> "BYTE", rm |-> 0, reg0 |-> 0, reg1 |-> 0,
   sreg |-> "DS1", cond |-> 0, shift |-> "ROL"]

(* A byte more, until the opcode is complete.  The set of one element makes *)
(* TLC look the byte up once.                                               *)
WithByte(acc, q) ==
  IF acc.state = "TERMINAL" THEN acc
  ELSE CHOOSE r \in {[state |-> e.next, fields |-> e.fields @@ acc.fields, size |-> acc.size + 1]
                     : e \in {Table!ProcessDecode(acc.state, q, acc.fields)}} : TRUE
AfterOpcode(bytes) ==
  FoldLeft(WithByte, [state |-> "INITIAL", fields |-> Blank, size |-> 0], bytes)

Padded(bytes, n) == [i \in 1 .. n |-> IF i <= Len(bytes) THEN bytes[i] ELSE 0]

Fields(op, rest, length, pc) ==
  [disp |-> Padded(SubSeq(rest, 1, op.disp_size), 2),
   imm  |-> Padded(SubSeq(rest, op.disp_size + 1, Len(rest)), 4),
   pc |-> pc, end_pc |-> (pc + length) % 65536] @@ op
Complete(op, bytes, pc) ==
  Fields(op.fields, SubSeq(bytes, op.size + 1, Len(bytes)), Len(bytes), pc)

(* bytes is the whole instruction, pc its address. *)
Decode(bytes, pc) == Complete(AfterOpcode(bytes), bytes, pc)
=============================================================================
