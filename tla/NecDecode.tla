---------------------------- MODULE NecDecode ----------------------------
(* The instruction decoder (hdl/nec_decode.sv): it takes one byte a cycle   *)
(* from the head of the prefetch queue and puts together the fields of the  *)
(* next instruction, its displacement and its immediate value, until the    *)
(* execution unit retires it or a jump throws it away.                      *)
EXTENDS V33Types, Opcodes, Sequences

(* The state of the table, the instruction so far, the offset of the next   *)
(* byte, and how many bytes of the displacement and the immediate are read. *)
VARIABLES state, d, pc, disp_read, imm_read

decodeVars == <<state, d, pc, disp_read, imm_read>>

WidthBytes == [BYTE |-> 1, WORD |-> 2, TRIPLE |-> 3, DWORD |-> 4]

(* What follows the opcode, in bytes.  Mutant: the first source only. *)
ImmBytes(operand, width) ==
  CASE operand = "IMM" -> WidthBytes[width]
    [] operand \in {"IMM8", "IMM_EXT"} -> 1
    [] OTHER -> 0
ImmSizeFirst == ImmBytes(d.source0, d.width)
ImmSize == LET first == ImmBytes(d.source0, d.width)
           IN  IF first > 0 THEN first ELSE ImmBytes(d.source1, d.width)

OperandsRead  == d.disp_size = disp_read /\ ImmSize = imm_read
ValidEarly(set_pc) == state = "TERMINAL" /\ ~set_pc   \* mutant
Valid(set_pc) == state = "TERMINAL" /\ OperandsRead /\ ~set_pc

(* reset_decode.  Mutant: the repeat prefix survives. *)
ResetKeepingRep == [rep |-> d.rep] ++ NoOperation ++ d
ResetFields     == NoOperation ++ d
ResetReads      == disp_read' = 0 /\ imm_read' = 0

(* A jump: whatever was in flight is dropped. *)
FollowJump(new_pc) ==
  /\ pc' = new_pc
  /\ d' = [pc |-> new_pc] ++ ResetFields
  /\ state' = "INITIAL"
  /\ ResetReads

(* One more byte q. *)
TakeByte == pc' = OffsetPlus(pc, 1)

ReadDisp(q) ==
  /\ state = "TERMINAL" /\ disp_read < d.disp_size
  /\ d' = [disp |-> [d.disp EXCEPT ![disp_read + 1] = q], end_pc |-> OffsetPlus(pc, 1)] ++ d
  /\ disp_read' = disp_read + 1
  /\ TakeByte
  /\ UNCHANGED <<state, imm_read>>

ReadImm(q) ==
  /\ state = "TERMINAL" /\ disp_read >= d.disp_size /\ imm_read < ImmSize
  /\ d' = [imm |-> [d.imm EXCEPT ![imm_read + 1] = q], end_pc |-> OffsetPlus(pc, 1)] ++ d
  /\ imm_read' = imm_read + 1
  /\ TakeByte
  /\ UNCHANGED <<state, disp_read>>

(* An opcode byte of the instruction in flight. *)
DecodeByte(q) ==
  /\ state # "TERMINAL"
  /\ \E entry \in {ProcessDecode(state, q, d)} :
       /\ state' = entry.next
       /\ d' = [end_pc |-> OffsetPlus(pc, 1)] ++ entry.fields ++ d
  /\ TakeByte
  /\ UNCHANGED <<disp_read, imm_read>>

(* The instruction is complete and the execution unit retires it; if the    *)
(* queue has a byte it is the first one of the next instruction.  The       *)
(* fields it is decoded with are those before the reset.                    *)
Retire ==
  /\ state = "TERMINAL" /\ OperandsRead
  /\ ResetReads

RetireEmpty ==
  /\ Retire
  /\ d' = [pc |-> pc] ++ ResetFields
  /\ state' = "INITIAL"
  /\ UNCHANGED pc

(* Mutant of RetireNext: the address is the one after the byte. *)
RetireNextLate(q) ==
  /\ Retire
  /\ \E entry \in {ProcessDecode(state, q, d)} :
       /\ state' = entry.next
       /\ d' = [pc |-> OffsetPlus(pc, 1), end_pc |-> OffsetPlus(pc, 1)]
               ++ entry.fields ++ ResetFields
  /\ TakeByte

RetireNext(q) ==
  /\ Retire
  /\ \E entry \in {ProcessDecode(state, q, d)} :
       /\ state' = entry.next
       /\ d' = [pc |-> pc, end_pc |-> OffsetPlus(pc, 1)] ++ entry.fields ++ ResetFields
  /\ TakeByte

(* ce_1 without a jump: a byte is there, or none is. *)
WithByte(q, retire_op) ==
  \/ ReadDisp(q) \/ ReadImm(q) \/ DecodeByte(q)
  \/ retire_op /\ RetireNext(q)
  \/ ~retire_op /\ state = "TERMINAL" /\ OperandsRead /\ UNCHANGED decodeVars

WithoutByte(retire_op) ==
  \/ retire_op /\ RetireEmpty
  \/ ~retire_op /\ UNCHANGED decodeVars
=============================================================================
