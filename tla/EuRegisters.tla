---------------------------- MODULE EuRegisters ----------------------------
(* The registers of the execution unit (hdl/v33.sv) and the assignments its *)
(* states are made of.  Every enabled clock edge clears set_pc and dp_req   *)
(* unless the state sets them.                                              *)
EXTENDS Datapath

VARIABLES
  state,              \* cpu_state_e
  decoded,            \* the instruction being executed
  regs, sregs, flags, \* the programmer's registers
  next_pc, set_pc,    \* the address after the instruction, or the jump target
  dp, dp_req,         \* the request to the data port
  t                   \* the other registers, a record: see Temporaries

euVars == <<state, decoded, regs, sregs, flags, next_pc, set_pc, dp, dp_req, t>>

(* None of these is reset but int_processing and use_alu_result.  delayed:  *)
(* exec_delay is not zero.  The counts cycles and op_delay only make        *)
(* STORE_DELAY last; div holds the registers of the divider's port.         *)
Temporaries ==
  [exec_stage |-> 0, delayed |-> FALSE, shift_count |-> 0, push_list |-> {}, pop_list |-> {},
   push_sp_save |-> 0, pop_store |-> FALSE, interrupt_vector |-> 0, int_processing |-> FALSE,
   ta |-> 0, tb |-> 0, op_result |-> 0, op_result_high |-> 0, calculated_ea |-> 0,
   alu_operation |-> "NONE", alu_wide |-> FALSE, use_alu_result |-> FALSE,
   div |-> [signed |-> FALSE, wide |-> FALSE, num |-> Long(0, 0), denom |-> 1],
   prepare_nesting_level |-> 0, prepare_sp_save |-> 0,
   bcd_offset |-> 0, bcd_src |-> 0, bcd_low |-> 0, bcd_high |-> 0, bcd_acc |-> 0,
   bitfield_addr |-> 0, bitfield_mask |-> 0, bitfield_out |-> 0, bitfield_width |-> "BYTE",
   halt |-> FALSE]

Set(changes) == t' = changes @@ t

-----------------------------------------------------------------------------
(* The data port: a request lasts one edge; a read leaves dp_dout alone. *)
NoRequest == dp_req' = FALSE /\ UNCHANGED dp
Request(fields) == dp_req' = TRUE /\ dp' = fields @@ dp

Address(addr, seg, width, io) ==
  [addr |-> Word(addr), sreg |-> seg, io |-> io, wide |-> width # "BYTE", zero_seg |-> FALSE]
ReadMemory(addr, seg, width, io) ==
  Request([write |-> FALSE] @@ Address(addr, seg, width, io))
WriteMemory(addr, seg, width, data, io) ==
  Request([write |-> TRUE, dout |-> data] @@ Address(addr, seg, width, io))

(* The interrupt vector table is at the bottom of the memory. *)
ReadVector(addr) ==
  Request([addr |-> addr, write |-> FALSE, io |-> FALSE, zero_seg |-> TRUE, wide |-> TRUE])

NoJump      == set_pc' = FALSE /\ UNCHANGED next_pc
JumpTo(pc)  == set_pc' = TRUE /\ next_pc' = pc
SameFile    == UNCHANGED <<regs, sregs, flags>>
SameProgram == SameFile /\ UNCHANGED decoded

(* set_sreg: a load of PS takes a jump with it. *)
SetSreg(name, v) ==
  /\ sregs' = [sregs EXCEPT ![name] = v]
  /\ set_pc' = (name = "PS")

(* load_operands *)
LoadOperands(d, din) ==
  LET Of(x) == GetOperand(d, x, regs, sregs, din)
  IN  [op_result |-> Of(d.source0), ta |-> Of(d.source0), tb |-> Of(d.source1),
       alu_operation |-> IF d.opcode = "ALU" THEN d.alu_operation ELSE "NONE",
       alu_wide |-> d.width = "WORD", use_alu_result |-> d.opcode = "ALU"]

AluOut   == AluResult(t.alu_operation, t.ta, t.tb, t.alu_wide, flags)
AluFlagsOut == AluFlags(t.alu_operation, t.ta, t.tb, t.alu_wide, flags)

-----------------------------------------------------------------------------
(* Endings of a step of EXECUTE.                                            *)
(* The opcode is done: the result is stored at once or, if it or the        *)
(* arithmetic unit takes time, after a while.                               *)
Store(delay) ==
  IF delay \/ AluDelayed(t.alu_operation)
  THEN state' \in {"STORE_DELAY", "STORE_REGISTER"} ELSE state' = "STORE_REGISTER"

(* With results r for the registers, f for the flags. *)
Done(r, f, changes, delay) ==
  /\ Store(delay) /\ regs' = r /\ flags' = f /\ Set(changes)
  /\ NoRequest /\ NoJump /\ UNCHANGED <<sregs, decoded>>

Raise(vector) ==
  /\ state' = "INT_INITIATE" /\ Set([interrupt_vector |-> vector])
  /\ NoRequest /\ NoJump /\ SameProgram

(* Another stage of the opcode follows. *)
Stage(n, delay) == [exec_stage |-> n, delayed |-> delay]
Stay == NoJump /\ UNCHANGED <<state, sregs, decoded>>

(* An element of a repeated opcode is done; between two of them, and only   *)
(* there, an interrupt is taken, and the opcode starts anew after it.       *)
Repeated  == decoded.rep # "NONE"
Exhausted == Repeated /\ regs.CW = 0
Counted(r) == IF Repeated THEN [r EXCEPT !.CW = Word(regs.CW - 1)] ELSE r

EndElementForgets(again, delay, intreq) ==   \* mutant: PC stays behind the opcode
  /\ NoJump
  /\ IF ~again THEN Store(delay)
     ELSE IF Repeated /\ intreq /\ flags.IE = 1 THEN state' = "INT_ACK_WAIT" ELSE UNCHANGED state
  /\ UNCHANGED <<sregs, decoded>>
EndElement(again, delay, intreq) ==
  /\ set_pc' = FALSE
  /\ IF ~again THEN Store(delay) /\ UNCHANGED next_pc
     ELSE IF Repeated /\ intreq /\ flags.IE = 1
     THEN state' = "INT_ACK_WAIT" /\ next_pc' = decoded.pc
     ELSE UNCHANGED <<state, next_pc>>
  /\ UNCHANGED <<sregs, decoded>>

(* The index registers move up or down by the size of an element. *)
Size == IF IsWide(decoded) THEN 2 ELSE 1
Moved(r, names) ==
  [n \in DOMAIN r |-> IF n \notin names THEN r[n]
                      ELSE Word(IF flags.DIR = 1 THEN r[n] - Size ELSE r[n] + Size)]
=============================================================================
