---------------------------- MODULE ProgramView ----------------------------
(* The execution unit at work on a program: the instructions and the bytes  *)
(* in memory, how a behaviour begins, and the machine the program sees, for *)
(* the compositions of the unit with its surroundings (ExecSystem, V33).    *)
EXTENDS ExecutionUnit

CONSTANTS
  Code,          \* the instructions in memory, by their physical address
  Contents,      \* the bytes in memory, by their address, where they matter
  Beginnings,    \* how a behaviour may begin, and the bounds on the interrupts
                 \* and resets in it: [regs, sregs, flags, irqs, resets]
  Pins           \* the vectors the interrupt controller gives

VARIABLES
  store,         \* the cells that were written
  irqs, resets,  \* interrupts and resets still to come
  arch           \* history: the machine after the last instruction

viewVars == <<phase, euVars, store, irqs, resets, arch>>

Types == INSTANCE V33Types WITH Offs <- 65536, Para <- 16, Phys <- 1048576

-----------------------------------------------------------------------------
(* TLC computes these once, but the values of the constants at each use.    *)
Instructions == Code @@ <<>>
Image        == Contents @@ <<>>

(* What is in memory from the start.  Other cells hold what their address   *)
(* says, so that they can be told apart.                                    *)
Given(cell) ==
  IF cell[1] = "mem" /\ cell[2] \in DOMAIN Image THEN Image[cell[2]]
  ELSE ByteOf((37 * cell[2]) + High(cell[2]) + 11)
ByteIn(cell) == IF cell \in DOMAIN store THEN store[cell] ELSE Given(cell)

(* On a lane that nobody drives the core reads nothing a program could know. *)
Noise == 206

CodeAt(ps, pc) == Types!PhysicalAddr([PS |-> ps], "PS", pc)
Known(ps, pc)  == CodeAt(ps, pc) \in DOMAIN Instructions
InstructionAt(ps, pc) ==
  LET d == Instructions[IF Known(ps, pc) THEN CodeAt(ps, pc) ELSE CHOOSE a \in DOMAIN Instructions : TRUE]
  IN  [d EXCEPT !.pc = pc, !.end_pc = Word(pc + @ - d.pc)]

(* The first cell of the access the dp registers ask for, and what a write  *)
(* from there on leaves in the cells.                                       *)
FirstCell ==
  IF dp.io THEN <<"io", dp.addr>>
  ELSE IF dp.zero_seg THEN <<"mem", dp.addr>>
  ELSE <<"mem", Types!PhysicalAddr(sregs, dp.sreg, dp.addr)>>
NextCell(cell) == <<cell[1], cell[2] + 1>>
Stored(cells, cell, wide, v) ==
  (cell :> ByteOf(v)) @@ (IF wide THEN NextCell(cell) :> High(v) ELSE <<>>) @@ cells

(* After a jump to the program. *)
Beginning ==
  /\ phase \in {1, 2}
  /\ state = "IDLE" /\ t = Temporaries
  /\ dp = [addr |-> 0, dout |-> 0, write |-> FALSE, wide |-> FALSE, io |-> FALSE,
           sreg |-> "DS1", zero_seg |-> FALSE]
  /\ dp_req = FALSE /\ set_pc = TRUE /\ next_pc = 0
  /\ \E b \in Beginnings :
       /\ regs = b.regs /\ sregs = b.sregs /\ flags = b.flags
       /\ irqs = b.irqs /\ resets = b.resets
  /\ decoded = InstructionAt(sregs.PS, 0)   \* anything
  /\ store = <<>>
  /\ arch = [regs |-> regs, sregs |-> sregs, flags |-> flags, pc |-> 0, store |-> <<>>]

-----------------------------------------------------------------------------
(* An instruction is over when IDLE is reached again, an element of a       *)
(* repeated one when the next one, or an interrupt, follows.                *)
ElementEnds ==
  /\ state = "EXECUTE" /\ Repeated /\ state' \in {"EXECUTE", "INT_ACK_WAIT"}
  /\ CASE Is({"STM"}) -> dp_req'
       [] Is({"LDM"}) -> At(2) /\ t'.exec_stage = 1
       [] Is({"MOVBK", "INM", "OUTM", "CMPBK", "CMPM"}) -> ~At(0) /\ t'.exec_stage = 0
       [] OTHER -> FALSE

(* LDM has counted the next element already. *)
Uncounted == IF Is({"LDM"}) THEN [regs' EXCEPT !.CW = Word(@ + 1)] ELSE regs'

(* cells are those written after the step; a write that is still on its way *)
(* counts as done.                                                          *)
Machine(r, pc, cells) ==
  [regs |-> r, sregs |-> sregs', flags |-> flags', pc |-> pc, store |-> cells]
History(cells) ==
  arch' = IF state' = "IDLE" /\ state # "IDLE" THEN Machine(regs', next_pc', cells)
          ELSE IF ElementEnds THEN Machine(Uncounted, decoded.pc, cells)
          ELSE arch

(* The execution unit implements the architecture: whatever the data port,  *)
(* the decoder, the divider and the interrupt pin do, what the program sees *)
(* at the end of each instruction, or element of a repeated one, is what    *)
(* executing it as a whole would give; and a read never sees a cell before  *)
(* an earlier write to it.                                                  *)
Vectors == Pins
Machines == INSTANCE Architecture WITH m <- arch
ArchitectureSpec == [][Machines!Next]_arch
=============================================================================
