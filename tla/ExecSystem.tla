---------------------------- MODULE ExecSystem ----------------------------
(* The execution unit between                                               *)
(*   - a data port that takes any time for an access and shows the word it  *)
(*     read on one edge only (what BusSystem checks of the real one),       *)
(*   - a decoder that has the next instruction ready at any time (what      *)
(*     DecodeSystem checks of the real one),                                *)
(*   - a divider that answers at any time (DividerSystem), and              *)
(*   - an interrupt controller.                                             *)
EXTENDS ProgramView

VARIABLES
  access,        \* the access the data port works on
  fetch          \* the address of the instruction the decoder offers next

vars == <<viewVars, access, fetch>>

-----------------------------------------------------------------------------
(* The data port.  The first cell of an access is fixed when it starts, by  *)
(* the segment registers of that moment.                                    *)
NoAccess == [status |-> "none"]
Pending  == dp_req \/ access.status = "waiting"
Running == [status |-> "running", cell |-> FirstCell]

Ready(completes) == ~dp_req /\ (access.status = "none" \/ completes)

DinNow(completes) ==
  IF ~completes \/ dp.write THEN Pair(Noise, Noise)
  ELSE Pair(ByteIn(access.cell), IF dp.wide THEN ByteIn(NextCell(access.cell)) ELSE Noise)

PortEdge(completes) ==
  /\ completes => phase = 1 /\ access.status = "running"
  /\ \/ Pending /\ phase = 2 /\ access' = Running
     \/ Pending /\ access' = [status |-> "waiting"]
     \/ completes /\ access' = NoAccess
     \/ ~Pending /\ ~completes /\ UNCHANGED access
  /\ store' = IF completes /\ dp.write THEN Stored(store, access.cell, dp.wide, dp.dout) ELSE store

-----------------------------------------------------------------------------
(* The decoder: set_pc restarts it; it goes on when it is told that its     *)
(* instruction is retired, also when an interrupt takes precedence.         *)
FetchEdge(valid, ready, n_buslock) ==
  fetch' = IF set_pc THEN next_pc
           ELSE IF phase = 1 /\ RetireOp(valid, ready, n_buslock)
           THEN InstructionAt(sregs.PS, fetch).end_pc ELSE fetch

Edge(valid, completes, n_buslock, div_done, intreq, intack, vector) ==
  LET ready == Ready(completes)
      d == IF valid THEN InstructionAt(sregs.PS, fetch) ELSE decoded
  IN  /\ PortEdge(completes)
      /\ FetchEdge(valid, ready, n_buslock)
      /\ EuEdge(d, d.end_pc, valid, ready, DinNow(completes), n_buslock, div_done,
                intreq, intack, vector)
      /\ irqs' = IF state' = "INT_ACK_WAIT" /\ state # "INT_ACK_WAIT" THEN irqs - 1 ELSE irqs
      /\ phase' = 3 - phase

Between == state \in {"IDLE", "EXECUTE"}
Inputs(valid, completes, n_buslock, div_done, intreq, intack) ==
  /\ valid => state = "IDLE" /\ phase = 1 /\ ~set_pc /\ Known(sregs.PS, fetch)
  /\ ~n_buslock => state = "IDLE" /\ phase = 1
  /\ div_done => state = "EXECUTE" /\ decoded.opcode \in {"DIV", "DIVU", "CVTBD"} /\ phase = 1
  /\ intreq => irqs > 0 /\ Between /\ phase = 1
  /\ intack => state = "INT_ACK_WAIT" /\ phase = 1

-----------------------------------------------------------------------------
(* The machine the program sees.  A write that is still on its way has      *)
(* happened for every later access.                                         *)
StoreNow ==
  IF ~dp.write \/ ~(Pending \/ access.status = "running") THEN store
  ELSE Stored(store, IF Pending THEN FirstCell ELSE access.cell, dp.wide, dp.dout)

ProgramStep(valid, completes, n_buslock, div_done, intreq, intack, vector) ==
  /\ Inputs(valid, completes, n_buslock, div_done, intreq, intack)
  /\ (intack <=> vector \in Pins)
  /\ Edge(valid, completes, n_buslock, div_done, intreq, intack, vector)
  /\ History(StoreNow')
  /\ UNCHANGED resets

(* Reset, at any time: an access is dropped, of a write any part is done.   *)
PartDone(n) == IF n = 0 THEN store ELSE Stored(store, access.cell, n = 2, dp.dout)
Reset ==
  /\ resets > 0 /\ resets' = resets - 1
  /\ EuReset
  /\ access' = NoAccess /\ phase' \in {1, 2}
  /\ store' \in IF access.status = "running" /\ dp.write
                THEN {PartDone(n) : n \in 0 .. IF dp.wide THEN 2 ELSE 1} ELSE {store}
  /\ arch' = Machine(regs', next_pc', StoreNow')
  /\ UNCHANGED <<fetch, irqs>>

Next ==
  \/ \E valid, completes, n_buslock, div_done, intreq, intack \in BOOLEAN, vector \in Pins \cup {0} :
       ProgramStep(valid, completes, n_buslock, div_done, intreq, intack, vector)
  \/ Reset

Init ==
  /\ Beginning
  /\ access = NoAccess /\ fetch = 0

Spec == Init /\ [][Next]_vars

-----------------------------------------------------------------------------
(* What the bus control unit relies on: a request is made on ce_1 only, for *)
(* a port that is free; while it waits for its turn nothing that says what  *)
(* it is changes, neither its own registers nor its segment's; and none is  *)
(* made while an interrupt waits to be acknowledged.                        *)
PortContract ==
  [][ /\ dp_req' => phase = 1 /\ ~dp_req /\ access' = NoAccess /\ state # "INT_ACK_WAIT"
      /\ Pending /\ access'.status = "waiting"
           => dp' = dp /\ (~dp.io /\ ~dp.zero_seg => sregs'[dp.sreg] = sregs[dp.sreg])
    ]_vars

(* "all iterations" (tests/80186/rep.asm): no element of a repeated load is *)
(* counted without being loaded.                                            *)
AllIterations ==
  [][ Is({"LDM"}) /\ Repeated /\ arch'.regs.CW # arch.regs.CW
        => arch'.regs.IX # arch.regs.IX ]_arch
=============================================================================
