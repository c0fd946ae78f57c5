-------------------------------- MODULE V33 --------------------------------
(* The whole core as hdl/v33.sv wires it: the execution unit, the decoder   *)
(* and the bus control unit step on the same clock edges, with a board that *)
(* answers after any number of wait states.  Nothing between the three is   *)
(* abstract; the divider answers at any time (DividerSystem).               *)
EXTENDS ProgramView

(* The bus control unit's registers and pins. *)
VARIABLES
  t_state, cycle_type, addr, n_ube, n_bcyst, n_dstb, dout, n_buslock,
  dp_busy, dp_final_cycle, dp_req2, dp_din_buf,
  reg_pfp, discard_ipq_fetch, ipq, intack, intack_idles, intvec

(* The decoder's. *)
VARIABLES decode_state, next_decode, cur_pc, disp_read, imm_read

(* History: the access at the data port belongs to an instruction that      *)
(* reads memory under the lock.                                             *)
VARIABLE locked

busVars == <<t_state, cycle_type, addr, n_ube, n_bcyst, n_dstb, dout, n_buslock,
             dp_busy, dp_final_cycle, dp_req2, dp_din_buf, reg_pfp, discard_ipq_fetch, ipq,
             intack, intack_idles, intvec>>
decodeVars == <<decode_state, next_decode, cur_pc, disp_read, imm_read>>
vars == <<viewVars, busVars, decodeVars, locked>>

-----------------------------------------------------------------------------
(* The board: a 16 bit device drives the lower lane with the byte at an     *)
(* even address and, unless n_ube is high, the upper lane with the one at   *)
(* the odd address; the interrupt controller gives its vector in the second *)
(* acknowledge cycle.                                                       *)
Space == IF cycle_type \in {"IO_READ", "IO_WRITE"} THEN "io" ELSE "mem"
Lane(a, driven) == IF driven THEN ByteIn(<<Space, a>>) ELSE Noise
DataPins(vector) ==
  CASE cycle_type = "INT_ACK1" -> <<Noise, Noise>>
    [] cycle_type = "INT_ACK2" -> <<vector, Noise>>
    [] OTHER -> <<Lane(addr, ~Types!Odd(addr)),
                  Lane(IF Types!Odd(addr) THEN addr ELSE addr + 1, ~n_ube)>>

(* The wires. *)
TheVector == CHOOSE v \in Pins : TRUE
Bcu == INSTANCE BusControlUnit WITH
  Filled <- 255,
  Offs <- 65536, Para <- 16, Phys <- 1048576,
  pfp_set <- set_pc, ipq_head <- IF set_pc THEN next_pc ELSE cur_pc,
  dp <- [dp EXCEPT !.dout = <<ByteOf(@), High(@)>>],
  buslock_prefix <- decoded.buslock,
  intreq <- state = "INT_ACK_WAIT",
  din <- DataPins(TheVector)

Decoder == INSTANCE NecDecode WITH
  Offs <- 65536, Para <- 16, Phys <- 1048576,
  state <- decode_state, d <- next_decode, pc <- cur_pc

Valid == Decoder!Valid(set_pc)
DinNow(ready) ==
  IF dp_busy /\ Bcu!DpBusReady(ready) /\ ~dp.write THEN Pair(Bcu!DpDin[1], Bcu!DpDin[2])
  ELSE Pair(Noise, Noise)

-----------------------------------------------------------------------------
Written ==
  LET Lower == IF Types!Odd(addr) THEN <<>> ELSE <<Space, addr>> :> dout[1]
      Upper == IF n_ube THEN <<>>
               ELSE <<Space, IF Types!Odd(addr) THEN addr ELSE addr + 1>> :> dout[2]
  IN  Lower @@ Upper @@ store
WriteStrobed == cycle_type \in Bcu!DpWrites /\ ~n_dstb
StoreEdge(ready) ==
  store' = IF phase = 1 /\ t_state = "T_2" /\ ready /\ WriteStrobed THEN Written ELSE store

(* Of the queue the decoder sees the byte at its head. *)
DecodeEdge(ready) ==
  LET retire_op == RetireOp(Valid, Bcu!DpReady(ready), n_buslock)
  IN  IF set_pc THEN Decoder!FollowJump(next_pc)
      ELSE IF phase = 2 THEN UNCHANGED decodeVars
      ELSE IF Bcu!IpqLen > 0 THEN Decoder!WithByte(ipq[cur_pc % 8], retire_op)
      ELSE Decoder!WithoutByte(retire_op)

-----------------------------------------------------------------------------
(* A write on its way counts as done. *)
InSecondHalf == dp.wide /\ Types!Odd(dp.addr) /\ dp_final_cycle /\ t_state # "T_IDLE"
WriteCell ==
  IF dp_req \/ dp_req2 THEN FirstCell
  ELSE <<Space, IF InSecondHalf THEN addr - 1 ELSE addr>>
StoreNow ==
  IF dp.write /\ (dp_req \/ dp_req2 \/ dp_busy)
  THEN Stored(store, WriteCell, dp.wide, dp.dout) ELSE store

LockedNow ==
  locked' = IF dp_req' THEN decoded'.buslock /\ decoded'.mem_read ELSE locked

Edge(ready, div_done, intreq) ==
  /\ Bcu!BcuEdge(ready)
  /\ DecodeEdge(ready)
  /\ EuEdge(next_decode, cur_pc, Valid, Bcu!DpReady(ready), DinNow(ready), n_buslock,
            div_done, intreq, intack, intvec)
  /\ StoreEdge(ready)
  /\ irqs' = IF state' = "INT_ACK_WAIT" /\ state # "INT_ACK_WAIT" THEN irqs - 1 ELSE irqs
  /\ phase' = 3 - phase
  /\ History(StoreNow')
  /\ LockedNow
  /\ UNCHANGED resets

(* An input that nobody looks at on an edge has one value. *)
Inputs(ready, div_done, intreq) ==
  /\ ready => phase = 1 /\ t_state = "T_2"
  /\ div_done => state = "EXECUTE" /\ decoded.opcode \in {"DIV", "DIVU", "CVTBD"} /\ phase = 1
  /\ intreq => irqs > 0 /\ state \in {"IDLE", "EXECUTE"} /\ phase = 1
Clock(ready, div_done, intreq) ==
  Inputs(ready, div_done, intreq) /\ Edge(ready, div_done, intreq)

(* A reset at any time; a write that memory was about to take is done or    *)
(* not.                                                                     *)
Reset ==
  /\ resets > 0 /\ resets' = resets - 1
  /\ Bcu!BcuReset /\ EuReset /\ DecodeEdge(FALSE)
  /\ \/ UNCHANGED store
     \/ WriteStrobed /\ store' = Written
  /\ arch' = Machine(regs', next_pc', store')
  /\ locked' = FALSE
  /\ phase' = 3 - phase /\ UNCHANGED irqs

Next == Reset \/ \E ready, div_done, intreq \in BOOLEAN : Clock(ready, div_done, intreq)

Init ==
  /\ Beginning
  /\ t_state = "T_IDLE" /\ cycle_type = "IPQ_FETCH" /\ addr = 0
  /\ n_ube = FALSE /\ n_bcyst = TRUE /\ n_dstb = TRUE /\ dout = <<0, 0>> /\ n_buslock = TRUE
  /\ dp_busy = FALSE /\ dp_final_cycle = TRUE /\ dp_req2 = FALSE
  /\ dp_din_buf = <<255, 255>>
  /\ reg_pfp = 0 /\ discard_ipq_fetch = FALSE /\ ipq = [i \in 0 .. 7 |-> 0]
  /\ intack = FALSE /\ intack_idles = 0 /\ intvec = 0
  /\ decode_state = "INITIAL" /\ next_decode = decoded /\ cur_pc = 0
  /\ disp_read = 0 /\ imm_read = 0
  /\ locked = FALSE

Spec == Init /\ [][Next]_vars
-----------------------------------------------------------------------------
(* Memory answers in the end, the counters of the delays run out and the    *)
(* divider is done in the end: each a step that stays possible until taken. *)
Ticks    == \E ready, div_done, intreq \in BOOLEAN : Clock(ready, div_done, intreq)
Answered == t_state = "T_2" /\ \E div_done, intreq \in BOOLEAN : Clock(TRUE, div_done, intreq)
Delayed  == phase = 1 /\ state \in {"EXECUTE", "STORE_DELAY"}
DelayOver ==
  /\ Delayed /\ Ticks
  /\ state' # state \/ t' # t \/ dp_req'
LiveSpec == Spec /\ WF_vars(Ticks) /\ SF_vars(Answered) /\ SF_vars(DelayOver)

-----------------------------------------------------------------------------
(* From the first access of a locked instruction that reads memory to the   *)
(* end of its last one the lock is on the pin, also between the accesses    *)
(* and while its write waits behind a prefetch with the instruction gone    *)
(* from the execution unit.                                                 *)
Accessing == t_state # "T_IDLE" /\ cycle_type \in Bcu!DpCycles
Between ==
  /\ decoded.buslock /\ decoded.mem_read
  /\ state \notin {"IDLE", "FETCH_OPERAND"}
  /\ ~(state = "WAIT_OPERAND1" /\ Bcu!RequestPending)
LockHeld == (locked /\ Accessing) \/ Between => ~n_buslock

(* Instructions are accepted for ever, whatever competes for the bus: a     *)
(* program of accesses does not keep the queue empty for ever.              *)
Progress == []<><<state = "IDLE" /\ state' # "IDLE">>_vars
=============================================================================
