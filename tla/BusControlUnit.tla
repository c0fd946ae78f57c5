------------------------- MODULE BusControlUnit -------------------------
(* hdl/bus_control_unit.sv: one bus shared by the prefetch of instruction   *)
(* bytes into an eight byte queue, the data accesses of the execution unit  *)
(* and the acknowledge of an interrupt.                                     *)
(*                                                                          *)
(* The always_ff block is one step per clock edge on which ce_1 or ce_2 is  *)
(* high; phase says which.  A bus cycle is T_1 (entered on ce_2), T_2       *)
(* (entered on ce_2) and the edge of ce_1 on which n_ready is low.  Each    *)
(* branch of the block is an action; what the block does before it          *)
(* branches is part of every one of them.                                   *)
(*                                                                          *)
(* Active-low pins keep their names: n_dstb = TRUE means not asserted.      *)
EXTENDS V33Types

CONSTANT Filled   \* the byte 8'hff

(* The inputs.  n_ready is a parameter of the action that samples it.       *)
VARIABLES
  phase,            \* 1 on an edge of ce_1, 2 on an edge of ce_2
  sregs,            \* reg_ps, reg_ss, reg_ds0, reg_ds1
  pfp_set, ipq_head,
  dp, dp_req,       \* dp_addr, dp_dout, ... as one record, and the request
  buslock_prefix,
  intreq,
  din               \* the data pins, <<low lane, high lane>>

(* The outputs and the registers. *)
VARIABLES
  t_state, cycle_type, addr, n_ube, n_bcyst,
  n_dstb, dout,
  n_buslock,
  dp_busy, dp_final_cycle, dp_req2, dp_din_buf,
  reg_pfp, discard_ipq_fetch, ipq,
  intack, intack_idles, intvec

cycleRegs  == <<t_state, cycle_type, addr, n_ube, n_bcyst>>
strobeRegs == <<n_dstb, dout>>
dpRegs     == <<dp_busy, dp_final_cycle, dp_din_buf>>
ackRegs    == <<intack_idles, intvec>>
bcuVars    == <<cycleRegs, strobeRegs, n_buslock, dpRegs, dp_req2,
                reg_pfp, discard_ipq_fetch, ipq, intack, ackRegs>>

QueueSize == 8

-----------------------------------------------------------------------------
(* The combinational outputs. *)

IpqLen == IF pfp_set THEN 0 ELSE (reg_pfp - ipq_head) % 16

DpBusReady(ready) == dp_final_cycle /\ phase = 1 /\ t_state = "T_2" /\ ready
DpReady(ready) == ~dp_req /\ ~dp_req2 /\ (DpBusReady(ready) \/ ~dp_busy)

(* Mutant of DpDin: a byte at an odd address is left on the upper lane.     *)
DpDinUnswapped == IF dp.wide /\ Odd(dp.addr) THEN <<dp_din_buf[2], din[1]>> ELSE din

DpDin == IF ~Odd(dp.addr) THEN din
         ELSE IF dp.wide  THEN <<dp_din_buf[2], din[1]>>
         ELSE Swap(din)

(* Where a data access starts. *)
DpFirst == IF dp.io \/ dp.zero_seg THEN dp.addr
           ELSE PhysicalAddr(sregs, dp.sreg, dp.addr)

(* One bus cycle does for the whole access. *)
SingleCycle == ~dp.wide \/ ~Odd(dp.addr)

DpCycle == IF dp.io THEN IF dp.write THEN "IO_WRITE" ELSE "IO_READ"
           ELSE IF dp.write THEN "MEM_WRITE" ELSE "MEM_READ"

-----------------------------------------------------------------------------
(* What every enabled edge does first. *)

CurPfp == IF pfp_set THEN ipq_head ELSE reg_pfp
Discarding == discard_ipq_fetch \/ pfp_set
RequestPending == dp_req \/ dp_req2

(* Mutants: a request that cannot start at once is lost; intack stays.      *)
LatchRequestLost == dp_req2' = dp_req
DropIntackNever  == intack' = intack

LatchJump      == reg_pfp' = CurPfp /\ discard_ipq_fetch' = Discarding
LatchRequest   == dp_req2' = RequestPending
DropIntack     == intack' = (intack /\ intreq)
Prologue       == LatchJump /\ LatchRequest /\ DropIntack

-----------------------------------------------------------------------------
(* Edges that leave the bus cycle where it is: ce_1 between cycles, T_2     *)
(* with n_ready high, T_2 on ce_2.                                          *)
Rest(ready) ==
  /\ \/ phase = 1 /\ t_state = "T_IDLE"
     \/ phase = 1 /\ t_state = "T_2" /\ ~ready
     \/ phase = 2 /\ t_state = "T_2"
  /\ Prologue
  /\ UNCHANGED <<cycleRegs, strobeRegs, n_buslock, dpRegs, ipq, ackRegs>>

(* ce_1 in T_1: the data strobe and the write data. *)
Strobe ==
  /\ phase = 1 /\ t_state = "T_1"
  /\ Prologue
  /\ n_dstb' = FALSE
  /\ dout' = IF Odd(dp.addr) THEN Swap(dp.dout) ELSE dp.dout
  /\ UNCHANGED <<cycleRegs, n_buslock, dpRegs, ipq, ackRegs>>

(* ce_2 in T_1. *)
EnterT2 ==
  /\ phase = 2 /\ t_state = "T_1"
  /\ Prologue
  /\ t_state' = "T_2"
  /\ n_bcyst' = TRUE
  /\ UNCHANGED <<cycle_type, addr, n_ube, strobeRegs, n_buslock, dpRegs, ipq, ackRegs>>

-----------------------------------------------------------------------------
(* ce_1 in T_2 with n_ready low: the cycle is over. *)
Complete ==
  /\ phase = 1 /\ t_state = "T_2"
  /\ t_state' = "T_IDLE"
  /\ dp_final_cycle' = TRUE
  /\ UNCHANGED <<cycle_type, addr, n_ube, n_bcyst, dout, n_buslock, intack_idles>>

(* The word at an even prefetch pointer gives two bytes, at an odd one its  *)
(* upper half gives one.                                                    *)
FetchBytes == IF Odd(reg_pfp)
              THEN [ipq EXCEPT ![reg_pfp % 8] = din[2]]
              ELSE [ipq EXCEPT ![reg_pfp % 8] = din[1],
                               ![(reg_pfp + 1) % 8] = din[2]]
FetchSize == IF Odd(reg_pfp) THEN 1 ELSE 2

(* No jump has come since the fetch started.  Mutant: only a jump on this   *)
(* very edge counts.                                                        *)
FetchWantedMutant == ~pfp_set
FetchWanted       == ~pfp_set /\ ~discard_ipq_fetch

AcceptFetch ==
  /\ Complete /\ cycle_type = "IPQ_FETCH"
  /\ FetchWanted
  /\ ipq' = FetchBytes
  /\ reg_pfp' = OffsetPlus(reg_pfp, FetchSize)
  /\ discard_ipq_fetch' = FALSE
  /\ LatchRequest /\ DropIntack
  /\ UNCHANGED <<n_dstb, dp_busy, dp_din_buf, intvec>>

DropFetch ==
  /\ Complete /\ cycle_type = "IPQ_FETCH"
  /\ ~FetchWanted
  /\ Prologue
  /\ UNCHANGED <<n_dstb, dp_busy, dp_din_buf, ipq, intvec>>

CompleteRead ==
  /\ Complete /\ cycle_type \in DpReads
  /\ Prologue
  /\ dp_din_buf' = din
  /\ dp_busy' = ~dp_final_cycle
  /\ UNCHANGED <<n_dstb, ipq, intvec>>

CompleteWrite ==
  /\ Complete /\ cycle_type \in DpWrites
  /\ Prologue
  /\ dp_busy' = ~dp_final_cycle
  /\ n_dstb' = TRUE
  /\ UNCHANGED <<dp_din_buf, ipq, intvec>>

CompleteIntAck ==
  /\ Complete /\ cycle_type \in IntAcks
  /\ Prologue
  /\ intvec' = din[1]
  /\ UNCHANGED <<n_dstb, dp_busy, dp_din_buf, ipq>>

-----------------------------------------------------------------------------
(* ce_2 between cycles: the arbiter.  intack_idles counts without bound in  *)
(* the source; it is only compared with 5 and 6 after it was cleared, so    *)
(* IdleCap, above both, is where the count may stop.                        *)
IdleCap == 7
CountIdle == IF intack_idles < IdleCap THEN intack_idles + 1 ELSE IdleCap
Unlocked  == ~buslock_prefix

(* Mutant of Arbitrate: the strobe stays on between cycles. *)
ArbitrateStrobed ==
  /\ phase = 2 /\ t_state = "T_IDLE"
  /\ UNCHANGED <<n_dstb, dout, dp_din_buf, ipq, intvec>>

Arbitrate ==
  /\ phase = 2 /\ t_state = "T_IDLE"
  /\ n_dstb' = TRUE
  /\ UNCHANGED <<dout, dp_din_buf, ipq, intvec>>

Begin(type) ==
  /\ t_state' = "T_1"
  /\ n_bcyst' = FALSE
  /\ cycle_type' = type

InIntAck == cycle_type \in IntAcks
WantsInt == intreq /\ ~intack
WantsPrefetchMutant == IpqLen < 8
WantsPrefetch == IpqLen < 7

(* Between the two acknowledge cycles the bus stays locked and idle. *)
IntAckIdleUnlocked ==
  /\ Arbitrate /\ cycle_type = "INT_ACK1" /\ intack_idles # 6
  /\ Prologue
  /\ n_buslock' = Unlocked
  /\ intack_idles' = CountIdle
  /\ UNCHANGED <<cycleRegs, dp_busy, dp_final_cycle>>

IntAckIdle ==
  /\ Arbitrate /\ cycle_type = "INT_ACK1" /\ intack_idles # 6
  /\ Prologue
  /\ n_buslock' = FALSE
  /\ intack_idles' = CountIdle
  /\ UNCHANGED <<cycleRegs, dp_busy, dp_final_cycle>>

StartIntAck2 ==
  /\ Arbitrate /\ cycle_type = "INT_ACK1" /\ intack_idles = 6
  /\ Prologue
  /\ Begin("INT_ACK2")
  /\ n_buslock' = Unlocked
  /\ intack_idles' = 0
  /\ UNCHANGED <<addr, n_ube, dp_busy, dp_final_cycle>>

IntAck2Idle ==
  /\ Arbitrate /\ cycle_type = "INT_ACK2" /\ intack_idles # 5
  /\ Prologue
  /\ n_buslock' = Unlocked
  /\ intack_idles' = CountIdle
  /\ UNCHANGED <<cycleRegs, dp_busy, dp_final_cycle>>

FinishIntAck ==
  /\ Arbitrate /\ cycle_type = "INT_ACK2" /\ intack_idles = 5
  /\ LatchJump /\ LatchRequest
  /\ intack' = TRUE
  /\ cycle_type' = "IPQ_FETCH"
  /\ n_buslock' = Unlocked
  /\ intack_idles' = CountIdle
  /\ UNCHANGED <<t_state, addr, n_ube, n_bcyst, dp_busy, dp_final_cycle>>

(* The second byte of a word at an odd address.  It is the next physical    *)
(* location, also where the offset wraps (the TODO in the source).          *)
(* Mutant: worked out again from the segment register.                      *)
SecondAddrRecomputed == DpFirst + 1
SecondAddr           == addr + 1

SecondAccess ==
  /\ Arbitrate /\ ~InIntAck /\ dp_busy
  /\ Prologue
  /\ Begin(cycle_type)
  /\ addr' = SecondAddr
  /\ n_ube' = TRUE
  /\ dp_final_cycle' = TRUE
  /\ n_buslock' = Unlocked
  /\ intack_idles' = CountIdle
  /\ UNCHANGED dp_busy

StartIntAck1 ==
  /\ Arbitrate /\ ~InIntAck /\ ~dp_busy
  /\ WantsInt
  /\ Prologue
  /\ Begin("INT_ACK1")
  /\ n_ube' = TRUE
  /\ n_buslock' = FALSE
  /\ intack_idles' = 0
  /\ UNCHANGED <<addr, dp_busy, dp_final_cycle>>

StartDp ==
  /\ Arbitrate /\ ~InIntAck /\ ~dp_busy /\ ~WantsInt
  /\ RequestPending
  /\ LatchJump /\ DropIntack
  /\ dp_req2' = FALSE
  /\ Begin(DpCycle)
  /\ addr' = DpFirst
  /\ n_ube' = (~dp.wide /\ ~Odd(dp.addr))
  /\ dp_final_cycle' = SingleCycle
  /\ dp_busy' = TRUE
  /\ n_buslock' = Unlocked
  /\ intack_idles' = CountIdle

(* Mutant of StartPrefetch: a fetch of the new address is dropped as well. *)
StartPrefetchDropped ==
  /\ Arbitrate /\ ~InIntAck /\ ~dp_busy /\ ~WantsInt /\ ~RequestPending
  /\ WantsPrefetch
  /\ LatchRequest /\ DropIntack
  /\ reg_pfp' = CurPfp
  /\ UNCHANGED discard_ipq_fetch
  /\ Begin("IPQ_FETCH")
  /\ addr' = PhysicalAddr(sregs, "PS", CurPfp)
  /\ n_ube' = FALSE
  /\ n_buslock' = Unlocked
  /\ intack_idles' = CountIdle
  /\ UNCHANGED <<dp_busy, dp_final_cycle>>

StartPrefetch ==
  /\ Arbitrate /\ ~InIntAck /\ ~dp_busy /\ ~WantsInt /\ ~RequestPending
  /\ WantsPrefetch
  /\ LatchRequest /\ DropIntack
  /\ reg_pfp' = CurPfp
  /\ discard_ipq_fetch' = FALSE
  /\ Begin("IPQ_FETCH")
  /\ addr' = PhysicalAddr(sregs, "PS", CurPfp)
  /\ n_ube' = FALSE
  /\ n_buslock' = Unlocked
  /\ intack_idles' = CountIdle
  /\ UNCHANGED <<dp_busy, dp_final_cycle>>

StayIdle ==
  /\ Arbitrate /\ ~InIntAck /\ ~dp_busy /\ ~WantsInt /\ ~RequestPending
  /\ ~WantsPrefetch
  /\ Prologue
  /\ n_buslock' = Unlocked
  /\ intack_idles' = CountIdle
  /\ UNCHANGED <<cycleRegs, dp_busy, dp_final_cycle>>

-----------------------------------------------------------------------------
Completion == AcceptFetch \/ DropFetch \/ CompleteRead \/ CompleteWrite \/ CompleteIntAck

Arbitration ==
  \/ IntAckIdle \/ StartIntAck2 \/ IntAck2Idle \/ FinishIntAck
  \/ SecondAccess \/ StartIntAck1 \/ StartDp \/ StartPrefetch \/ StayIdle

BcuEdge(ready) == Rest(ready) \/ Strobe \/ EnterT2 \/ (ready /\ Completion) \/ Arbitration

ResetAccess == dp_busy' = FALSE
ResetCycle  == t_state' = "T_IDLE" /\ cycle_type' = "IPQ_FETCH"

(* The reset branch.  The registers it does not name keep their values. *)
BcuReset ==
  /\ ResetCycle
  /\ n_ube' = FALSE
  /\ n_dstb' = TRUE
  /\ n_bcyst' = TRUE
  /\ intack' = FALSE
  /\ reg_pfp' = ipq_head
  /\ discard_ipq_fetch' = FALSE
  /\ dp_req2' = FALSE
  /\ ResetAccess
  /\ dp_din_buf' = <<Filled, Filled>>
  /\ UNCHANGED <<addr, dout, n_buslock, dp_final_cycle, ipq, intack_idles, intvec>>
=============================================================================
