---------------------------- MODULE BusSystem ----------------------------
(* The bus control unit between the rest of the core and the board: the     *)
(* BusControlUnit's registers stepping together with                        *)
(*   - the decoder's program counter (hdl/nec_decode.sv), which takes at    *)
(*     most one byte a cycle from the queue and follows jumps,              *)
(*   - the execution unit (hdl/v33.sv) as the bus sees it: when it may      *)
(*     issue an access, jump, load a segment register, or hand the bus to   *)
(*     an interrupt, and what it then waits for,                            *)
(*   - memory, I/O and the interrupt controller, which answer after any     *)
(*     number of wait states.                                               *)
(* One step is one clock edge on which ce_1 or ce_2 is high, or a reset.    *)
EXTENDS V33Types

CONSTANTS
  Words,         \* the 16 bit values the program writes
  Requests,      \* the accesses it makes: values of the dp_* registers
  Targets,       \* the offsets it jumps to, 0 among them
  SegmentValues, \* for each segment register, the values it takes
  ResetPs,       \* PS after reset; 16'hffff in the source
  Consumable,    \* the offsets at which the decoder takes a byte
  Locks,         \* whether instructions carry the BUSLOCK prefix
  Interrupts,    \* whether the program runs with interrupts enabled
  Resets         \* whether reset is pulled again while running

Spaces == {"mem", "io"}
Cells  == Spaces \X BusAddrs

Origins == {"open", "ones", "code", "mem", "io", "vector1", "vector2"} \cup Words
Bytes   == Origins \X Int
Halves(w) == <<Byte(w, 0), Byte(w, 1)>>

DpRecords == [addr : Offsets, dout : Bytes \X Bytes, write : BOOLEAN,
              wide : BOOLEAN, io : BOOLEAN, sreg : SregIndex, zero_seg : BOOLEAN]

(* The dp registers before the first access: no reset reaches them. *)
PowerOnDp == [addr |-> 0, dout |-> <<Open, Open>>, write |-> FALSE,
              wide |-> FALSE, io |-> FALSE, sreg |-> "DS1", zero_seg |-> FALSE]

ASSUME SystemAssumption ==
  /\ Requests \subseteq DpRecords
  /\ Targets \subseteq Offsets /\ 0 \in Targets
  /\ SegmentValues \in [SregIndex -> SUBSET Nat]
  /\ \A s \in SregIndex \ {"PS"} : 0 \in SegmentValues[s]
  /\ ResetPs \in SegmentValues["PS"]
  /\ Consumable \subseteq Offsets
  /\ Locks \subseteq BOOLEAN /\ Locks # {}
  /\ Interrupts \in BOOLEAN /\ Resets \in BOOLEAN

(* The bus control unit's registers, the pins and ports it reads. *)
VARIABLES
  phase, sregs, dp, dp_req, buslock_prefix,
  t_state, cycle_type, addr, n_ube, n_bcyst, n_dstb, dout, n_buslock,
  dp_busy, dp_final_cycle, dp_req2, dp_din_buf,
  reg_pfp, discard_ipq_fetch, ipq, intack, intack_idles, intvec

(* Decoder and execution unit. *)
VARIABLES
  set_pc, next_pc, pc,
  fresh,      \* no load of PS is waiting for the jump that must follow it
  int_stage   \* an interrupt: "none", "waiting" for intack, "serving"

(* The board. *)
VARIABLES
  store,      \* memory and I/O cells
  irq         \* numbers the interrupts, modulo 2: their vectors differ

PcNow == IF set_pc THEN next_pc ELSE pc
ByteAt(a) ==
  CASE cycle_type = "IPQ_FETCH" -> Byte("code", a)
    [] cycle_type = "MEM_READ"  -> store[<<"mem", a>>]
    [] cycle_type = "IO_READ"   -> store[<<"io", a>>]
    [] OTHER -> Open

(* A 16 bit device drives the lower lane with the byte at an even address   *)
(* and, unless n_ube is high, the upper lane with the one at the odd        *)
(* address.  The interrupt controller drives the lower lane.                *)
DataPins ==
  CASE cycle_type = "INT_ACK1" -> <<Byte("vector1", irq), Open>>
    [] cycle_type = "INT_ACK2" -> <<Byte("vector2", irq), Open>>
    [] OTHER -> << IF Odd(addr) THEN Open ELSE ByteAt(addr),
                   IF n_ube THEN Open
                   ELSE ByteAt(IF Odd(addr) THEN addr ELSE addr + 1) >>

Waiting == int_stage = "waiting"

Bcu == INSTANCE BusControlUnit WITH
  Filled <- Ones,
  pfp_set <- set_pc, ipq_head <- PcNow, intreq <- Waiting, din <- DataPins

euVars == <<set_pc, next_pc, fresh, sregs, dp, dp_req, buslock_prefix, int_stage>>
vars   == <<phase, Bcu!bcuVars, euVars, pc, store, irq>>
-----------------------------------------------------------------------------
(* Memory takes a write at the end of the cycle, from the lanes that n_ube  *)
(* and the parity of the address select (write_mem of the benches).         *)
Space == IF cycle_type \in {"IO_READ", "IO_WRITE"} THEN "io" ELSE "mem"

Written ==
  IF Odd(addr) /\ ~n_ube THEN [store EXCEPT ![<<Space, addr>>] = dout[2]]
  ELSE IF ~Odd(addr) /\ n_ube THEN [store EXCEPT ![<<Space, addr>>] = dout[1]]
  ELSE [store EXCEPT ![<<Space, addr>>] = dout[1], ![<<Space, addr + 1>>] = dout[2]]

WriteStrobed == cycle_type \in DpWrites /\ ~n_dstb

StoreEdge(ready) ==
  store' = IF phase = 1 /\ t_state = "T_2" /\ ready /\ WriteStrobed
           THEN Written ELSE store

(* The decoder takes the byte at the head of the queue, or follows a jump. *)
DecodeEdge ==
  IF set_pc THEN pc' = next_pc
  ELSE \/ pc' = pc
       \/ /\ phase = 1 /\ Bcu!IpqLen > 0 /\ pc \in Consumable
          /\ pc' = OffsetPlus(pc, 1)

-----------------------------------------------------------------------------
(* The execution unit.  set_pc and dp_req last one edge. *)

NoJump    == set_pc' = FALSE /\ UNCHANGED <<next_pc, fresh>>
NoAccess  == dp_req' = FALSE /\ UNCHANGED dp
NoLoad    == UNCHANGED sregs
SamePrefix == UNCHANGED buslock_prefix
SameStage == UNCHANGED <<int_stage, irq>>

NewAccess(ready) ==
  phase = 1 /\ Bcu!DpReady(ready) /\ dp_req' = TRUE /\ dp' \in Requests

(* Nothing new happens.  On ce_1 INT_ACK_WAIT leaves as soon as it sees     *)
(* intack.                                                                  *)
Quiet ==
  /\ ~(phase = 1 /\ Waiting /\ intack)
  /\ NoJump /\ NoAccess /\ NoLoad /\ SamePrefix /\ SameStage

(* A read or a write, once the one before is over.  The first push of an    *)
(* interrupt is one of them.                                                *)
Access(ready) ==
  /\ ~Waiting
  /\ NewAccess(ready)
  /\ int_stage' = "none"
  /\ NoJump /\ NoLoad /\ SamePrefix /\ UNCHANGED irq

(* IDLE accepts the next instruction, whose prefix drives the lock; a POP   *)
(* issues its read at once.                                                 *)
Accept(ready) ==
  /\ phase = 1 /\ int_stage = "none"
  /\ n_buslock \/ Bcu!DpReady(ready)
  /\ buslock_prefix' \in Locks
  /\ NewAccess(ready) \/ NoAccess
  /\ NoJump /\ NoLoad /\ SameStage

(* A jump, perhaps to another segment.  It waits for nothing: an access     *)
(* through PS may still be asked for.                                       *)
Jump ==
  /\ int_stage = "none"
  /\ set_pc' = TRUE /\ next_pc' \in Targets /\ fresh' = TRUE
  /\ \E v \in SegmentValues["PS"] : sregs' = [sregs EXCEPT !["PS"] = v]
  /\ NoAccess /\ SamePrefix /\ SameStage

(* A segment register is loaded while no access is under way.  A POP of PS  *)
(* is followed by the jump only when the return is complete.                *)
Load(ready) ==
  /\ int_stage = "none"
  /\ Bcu!DpReady(ready)
  /\ \E s \in SregIndex : \E v \in SegmentValues[s] :
       /\ s = "PS" => phase = 1
       /\ sregs' = [sregs EXCEPT ![s] = v]
       /\ fresh' = (fresh /\ s # "PS")
  /\ set_pc' = FALSE /\ UNCHANGED next_pc
  /\ NoAccess /\ SamePrefix /\ SameStage

(* An interrupt is taken between instructions, or between the elements of a *)
(* repeated one: then the element's access is issued on the same edge.      *)
TakeInterrupt(ready) ==
  /\ Interrupts
  /\ phase = 1 /\ int_stage = "none"
  /\ n_buslock \/ Bcu!DpReady(ready)
  /\ int_stage' = "waiting" /\ irq' = 1 - irq
  /\ NewAccess(ready) \/ NoAccess
  /\ NoJump /\ NoLoad /\ SamePrefix

(* The vector is taken; the next thing is the push of the PSW. *)
SeeIntack ==
  /\ phase = 1 /\ Waiting /\ intack
  /\ int_stage' = "serving"
  /\ NoJump /\ NoAccess /\ NoLoad /\ SamePrefix /\ UNCHANGED irq

EuEdge(ready) ==
  \/ Quiet \/ Access(ready) \/ Accept(ready) \/ Jump \/ Load(ready)
  \/ TakeInterrupt(ready) \/ SeeIntack


EuReset ==
  /\ dp_req' = FALSE
  /\ sregs' = [s \in SregIndex |-> IF s = "PS" THEN ResetPs ELSE 0]
  /\ set_pc' = TRUE /\ next_pc' = 0 /\ fresh' = TRUE
  /\ int_stage' = "none"
  /\ UNCHANGED <<dp, buslock_prefix, irq>>

-----------------------------------------------------------------------------
Edge(ready) ==
  /\ Bcu!BcuEdge(ready)
  /\ EuEdge(ready)
  /\ DecodeEdge
  /\ StoreEdge(ready)
  /\ phase' = 3 - phase

Reset ==
  /\ Resets
  /\ Bcu!BcuReset /\ EuReset /\ DecodeEdge
  /\ \/ UNCHANGED store
     \/ WriteStrobed /\ store' = Written
  /\ phase' = 3 - phase

Next == Reset \/ \E ready \in BOOLEAN : Edge(ready)

(* After power-on with reset held: the registers that the reset branches    *)
(* set, and anything in those they leave out.                               *)
Init ==
  /\ phase \in {1, 2}
  /\ sregs = [s \in SregIndex |-> IF s = "PS" THEN ResetPs ELSE 0]
  /\ dp = PowerOnDp /\ dp_req = FALSE
  /\ buslock_prefix \in Locks
  /\ t_state = "T_IDLE" /\ cycle_type = "IPQ_FETCH"
  /\ addr = 0 /\ n_ube = FALSE
  /\ n_bcyst = TRUE /\ n_dstb = TRUE /\ dout = <<Open, Open>>
  /\ n_buslock \in BOOLEAN
  /\ dp_busy = FALSE /\ dp_final_cycle \in BOOLEAN /\ dp_req2 = FALSE
  /\ dp_din_buf = <<Ones, Ones>>
  /\ pc = 0 /\ reg_pfp = 0 /\ discard_ipq_fetch = FALSE
  /\ ipq = [i \in 0 .. 7 |-> Open]
  /\ intack = FALSE /\ intack_idles = 0 /\ intvec = Open
  /\ set_pc = TRUE /\ next_pc = 0 /\ fresh = TRUE
  /\ int_stage = "none" /\ irq = 0
  /\ store = [c \in Cells |-> Byte(c[1], c[2])]

Spec == Init /\ [][Next]_vars

(* Memory and peripherals answer in the end (n_ready is not held high for   *)
(* ever) and the clock runs; nothing else is assumed to be fair, every      *)
(* register steps on every edge.                                            *)
Clock    == \E ready \in BOOLEAN : Edge(ready)
Answered == phase = 1 /\ t_state = "T_2" /\ Edge(TRUE)

LiveSpec == Spec /\ WF_vars(Clock) /\ SF_vars(Answered)

-----------------------------------------------------------------------------
BcuTypeOK ==
  /\ t_state \in TStates /\ cycle_type \in CycleTypes
  /\ addr \in BusAddrs
  /\ n_ube \in BOOLEAN /\ n_bcyst \in BOOLEAN /\ n_dstb \in BOOLEAN
  /\ dout \in Bytes \X Bytes
  /\ n_buslock \in BOOLEAN
  /\ dp_busy \in BOOLEAN /\ dp_final_cycle \in BOOLEAN /\ dp_req2 \in BOOLEAN
  /\ dp_din_buf \in Bytes \X Bytes
  /\ reg_pfp \in Offsets /\ discard_ipq_fetch \in BOOLEAN
  /\ ipq \in [0 .. 7 -> Bytes]
  /\ intack \in BOOLEAN /\ intack_idles \in 0 .. Bcu!IdleCap /\ intvec \in Bytes

CoreTypeOK ==
  /\ sregs \in [SregIndex -> Nat]
  /\ dp \in DpRecords /\ dp_req \in BOOLEAN
  /\ buslock_prefix \in BOOLEAN
  /\ set_pc \in BOOLEAN /\ next_pc \in Offsets /\ pc \in Offsets
  /\ fresh \in BOOLEAN /\ int_stage \in {"none", "waiting", "serving"}

BoardTypeOK == phase \in {1, 2} /\ irq \in {0, 1} /\ store \in [Cells -> Bytes]

TypeOK == BcuTypeOK /\ CoreTypeOK /\ BoardTypeOK

(* The queue holds no more than its eight bytes, and what the decoder would *)
(* take from it is the program: the bytes from PS:pc on, in order.  Jumps   *)
(* may meet a fetch at any point of its cycle.                              *)
QueueCoherent ==
  fresh /\ ~set_pc =>
    /\ Bcu!IpqLen <= Bcu!QueueSize
    /\ \A i \in 0 .. Bcu!IpqLen - 1 :
         ipq[(pc + i) % 8] = Byte("code", PhysicalAddr(sregs, "PS", OffsetPlus(pc, i)))

(* The first location of the access that has the bus. *)
InSecondHalf == dp.wide /\ Odd(dp.addr) /\ dp_final_cycle /\ t_state # "T_IDLE"
BusFirst == IF InSecondHalf THEN addr - 1 ELSE addr

(* The word on dp_din at the edge that dp_ready announces it: both halves   *)
(* from the cells of the access, whatever lanes and cycles they came by.    *)
ReadFresh ==
  dp_busy /\ Bcu!DpBusReady(TRUE) /\ ~dp.write =>
    /\ Bcu!DpDin[1] = store[<<Space, BusFirst>>]
    /\ dp.wide => Bcu!DpDin[2] = store[<<Space, BusFirst + 1>>]

(* The arbiter reads dp_busy between cycles as "the second byte of an       *)
(* unaligned access": it is never anything else, and the pins still show    *)
(* the first byte.                                                          *)
SecondByte ==
  dp_busy /\ t_state = "T_IDLE" =>
    /\ dp.wide /\ Odd(dp.addr)
    /\ cycle_type = Bcu!DpCycle
    /\ Odd(addr) /\ ~n_ube

(* From the first acknowledge cycle to the start of the second the bus is   *)
(* locked, whatever the interrupted program's prefixes were.                *)
IntAckLocked == cycle_type = "INT_ACK1" => ~n_buslock

(* The vector the execution unit takes is the one the second acknowledge    *)
(* cycle of this very interrupt read.                                       *)
VectorFresh == Waiting /\ intack => intvec = Byte("vector2", irq)

(* As long as the data strobe is asserted the cycle on the pins does not    *)
(* change, nor does the data of a write.                                    *)
StrobeStable ==
  [][~n_dstb /\ ~n_dstb' => UNCHANGED <<addr, n_ube, cycle_type, dout>>]_vars

-----------------------------------------------------------------------------
(* The queue the decoder sees implements PrefetchQueue. *)
Visible == fresh /\ ~set_pc
Queue == INSTANCE PrefetchQueue WITH
  valid <- fresh,
  ps <- IF fresh THEN sregs["PS"] ELSE 0,
  pc <- IF fresh THEN PcNow ELSE 0,
  q  <- IF Visible THEN [i \in 1 .. Bcu!IpqLen |-> ipq[(pc + i - 1) % 8]] ELSE <<>>
QueueSpec == Queue!Spec

(* The data port implements DataPort, whatever changes PS while an access   *)
(* waits or between its halves: the access that waits and the transfers     *)
(* still to happen of the one that began can be read off the registers.     *)
Asked == IF Bcu!RequestPending THEN {dp} ELSE {}

TransfersOf(r, space, first) ==
  LET Half(n) == [cell |-> <<space, first + n>>, write |-> r.write,
                  byte |-> r.dout[n + 1]]
  IN  {Half(n) : n \in IF r.wide THEN {0, 1} ELSE {0}}

SecondLeft == dp.wide /\ Odd(dp.addr) /\ (t_state = "T_IDLE" \/ dp_final_cycle)
Todo ==
  IF ~dp_busy THEN {}
  ELSE LET all == TransfersOf(dp, Space, BusFirst)
       IN  IF SecondLeft THEN {t \in all : t.cell[2] = BusFirst + 1} ELSE all

Port == INSTANCE DataPort WITH asked <- Asked, todo <- Todo
PortSpec == Port!Spec

-----------------------------------------------------------------------------
(* A request is taken up, the access it starts ends, and an interrupt that  *)
(* is taken is acknowledged, however the three compete for the bus.         *)
EveryoneServed ==
  /\ Bcu!RequestPending ~> dp_busy
  /\ dp_busy ~> ~dp_busy
  /\ Waiting ~> ~Waiting
=============================================================================
