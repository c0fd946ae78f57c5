------------------------- MODULE BusSystemProofs -------------------------
(* Theorems about BusSystem for every width of the registers, every set of  *)
(* accesses, jump targets and segment values, with interrupts and resets:   *)
(* the types, the prefetch queue, and the lanes of a data access.           *)
EXTENDS BusSystem, Sequences, TLAPS

(* What the data port's registers mean together.  It is the strengthening   *)
(* that makes the type invariant inductive: addr is incremented only where  *)
(* an odd address is on the pins, so it stays a bus address.                *)
FirstHalfLeft == t_state = "T_IDLE" \/ ~dp_final_cycle

DpShape ==
  /\ dp_busy =>
       /\ cycle_type = Bcu!DpCycle
       /\ ~Bcu!RequestPending
       /\ FirstHalfLeft => dp.wide /\ Odd(dp.addr) /\ Odd(addr) /\ ~n_ube
  /\ ~dp_busy /\ t_state # "T_IDLE" => cycle_type \notin DpCycles
  /\ cycle_type \in DpCycles /\ ~n_ube => addr < Phys

TypeInv == TypeOK /\ DpShape

-----------------------------------------------------------------------------
(* Arithmetic. *)

(* The low four bits of the width are zero, so it is at least sixteen. *)
LEMMA WidthFacts ==
  /\ Offs \in Nat /\ Offs >= 16 /\ Offs % 16 = 0
  /\ Para \in Nat /\ Para % 2 = 0
  /\ Phys \in Nat /\ Phys >= 16 /\ Phys % 2 = 0
BY WidthAssumption

(* Steps shorter than the width wrap at most once. *)
LEMMA OffsetPlusWraps ==
  ASSUME NEW o \in Offsets, NEW n \in 0 .. 16
  PROVE  OffsetPlus(o, n) = IF o + n < Offs THEN o + n ELSE o + n - Offs
BY WidthFacts DEF OffsetPlus, Offsets

LEMMA OffsetPlusType ==
  ASSUME NEW o \in Offsets, NEW n \in 0 .. 16
  PROVE  OffsetPlus(o, n) \in Offsets
BY WidthFacts, OffsetPlusWraps DEF Offsets

LEMMA PhysicalType ==
  ASSUME NEW s \in [SregIndex -> Nat], NEW r \in SregIndex, NEW o \in Offsets
  PROVE  PhysicalAddr(s, r, o) \in 0 .. Phys - 1
<1>1. s[r] \in Nat OBVIOUS
<1>2. s[r] * Para \in Nat BY <1>1, WidthFacts
<1>3. s[r] * Para + o \in Nat BY <1>2 DEF Offsets
<1> QED BY <1>3, WidthFacts DEF PhysicalAddr

(* Adding an even number keeps the parity, and so does reducing modulo one. *)
LEMMA EvenShift ==
  ASSUME NEW u \in Nat, NEW m \in Nat
  PROVE  (2 * u + m) % 2 = m % 2
OBVIOUS

LEMMA EvenModulus ==
  ASSUME NEW x \in Nat, NEW d \in Nat, d > 0, d % 2 = 0
  PROVE  (x % d) % 2 = x % 2
<1>1. PICK k \in Nat : d = 2 * k OBVIOUS
<1>2. PICK q \in Nat : x = d * q + (x % d) OBVIOUS
<1>3. x % d \in Nat OBVIOUS
<1>4. PICK m \in Nat : m = x % d BY <1>3
<1>5. PICK u \in Nat : u = k * q OBVIOUS
<1>6. x = 2 * u + m BY <1>1, <1>2, <1>4, <1>5
<1>7. x % 2 = m % 2 BY <1>6, EvenShift
<1> QED BY <1>4, <1>7

(* The parity of an offset is the parity of its address. *)
LEMMA PhysicalParity ==
  ASSUME NEW s \in [SregIndex -> Nat], NEW r \in SregIndex, NEW o \in Offsets
  PROVE  Odd(PhysicalAddr(s, r, o)) <=> Odd(o)
<1>1. s[r] \in Nat OBVIOUS
<1>2. PICK h \in Nat : Para = 2 * h BY WidthFacts
<1>3. PICK u \in Nat : u = s[r] * h BY <1>1
<1>4. PICK x \in Nat : x = s[r] * Para + o BY <1>1, WidthFacts DEF Offsets
<1>5. x = 2 * u + o BY <1>1, <1>2, <1>3, <1>4 DEF Offsets
<1>6. x % 2 = o % 2 BY <1>5, EvenShift DEF Offsets
<1>7. (x % Phys) % 2 = x % 2 BY WidthFacts, EvenModulus
<1> QED BY <1>4, <1>6, <1>7 DEF PhysicalAddr, Odd

(* The instance of BusControlUnit has its own names for the operators of    *)
(* V33Types; they are the same operators.                                   *)
LEMMA SharedOperators ==
  /\ \A s, r, o : Bcu!PhysicalAddr(s, r, o) = PhysicalAddr(s, r, o)
  /\ \A o, n : Bcu!OffsetPlus(o, n) = OffsetPlus(o, n)
  /\ \A a : Bcu!Odd(a) <=> Odd(a)
  /\ \A w : Bcu!Swap(w) = Swap(w)
  /\ Bcu!DpReads = DpReads /\ Bcu!DpWrites = DpWrites /\ Bcu!IntAcks = IntAcks
BY DEF Bcu!PhysicalAddr, PhysicalAddr, Bcu!OffsetPlus, OffsetPlus, Bcu!Odd, Odd,
   Bcu!Swap, Swap, Bcu!DpReads, DpReads, Bcu!DpWrites, DpWrites, Bcu!IntAcks, IntAcks

-----------------------------------------------------------------------------
(* Types. *)

LEMMA ByteType ==
  /\ Open \in Bytes /\ Ones \in Bytes
  /\ \A n \in Int : \A o \in Origins : Byte(o, n) \in Bytes
BY DEF Bytes, Origins, Byte, Open, Ones

(* Whatever the cycle, the data pins carry bytes. *)
LEMMA ByteAtType ==
  ASSUME TypeOK, NEW a \in Int, cycle_type \in DpCycles => a \in BusAddrs
  PROVE  ByteAt(a) \in Bytes
<1>1. CASE cycle_type \in {"MEM_READ", "IO_READ"}
  BY <1>1 DEF ByteAt, TypeOK, BoardTypeOK, Cells, Spaces, DpCycles, DpReads
<1>2. CASE cycle_type \notin {"MEM_READ", "IO_READ"}
  BY <1>2, ByteType DEF ByteAt, Origins
<1> QED BY <1>1, <1>2

LEMMA PinsType ==
  ASSUME TypeInv PROVE DataPins \in Bytes \X Bytes
<1> USE DEF TypeInv
<1>1. addr \in BusAddrs /\ addr \in Int /\ addr + 1 \in Int /\ irq \in Int
  BY WidthFacts DEF TypeOK, BcuTypeOK, BoardTypeOK, BusAddrs
<1>2. cycle_type \in DpCycles /\ ~n_ube => addr + 1 \in BusAddrs
  BY <1>1, WidthFacts DEF DpShape, BusAddrs
<1>3. ByteAt(addr) \in Bytes BY <1>1, ByteAtType
<1>4. ~n_ube => ByteAt(addr + 1) \in Bytes BY <1>1, <1>2, ByteAtType
<1>5. Byte("vector1", irq) \in Bytes /\ Byte("vector2", irq) \in Bytes
  BY <1>1, ByteType DEF Origins
<1> QED BY <1>3, <1>4, <1>5, ByteType DEF DataPins

LEMMA CoreStep ==
  ASSUME TypeOK, NEW ready \in BOOLEAN, EuEdge(ready), DecodeEdge
  PROVE  CoreTypeOK'
<1> USE DEF TypeOK, CoreTypeOK
<1>1. pc' \in Offsets
  BY OffsetPlusType DEF DecodeEdge
<1>2. set_pc' \in BOOLEAN /\ next_pc' \in Offsets /\ fresh' \in BOOLEAN
  BY SystemAssumption DEF EuEdge, Quiet, Access, Accept, Jump, Load, TakeInterrupt,
     SeeIntack, NoJump
<1>3. sregs' \in [SregIndex -> Nat]
  BY SystemAssumption DEF EuEdge, Quiet, Access, Accept, Jump, Load, TakeInterrupt,
     SeeIntack, NoLoad, SregIndex
<1>4. dp' \in DpRecords /\ dp_req' \in BOOLEAN
  BY SystemAssumption DEF EuEdge, Quiet, Access, Accept, Jump, Load, TakeInterrupt,
     SeeIntack, NoAccess, NewAccess
<1>5. buslock_prefix' \in BOOLEAN
  BY SystemAssumption DEF EuEdge, Quiet, Access, Accept, Jump, Load, TakeInterrupt,
     SeeIntack, SamePrefix
<1>6. int_stage' \in {"none", "waiting", "serving"}
  BY DEF EuEdge, Quiet, Access, Accept, Jump, Load, TakeInterrupt, SeeIntack, SameStage
<1> QED BY <1>1, <1>2, <1>3, <1>4, <1>5, <1>6

(* Memory only ever takes bytes, whichever lanes a write selects. *)
LEMMA WrittenType ==
  ASSUME TypeInv PROVE Written \in [Cells -> Bytes]
BY DEF Written, TypeInv, TypeOK, BcuTypeOK, BoardTypeOK

LEMMA BoardStep ==
  ASSUME TypeInv, NEW ready \in BOOLEAN, EuEdge(ready), StoreEdge(ready), phase' = 3 - phase
  PROVE  BoardTypeOK'
<1> USE DEF TypeInv, TypeOK, BoardTypeOK
<1>1. irq' \in {0, 1}
  BY DEF EuEdge, Quiet, Access, Accept, Jump, Load, TakeInterrupt, SeeIntack, SameStage
<1>2. store' \in [Cells -> Bytes] BY WrittenType DEF StoreEdge
<1> QED BY <1>1, <1>2

(* The registers every edge updates first. *)
LEMMA PrologueStep ==
  ASSUME TypeOK
  PROVE  /\ Bcu!LatchJump => reg_pfp' \in Offsets /\ discard_ipq_fetch' \in BOOLEAN
         /\ Bcu!LatchRequest => dp_req2' \in BOOLEAN
         /\ Bcu!DropIntack => intack' \in BOOLEAN
BY DEF TypeOK, BcuTypeOK, CoreTypeOK, Bcu!LatchJump, Bcu!LatchRequest, Bcu!DropIntack,
   Bcu!CurPfp, Bcu!Discarding, Bcu!RequestPending, PcNow

LEMMA DpFirstType ==
  ASSUME TypeOK PROVE Bcu!DpFirst \in 0 .. Phys - 1
<1>1. dp.addr \in Offsets /\ dp.sreg \in SregIndex /\ sregs \in [SregIndex -> Nat]
  BY DEF TypeOK, CoreTypeOK, DpRecords
<1>2. PhysicalAddr(sregs, dp.sreg, dp.addr) \in 0 .. Phys - 1 BY <1>1, PhysicalType
<1>3. dp.addr \in 0 .. Phys - 1 BY <1>1, WidthAssumption DEF Offsets
<1>4. CASE dp.io \/ dp.zero_seg BY <1>3, <1>4 DEF Bcu!DpFirst
<1>5. CASE ~(dp.io \/ dp.zero_seg) BY <1>2, <1>5, SharedOperators DEF Bcu!DpFirst
<1> QED BY <1>4, <1>5

LEMMA DpFirstParity ==
  ASSUME TypeOK PROVE Odd(Bcu!DpFirst) <=> Odd(dp.addr)
<1>1. dp.addr \in Offsets /\ dp.sreg \in SregIndex /\ sregs \in [SregIndex -> Nat]
  BY DEF TypeOK, CoreTypeOK, DpRecords
<1>2. Odd(PhysicalAddr(sregs, dp.sreg, dp.addr)) <=> Odd(dp.addr) BY <1>1, PhysicalParity
<1>4. CASE dp.io \/ dp.zero_seg BY <1>4 DEF Bcu!DpFirst
<1>5. CASE ~(dp.io \/ dp.zero_seg) BY <1>2, <1>5, SharedOperators DEF Bcu!DpFirst
<1> QED BY <1>4, <1>5

LEMMA BcuStep ==
  ASSUME TypeInv, NEW ready \in BOOLEAN, Bcu!BcuEdge(ready)
  PROVE  BcuTypeOK'
<1> USE DEF TypeInv, TypeOK, BcuTypeOK
<1>a. DataPins \in Bytes \X Bytes BY PinsType
<1>b. Bcu!CountIdle \in 0 .. Bcu!IdleCap /\ 0 \in 0 .. Bcu!IdleCap
  BY DEF Bcu!CountIdle, Bcu!IdleCap
<1>c. Bcu!Unlocked \in BOOLEAN BY DEF Bcu!Unlocked
<1>1. CASE Bcu!Rest(ready)
  BY <1>1, PrologueStep DEF Bcu!Rest, Bcu!Prologue, Bcu!cycleRegs, Bcu!strobeRegs,
     Bcu!dpRegs, Bcu!ackRegs
<1>2. CASE Bcu!Strobe
  <2>1. dp.dout \in Bytes \X Bytes BY DEF CoreTypeOK, DpRecords
  <2>2. Swap(dp.dout) \in Bytes \X Bytes BY <2>1 DEF Swap
  <2>3. dout' \in Bytes \X Bytes BY <1>2, <2>1, <2>2, SharedOperators DEF Bcu!Strobe
  <2> QED BY <1>2, <2>3, PrologueStep DEF Bcu!Strobe, Bcu!Prologue, Bcu!cycleRegs,
          Bcu!dpRegs, Bcu!ackRegs
<1>3. CASE Bcu!EnterT2
  BY <1>3, PrologueStep DEF Bcu!EnterT2, Bcu!Prologue, Bcu!strobeRegs,
     Bcu!dpRegs, Bcu!ackRegs, TStates
<1>4. CASE Bcu!Completion
  <2> USE <1>4 DEF Bcu!Completion, Bcu!Complete, Bcu!Prologue, TStates
  <2>1. CASE Bcu!AcceptFetch
    <3>1. Bcu!FetchBytes \in [0 .. 7 -> Bytes]
      <4>1. reg_pfp % 8 \in 0 .. 7 /\ (reg_pfp + 1) % 8 \in 0 .. 7
        BY WidthFacts DEF Offsets
      <4> QED BY <1>a, <4>1 DEF Bcu!FetchBytes
    <3>2. OffsetPlus(reg_pfp, Bcu!FetchSize) \in Offsets
      BY OffsetPlusType DEF Bcu!FetchSize
    <3>3. ipq' \in [0 .. 7 -> Bytes] /\ reg_pfp' \in Offsets
      BY <2>1, <3>1, <3>2, SharedOperators DEF Bcu!AcceptFetch
    <3>4. discard_ipq_fetch' = FALSE /\ dp_req2' \in BOOLEAN /\ intack' \in BOOLEAN
      BY <2>1, PrologueStep DEF Bcu!AcceptFetch
    <3> QED BY <2>1, <3>3, <3>4 DEF Bcu!AcceptFetch
  <2>2. CASE Bcu!DropFetch BY <2>2, PrologueStep DEF Bcu!DropFetch
  <2>3. CASE Bcu!CompleteRead BY <1>a, <2>3, PrologueStep DEF Bcu!CompleteRead
  <2>4. CASE Bcu!CompleteWrite BY <2>4, PrologueStep DEF Bcu!CompleteWrite
  <2>5. CASE Bcu!CompleteIntAck BY <1>a, <2>5, PrologueStep DEF Bcu!CompleteIntAck
  <2> QED BY <2>1, <2>2, <2>3, <2>4, <2>5
<1>5. CASE Bcu!Arbitration
  <2> USE <1>5, <1>b, <1>c DEF Bcu!Arbitration, Bcu!Arbitrate, Bcu!Prologue, Bcu!Begin, TStates,
          CycleTypes, Bcu!cycleRegs
  <2>1. CASE Bcu!IntAckIdle BY <2>1, PrologueStep DEF Bcu!IntAckIdle
  <2>2. CASE Bcu!StartIntAck2 BY <2>2, PrologueStep DEF Bcu!StartIntAck2
  <2>3. CASE Bcu!IntAck2Idle BY <2>3, PrologueStep DEF Bcu!IntAck2Idle
  <2>4. CASE Bcu!FinishIntAck BY <2>4, PrologueStep DEF Bcu!FinishIntAck
  <2>5. CASE Bcu!SecondAccess
    <3>1. addr + 1 \in BusAddrs
      BY <2>5, WidthFacts DEF Bcu!SecondAccess, Bcu!SecondAddr, DpShape, FirstHalfLeft, BusAddrs, Odd
    <3> QED BY <2>5, <3>1, PrologueStep DEF Bcu!SecondAccess, Bcu!SecondAddr
  <2>6. CASE Bcu!StartIntAck1 BY <2>6, PrologueStep DEF Bcu!StartIntAck1
  <2>7. CASE Bcu!StartDp
    <3>1. Bcu!DpFirst \in BusAddrs BY DpFirstType, WidthFacts DEF BusAddrs
    <3>2. Bcu!DpCycle \in CycleTypes BY DEF Bcu!DpCycle
    <3>3. dp.wide \in BOOLEAN BY DEF CoreTypeOK, DpRecords
    <3>4. n_ube' \in BOOLEAN /\ dp_final_cycle' \in BOOLEAN
      BY <2>7, <3>3, SharedOperators DEF Bcu!StartDp, Bcu!SingleCycle
    <3>5. addr' \in BusAddrs /\ cycle_type' \in CycleTypes BY <2>7, <3>1, <3>2 DEF Bcu!StartDp
    <3> HIDE DEF CycleTypes
    <3> QED BY <2>7, <3>4, <3>5, PrologueStep DEF Bcu!StartDp
  <2>8. CASE Bcu!StartPrefetch
    <3>1. Bcu!CurPfp \in Offsets BY DEF Bcu!CurPfp, PcNow, CoreTypeOK
    <3>2. PhysicalAddr(sregs, "PS", Bcu!CurPfp) \in BusAddrs
      BY <3>1, PhysicalType, WidthFacts DEF BusAddrs, CoreTypeOK, SregIndex
    <3>3. addr' \in BusAddrs BY <2>8, <3>2, SharedOperators DEF Bcu!StartPrefetch
    <3> QED BY <2>8, <3>1, <3>3, PrologueStep DEF Bcu!StartPrefetch
  <2>9. CASE Bcu!StayIdle BY <2>9, PrologueStep DEF Bcu!StayIdle
  <2> QED BY <2>1, <2>2, <2>3, <2>4, <2>5, <2>6, <2>7, <2>8, <2>9
<1> QED BY <1>1, <1>2, <1>3, <1>4, <1>5 DEF Bcu!BcuEdge

(* The dp registers keep their values until the access they describe is on  *)
(* its last edge, and nothing is then waiting.                              *)
LEMMA DpHeld ==
  ASSUME TypeInv, NEW ready \in BOOLEAN, EuEdge(ready)
  PROVE  \/ dp' = dp /\ dp_req' = FALSE
         \/ /\ phase = 1
            /\ ~Bcu!RequestPending
            /\ dp_busy => dp_final_cycle /\ t_state = "T_2" /\ ready
BY DEF EuEdge, Quiet, Access, Accept, Jump, Load, TakeInterrupt, SeeIntack, NoAccess,
   NewAccess, Bcu!DpReady, Bcu!DpBusReady, Bcu!RequestPending, TypeInv, TypeOK, CoreTypeOK

LEMMA DpShapeStep ==
  ASSUME TypeInv, NEW ready \in BOOLEAN, Bcu!BcuEdge(ready), EuEdge(ready)
  PROVE  DpShape'
<1> DEFINE Held == dp' = dp /\ dp_req' = FALSE
<1> USE DEF TypeInv, TypeOK, BcuTypeOK, CoreTypeOK
<1>a. Bcu!DpCycle \in DpCycles
  BY DEF Bcu!DpCycle, DpCycles, DpReads, DpWrites
<1>b. Held => Bcu!DpCycle' = Bcu!DpCycle
  BY DEF Bcu!DpCycle
<1>c. Held /\ dp_req2' = FALSE => ~Bcu!RequestPending'
  BY DEF Bcu!RequestPending
<1>d. dp_busy => cycle_type \in DpCycles /\ ~Bcu!RequestPending
  BY <1>a DEF DpShape
<1>e. \/ Held
      \/ /\ phase = 1
         /\ ~dp_busy \/ (dp_final_cycle /\ t_state = "T_2" /\ ready)
  BY DpHeld
<1>1. CASE Bcu!Rest(ready) \/ Bcu!Strobe \/ Bcu!EnterT2
  <2>1. /\ cycle_type' = cycle_type /\ addr' = addr /\ n_ube' = n_ube
        /\ dp_busy' = dp_busy /\ dp_final_cycle' = dp_final_cycle
        /\ t_state' = "T_IDLE" <=> t_state = "T_IDLE"
        /\ dp_req2' = Bcu!RequestPending
        /\ phase = 1 /\ t_state = "T_2" => ~ready
    BY <1>1 DEF Bcu!Rest, Bcu!Strobe, Bcu!EnterT2, Bcu!Prologue, Bcu!LatchRequest,
       Bcu!cycleRegs, Bcu!dpRegs
  <2>2. dp_busy => Held BY <2>1, DpHeld
  <2>3. dp_busy => ~Bcu!RequestPending' BY <1>c, <1>d, <2>1, <2>2
  <2> QED BY <1>b, <2>1, <2>2, <2>3 DEF DpShape, FirstHalfLeft
<1>2. CASE ready /\ Bcu!Completion
  <2>1. /\ cycle_type' = cycle_type /\ addr' = addr /\ n_ube' = n_ube
        /\ t_state = "T_2" /\ t_state' = "T_IDLE"
        /\ dp_req2' = Bcu!RequestPending
    BY <1>2 DEF Bcu!Completion, Bcu!AcceptFetch, Bcu!DropFetch, Bcu!CompleteRead,
       Bcu!CompleteWrite, Bcu!CompleteIntAck, Bcu!Complete, Bcu!Prologue, Bcu!LatchRequest
  <2>2. CASE dp_busy' = FALSE
    BY <2>1, <2>2 DEF DpShape
  <2>3. CASE dp_busy'
    <3>1. dp_busy /\ ~dp_final_cycle
      BY <1>2, <1>d, <2>1, <2>3, SharedOperators DEF Bcu!Completion, Bcu!AcceptFetch,
         Bcu!DropFetch, Bcu!CompleteRead, Bcu!CompleteWrite, Bcu!CompleteIntAck, DpShape,
         DpCycles, DpReads, DpWrites, IntAcks
    <3>2. Held BY <1>e, <3>1
    <3> QED BY <1>b, <1>c, <1>d, <2>1, <3>1, <3>2 DEF DpShape, FirstHalfLeft
  <2>4. dp_busy' \in BOOLEAN
    BY <1>2 DEF Bcu!Completion, Bcu!AcceptFetch, Bcu!DropFetch, Bcu!CompleteRead,
       Bcu!CompleteWrite, Bcu!CompleteIntAck
  <2> QED BY <2>2, <2>3, <2>4
<1>3. CASE Bcu!Arbitration
  <2>0. phase = 2 /\ t_state = "T_IDLE"
    BY <1>3 DEF Bcu!Arbitration, Bcu!Arbitrate, Bcu!IntAckIdle, Bcu!StartIntAck2,
       Bcu!IntAck2Idle, Bcu!FinishIntAck, Bcu!SecondAccess, Bcu!StartIntAck1, Bcu!StartDp,
       Bcu!StartPrefetch, Bcu!StayIdle
  <2>1. Held BY <1>e, <2>0
  <2>2. CASE Bcu!IntAckIdle \/ Bcu!StartIntAck2 \/ Bcu!IntAck2Idle \/ Bcu!FinishIntAck
    <3>1. cycle_type \in IntAcks /\ cycle_type' \in IntAcks \cup {"IPQ_FETCH"}
      BY <2>2 DEF Bcu!IntAckIdle, Bcu!StartIntAck2, Bcu!IntAck2Idle, Bcu!FinishIntAck,
         Bcu!cycleRegs, Bcu!Begin, IntAcks
    <3>2. ~dp_busy /\ dp_busy' = dp_busy
      BY <1>d, <2>2, <3>1 DEF Bcu!IntAckIdle, Bcu!StartIntAck2, Bcu!IntAck2Idle,
         Bcu!FinishIntAck, DpCycles, DpReads, DpWrites, IntAcks
    <3> QED BY <3>1, <3>2 DEF DpShape, DpCycles, DpReads, DpWrites, IntAcks
  <2>3. CASE Bcu!SecondAccess
    <3>1. /\ dp_busy /\ dp_busy' = dp_busy /\ cycle_type' = cycle_type
          /\ t_state' = "T_1" /\ n_ube' = TRUE /\ dp_final_cycle' = TRUE
          /\ dp_req2' = Bcu!RequestPending
      BY <2>3 DEF Bcu!SecondAccess, Bcu!Begin, Bcu!Prologue, Bcu!LatchRequest
    <3> QED BY <1>b, <1>c, <1>d, <2>1, <3>1 DEF DpShape, FirstHalfLeft
  <2>4. CASE Bcu!StartIntAck1 \/ Bcu!StartPrefetch
    <3>1. /\ cycle_type' \in {"INT_ACK1", "IPQ_FETCH"} /\ ~dp_busy /\ dp_busy' = dp_busy
      BY <2>4 DEF Bcu!StartIntAck1, Bcu!StartPrefetch, Bcu!Begin
    <3> QED BY <3>1 DEF DpShape, DpCycles, DpReads, DpWrites
  <2>5. CASE Bcu!StartDp
    <3>1. /\ dp_busy' = TRUE /\ dp_req2' = FALSE /\ t_state' = "T_1"
          /\ cycle_type' = Bcu!DpCycle /\ addr' = Bcu!DpFirst
          /\ n_ube' = (~dp.wide /\ ~Odd(dp.addr))
          /\ dp_final_cycle' = (~dp.wide \/ ~Odd(dp.addr))
      BY <2>5, SharedOperators DEF Bcu!StartDp, Bcu!SingleCycle, Bcu!Begin
    <3>2. Bcu!DpFirst < Phys BY DpFirstType, WidthFacts
    <3>3. Odd(Bcu!DpFirst) <=> Odd(dp.addr) BY DpFirstParity
    <3> QED BY <1>a, <1>b, <1>c, <2>1, <3>1, <3>2, <3>3 DEF DpShape, FirstHalfLeft
  <2>6. CASE Bcu!StayIdle
    <3>1. ~dp_busy /\ dp_busy' = dp_busy /\ UNCHANGED Bcu!cycleRegs
      BY <2>6 DEF Bcu!StayIdle
    <3> QED BY <2>0, <3>1 DEF DpShape, Bcu!cycleRegs
  <2> QED BY <1>3, <2>2, <2>3, <2>4, <2>5, <2>6 DEF Bcu!Arbitration
<1> QED BY <1>1, <1>2, <1>3 DEF Bcu!BcuEdge

(* Reset leaves no access under way. *)
LEMMA ResetStep ==
  ASSUME TypeInv, Reset PROVE TypeInv'
<1> USE DEF TypeInv, TypeOK, Reset
<1>1. BcuTypeOK'
  BY ByteType DEF Bcu!BcuReset, Bcu!ResetAccess, Bcu!ResetCycle, BcuTypeOK, TStates, CycleTypes, Ones, CoreTypeOK, PcNow
<1>2. pc' \in Offsets
  BY OffsetPlusType DEF DecodeEdge, CoreTypeOK
<1>3. CoreTypeOK'
  BY <1>2, SystemAssumption, WidthFacts DEF EuReset, CoreTypeOK, Offsets, SregIndex
<1>4. BoardTypeOK'
  BY WrittenType DEF EuReset, BoardTypeOK
<1>5. DpShape'
  BY DEF Bcu!BcuReset, Bcu!ResetAccess, Bcu!ResetCycle, DpShape, DpCycles, DpReads, DpWrites
<1> QED BY <1>1, <1>3, <1>4, <1>5

LEMMA TypeInit == ASSUME Init PROVE TypeInv
<1> USE DEF Init, TypeInv, TypeOK
<1>1. BcuTypeOK
  <2>1. addr \in BusAddrs /\ reg_pfp \in Offsets
    BY WidthFacts DEF BusAddrs, Offsets
  <2>2. dout \in Bytes \X Bytes /\ dp_din_buf \in Bytes \X Bytes /\ intvec \in Bytes
    BY ByteType
  <2>3. ipq \in [0 .. 7 -> Bytes]
    BY ByteType
  <2>4. intack_idles \in 0 .. Bcu!IdleCap
    BY DEF Bcu!IdleCap
  <2>5. t_state \in TStates /\ cycle_type \in CycleTypes
    BY DEF TStates, CycleTypes
  <2> QED BY <2>1, <2>2, <2>3, <2>4, <2>5 DEF BcuTypeOK
<1>2. CoreTypeOK
  BY SystemAssumption, WidthFacts, ByteType DEF CoreTypeOK, PowerOnDp, DpRecords, Offsets,
     SregIndex
<1>3. BoardTypeOK
  BY ByteType DEF BoardTypeOK, Cells, Spaces, Bytes, Byte, Origins, BusAddrs
<1>4. DpShape
  BY DEF DpShape, DpCycles, DpReads, DpWrites
<1> QED BY <1>1, <1>2, <1>3, <1>4

LEMMA TypeNext == ASSUME TypeInv, [Next]_vars PROVE TypeInv'
<1>1. CASE Reset BY <1>1, ResetStep
<1>2. ASSUME NEW ready \in BOOLEAN, Edge(ready) PROVE TypeInv'
  <2> USE <1>2 DEF Edge, TypeInv, TypeOK
  <2>1. BcuTypeOK' BY BcuStep
  <2>2. CoreTypeOK' BY CoreStep
  <2>3. BoardTypeOK' BY BoardStep
  <2>4. DpShape' BY DpShapeStep
  <2> QED BY <2>1, <2>2, <2>3, <2>4
<1>3. CASE UNCHANGED vars
  BY <1>3 DEF vars, euVars, Bcu!bcuVars, Bcu!cycleRegs, Bcu!strobeRegs, Bcu!dpRegs,
     Bcu!ackRegs, TypeInv, TypeOK, BcuTypeOK, CoreTypeOK, BoardTypeOK, DpShape,
     FirstHalfLeft, Bcu!DpCycle, Bcu!RequestPending
<1> QED BY <1>1, <1>2, <1>3 DEF Next

(* Every register stays within its width and every address on the pins is   *)
(* one the bus has, whatever the widths and however the parts interleave.   *)
THEOREM TypeCorrect == Spec => []TypeOK
<1>1. Init => TypeInv BY TypeInit
<1>2. TypeInv /\ [Next]_vars => TypeInv' BY TypeNext
<1>3. TypeInv => TypeOK BY DEF TypeInv
<1> QED BY <1>1, <1>2, <1>3, PTL DEF Spec

(* The arbiter is right to take dp_busy between cycles for the second byte  *)
(* of an unaligned word.                                                    *)
THEOREM SecondByteCorrect == Spec => []SecondByte
<1>1. Init => TypeInv BY TypeInit
<1>2. TypeInv /\ [Next]_vars => TypeInv' BY TypeNext
<1>3. TypeInv => SecondByte
  BY DEF TypeInv, DpShape, FirstHalfLeft, SecondByte
<1> QED BY <1>1, <1>2, <1>3, PTL DEF Spec

-----------------------------------------------------------------------------
(* The prefetch queue.  The low four bits of an offset tell the length of   *)
(* the queue and the low three the slot of a byte; both survive the wrap of *)
(* a 16 bit offset because the width is a multiple of sixteen.              *)

LEMMA WidthMultiple == \E k \in Nat : Offs = 16 * k
<1>1. Offs = 16 * (Offs \div 16) /\ Offs \div 16 \in Nat BY WidthFacts
<1> QED BY <1>1

LEMMA LengthFromPointers ==
  ASSUME NEW p \in Offsets, NEW n \in 0 .. 15
  PROVE  (OffsetPlus(p, n) - p) % 16 = n
<1>1. PICK k \in Nat : Offs = 16 * k BY WidthMultiple
<1>2. CASE p + n < Offs BY <1>2, OffsetPlusWraps DEF Offsets
<1>3. CASE p + n >= Offs
  <2>1. OffsetPlus(p, n) - p = n - 16 * k BY <1>1, <1>3, OffsetPlusWraps DEF Offsets
  <2> QED BY <2>1
<1> QED BY <1>2, <1>3, WidthFacts DEF Offsets

LEMMA OffsetPlusSum ==
  ASSUME NEW p \in Offsets, NEW a \in 0 .. 8, NEW b \in 0 .. 8
  PROVE  OffsetPlus(OffsetPlus(p, a), b) = OffsetPlus(p, a + b)
<1>1. OffsetPlus(p, a) \in Offsets /\ a + b \in 0 .. 16 /\ a \in 0 .. 16 /\ b \in 0 .. 16
  BY OffsetPlusType
<1> QED BY <1>1, OffsetPlusWraps, WidthFacts DEF Offsets

LEMMA OffsetPlusZero ==
  ASSUME NEW p \in Offsets
  PROVE  OffsetPlus(p, 0) = p
<1>1. p + 0 < Offs /\ p + 0 = p BY WidthFacts DEF Offsets
<1> QED BY <1>1, OffsetPlusWraps

LEMMA SlotOfOffset ==
  ASSUME NEW p \in Offsets, NEW n \in 0 .. 16
  PROVE  OffsetPlus(p, n) % 8 = (p + n) % 8
<1>1. PICK k \in Nat : Offs = 16 * k BY WidthMultiple
<1>2. OffsetPlus(p, n) = p + n \/ OffsetPlus(p, n) = p + n - 16 * k
  BY <1>1, OffsetPlusWraps DEF Offsets
<1> QED BY <1>2 DEF Offsets

LEMMA SlotType ==
  ASSUME NEW p \in Offsets, NEW n \in 0 .. 16
  PROVE  OffsetPlus(p, n) % 8 \in 0 .. 7
<1>1. (p + n) % 8 \in 0 .. 7 BY DEF Offsets
<1> QED BY <1>1, SlotOfOffset

(* Two of eight consecutive bytes never share a slot. *)
LEMMA SlotsApart ==
  ASSUME NEW p \in Offsets, NEW i \in 0 .. 16, NEW j \in 0 .. 16, i < j, j < i + 8
  PROVE  OffsetPlus(p, i) % 8 # OffsetPlus(p, j) % 8
BY SlotOfOffset DEF Offsets

LEMMA NoCarry ==
  ASSUME NEW x \in Nat, NEW d \in Nat, d > 0, (x % d) + 1 < d
  PROVE  (x + 1) % d = (x % d) + 1
<1>1. PICK q \in Nat : x = d * q + (x % d) OBVIOUS
<1>2. PICK m \in Nat : m = x % d OBVIOUS
<1>3. x + 1 = d * q + (m + 1) /\ m + 1 < d BY <1>1, <1>2
<1>4. PICK y \in Nat : y = x + 1 OBVIOUS
<1>5. y % d = m + 1 BY <1>3, <1>4, SMTT(20)
<1> QED BY <1>2, <1>4, <1>5

(* A word at an even offset does not straddle the end of a segment or of    *)
(* the physical space.                                                      *)
LEMMA EvenWord ==
  ASSUME NEW s \in [SregIndex -> Nat], NEW r \in SregIndex, NEW o \in Offsets, ~Odd(o)
  PROVE  PhysicalAddr(s, r, OffsetPlus(o, 1)) = PhysicalAddr(s, r, o) + 1
<1>1. s[r] \in Nat OBVIOUS
<1>2. PICK x \in Nat : x = s[r] * Para + o BY <1>1, WidthFacts DEF Offsets
<1>3. ~Odd(x % Phys) BY <1>2, PhysicalParity DEF PhysicalAddr
<1>4. PICK h \in Nat : Phys = 2 * h BY WidthFacts
<1>5. x % Phys \in 0 .. Phys - 1 BY WidthFacts
<1>6. (x % Phys) + 1 < Phys BY <1>3, <1>4, <1>5 DEF Odd
<1>a. Phys \in Nat /\ Phys > 0 BY WidthFacts
<1>7. (x + 1) % Phys = (x % Phys) + 1 BY <1>6, <1>a, NoCarry, Zenon
<1>8. OffsetPlus(o, 1) = o + 1
  <2>1. PICK k \in Nat : Offs = 16 * k BY WidthMultiple
  <2>2. o + 1 # Offs BY <2>1 DEF Odd, Offsets
  <2>3. o \in Nat /\ o + 1 < Offs BY <2>2, WidthFacts DEF Offsets
  <2>4. (o + 1) % Offs = o + 1 BY <2>3, WidthFacts
  <2> QED BY <2>4 DEF OffsetPlus
<1>9. s[r] * Para + OffsetPlus(o, 1) = x + 1 BY <1>1, <1>2, <1>8, WidthFacts DEF Offsets
<1> QED BY <1>2, <1>7, <1>9 DEF PhysicalAddr

(* What the queue holds together with what the pins are fetching for it: a  *)
(* fetch is only started with room for two bytes, and only one that was     *)
(* started for the present pointer is accepted.                             *)
CodeByte(o) == Byte("code", PhysicalAddr(sregs, "PS", o))
Fetching    == cycle_type = "IPQ_FETCH" /\ t_state # "T_IDLE" /\ ~discard_ipq_fetch

QueueFilled(n) ==
  \A i \in 0 .. n - 1 : ipq[OffsetPlus(pc, i) % 8] = CodeByte(OffsetPlus(pc, i))

QueueInv ==
  ~set_pc =>
    /\ reg_pfp = OffsetPlus(pc, Bcu!IpqLen)
    /\ Bcu!IpqLen <= 8
    /\ fresh => QueueFilled(Bcu!IpqLen)
    /\ Fetching => /\ Bcu!IpqLen <= 6
                   /\ fresh => /\ addr = PhysicalAddr(sregs, "PS", reg_pfp)
                               /\ ~n_ube

LEMMA IpqLenType ==
  ASSUME TypeOK PROVE Bcu!IpqLen \in 0 .. 15
<1>1. reg_pfp \in Int /\ PcNow \in Int
  BY WidthFacts DEF TypeOK, BcuTypeOK, CoreTypeOK, PcNow, Offsets
<1> QED BY <1>1 DEF Bcu!IpqLen

(* PS only changes with a jump, or leaves the queue stale until one. *)
LEMMA PsHeld ==
  ASSUME NEW ready \in BOOLEAN, TypeOK, EuEdge(ready), ~set_pc', fresh'
  PROVE  fresh /\ sregs'["PS"] = sregs["PS"]
BY DEF EuEdge, Quiet, Access, Accept, Jump, Load, TakeInterrupt, SeeIntack, NoJump,
   NoLoad, TypeOK, CoreTypeOK, SregIndex

(* An edge that accepts no fetch leaves the queue's bytes alone, and if a   *)
(* fetch that counts is under way after it, it was before or it starts now. *)
LEMMA NoAccept ==
  ASSUME TypeInv, NEW ready \in BOOLEAN, Bcu!BcuEdge(ready), ~Bcu!AcceptFetch
  PROVE  /\ ipq' = ipq
         /\ reg_pfp' = Bcu!CurPfp
         /\ Fetching' => \/ /\ Fetching /\ ~set_pc
                            /\ addr' = addr /\ n_ube' = n_ube
                         \/ Bcu!StartPrefetch
<1>1. CASE Bcu!Rest(ready) \/ Bcu!Strobe \/ Bcu!EnterT2
  BY <1>1 DEF Bcu!Rest, Bcu!Strobe, Bcu!EnterT2, Bcu!Prologue, Bcu!LatchJump,
     Bcu!Discarding, Bcu!cycleRegs, Fetching, TypeInv, TypeOK, BcuTypeOK, CoreTypeOK
<1>2. CASE Bcu!Completion
  BY <1>2 DEF Bcu!Completion, Bcu!Complete, Bcu!DropFetch, Bcu!CompleteRead,
     Bcu!CompleteWrite, Bcu!CompleteIntAck, Bcu!Prologue, Bcu!LatchJump, Fetching
<1>3. CASE Bcu!Arbitration
  <2> USE DEF Bcu!Arbitrate, Bcu!Prologue, Bcu!LatchJump, Bcu!Begin, Bcu!cycleRegs, Fetching
  <2>1. CASE Bcu!IntAckIdle \/ Bcu!StartIntAck2 \/ Bcu!IntAck2Idle \/ Bcu!FinishIntAck
    BY <2>1 DEF Bcu!IntAckIdle, Bcu!StartIntAck2, Bcu!IntAck2Idle, Bcu!FinishIntAck
  <2>2. CASE Bcu!SecondAccess
    <3>1. cycle_type # "IPQ_FETCH"
      BY <2>2 DEF Bcu!SecondAccess, TypeInv, DpShape, Bcu!DpCycle
    <3> QED BY <2>2, <3>1 DEF Bcu!SecondAccess
  <2>3. CASE Bcu!StartIntAck1 BY <2>3 DEF Bcu!StartIntAck1
  <2>4. CASE Bcu!StartDp BY <2>4 DEF Bcu!StartDp, Bcu!DpCycle
  <2>5. CASE Bcu!StartPrefetch BY <2>5 DEF Bcu!StartPrefetch
  <2>6. CASE Bcu!StayIdle BY <2>6 DEF Bcu!StayIdle
  <2> QED BY <1>3, <2>1, <2>2, <2>3, <2>4, <2>5, <2>6 DEF Bcu!Arbitration
<1> QED BY <1>1, <1>2, <1>3 DEF Bcu!BcuEdge

(* What is fetched is the program at the prefetch pointer; the other slots  *)
(* are left alone.                                                          *)
LEMMA FetchedBytes ==
  ASSUME TypeOK, cycle_type = "IPQ_FETCH"
  PROVE  /\ \A k \in 0 .. 7 :
              k # reg_pfp % 8 /\ k # OffsetPlus(reg_pfp, 1) % 8 => Bcu!FetchBytes[k] = ipq[k]
         /\ Odd(reg_pfp) =>
              \A k \in 0 .. 7 : k # reg_pfp % 8 => Bcu!FetchBytes[k] = ipq[k]
         /\ addr = PhysicalAddr(sregs, "PS", reg_pfp) /\ ~n_ube =>
              /\ Bcu!FetchBytes[reg_pfp % 8] = CodeByte(reg_pfp)
              /\ ~Odd(reg_pfp) => Bcu!FetchBytes[OffsetPlus(reg_pfp, 1) % 8]
                                    = CodeByte(OffsetPlus(reg_pfp, 1))
<1>1. /\ reg_pfp \in Offsets /\ ipq \in [0 .. 7 -> Bytes]
      /\ sregs \in [SregIndex -> Nat] /\ "PS" \in SregIndex
  BY DEF TypeOK, BcuTypeOK, CoreTypeOK, SregIndex
<1>2. OffsetPlus(reg_pfp, 1) % 8 = (reg_pfp + 1) % 8
  BY <1>1, SlotOfOffset
<1>3. /\ reg_pfp % 8 \in 0 .. 7 /\ (reg_pfp + 1) % 8 \in 0 .. 7
      /\ reg_pfp % 8 # (reg_pfp + 1) % 8
  BY <1>1 DEF Offsets
<1>4. Bcu!FetchBytes = IF Odd(reg_pfp)
                       THEN [ipq EXCEPT ![reg_pfp % 8] = DataPins[2]]
                       ELSE [ipq EXCEPT ![reg_pfp % 8] = DataPins[1],
                                        ![(reg_pfp + 1) % 8] = DataPins[2]]
  BY SharedOperators DEF Bcu!FetchBytes
<1>5. \A k \in 0 .. 7 : k # reg_pfp % 8 /\ k # (reg_pfp + 1) % 8 => Bcu!FetchBytes[k] = ipq[k]
  BY <1>1, <1>4
<1>6. Odd(reg_pfp) => \A k \in 0 .. 7 : k # reg_pfp % 8 => Bcu!FetchBytes[k] = ipq[k]
  BY <1>1, <1>4
<1>7. ASSUME addr = PhysicalAddr(sregs, "PS", reg_pfp), ~n_ube
      PROVE  /\ Bcu!FetchBytes[reg_pfp % 8] = CodeByte(reg_pfp)
             /\ ~Odd(reg_pfp) => Bcu!FetchBytes[(reg_pfp + 1) % 8]
                                   = CodeByte(OffsetPlus(reg_pfp, 1))
  <2>1. Odd(addr) <=> Odd(reg_pfp) BY <1>1, <1>7, PhysicalParity
  <2>2. ByteAt(addr) = CodeByte(reg_pfp) BY <1>7 DEF ByteAt, CodeByte
  <2>3. CASE Odd(reg_pfp)
    <3>1. DataPins[2] = ByteAt(addr) BY <1>7, <2>1, <2>3 DEF DataPins
    <3>2. Bcu!FetchBytes[reg_pfp % 8] = DataPins[2] BY <1>1, <1>3, <1>4, <2>3
    <3> QED BY <2>2, <2>3, <3>1, <3>2
  <2>4. CASE ~Odd(reg_pfp)
    <3>1. DataPins[1] = ByteAt(addr) /\ DataPins[2] = ByteAt(addr + 1)
      BY <1>7, <2>1, <2>4 DEF DataPins
    <3>2. addr + 1 = PhysicalAddr(sregs, "PS", OffsetPlus(reg_pfp, 1))
      BY <1>1, <1>7, <2>4, EvenWord
    <3>3. ByteAt(addr + 1) = CodeByte(OffsetPlus(reg_pfp, 1)) BY <3>2 DEF ByteAt, CodeByte
    <3>4. /\ Bcu!FetchBytes[reg_pfp % 8] = DataPins[1]
          /\ Bcu!FetchBytes[(reg_pfp + 1) % 8] = DataPins[2]
      BY <1>1, <1>3, <1>4, <2>4
    <3> QED BY <2>2, <3>1, <3>3, <3>4
  <2> QED BY <2>3, <2>4
<1> QED BY <1>2, <1>5, <1>6, <1>7

LEMMA QueueStep ==
  ASSUME TypeInv, QueueInv, NEW ready \in BOOLEAN, Edge(ready)
  PROVE  QueueInv'
<1> SUFFICES ASSUME ~set_pc' PROVE QueueInv'
  BY DEF QueueInv
<1> DEFINE n == Bcu!IpqLen
           NewByte(o) == Byte("code", PhysicalAddr(sregs', "PS", o))
           Filled(m) == \A i \in 0 .. m - 1 :
                          ipq'[OffsetPlus(pc', i) % 8] = NewByte(OffsetPlus(pc', i))
<1>t. TypeOK BY DEF TypeInv
<1>a. /\ reg_pfp \in Offsets /\ pc \in Offsets /\ next_pc \in Offsets
      /\ set_pc \in BOOLEAN /\ fresh \in BOOLEAN
      /\ ipq \in [0 .. 7 -> Bytes]
  BY <1>t DEF TypeOK, BcuTypeOK, CoreTypeOK
<1>b. pc' \in Offsets
  BY <1>a, OffsetPlusType DEF Edge, DecodeEdge
<1>c. fresh' => fresh /\ sregs'["PS"] = sregs["PS"]
  BY <1>t, PsHeld DEF Edge
<1>d. fresh' => \A o : NewByte(o) = CodeByte(o)
  BY <1>c DEF CodeByte, PhysicalAddr
<1>e. Bcu!IpqLen' = (reg_pfp' - pc') % 16
  BY DEF Bcu!IpqLen, PcNow
(* It is enough to know how many bytes there are now. *)
<1>f. ASSUME NEW m \in 0 .. 8,
             reg_pfp' = OffsetPlus(pc', m),
             fresh' => Filled(m),
             Fetching' => /\ m <= 6
                          /\ fresh' => /\ addr' = PhysicalAddr(sregs', "PS", reg_pfp')
                                       /\ ~n_ube'
      PROVE  QueueInv'
  <2>1. Bcu!IpqLen' = m BY <1>b, <1>e, <1>f, LengthFromPointers
  <2>2. fresh' => QueueFilled(Bcu!IpqLen)' BY <1>f, <2>1 DEF QueueFilled, CodeByte
  <2> QED BY <1>f, <2>1, <2>2 DEF QueueInv
<1> HIDE DEF NewByte
<1>1. CASE set_pc
  <2>1. ~Bcu!AcceptFetch BY <1>1 DEF Bcu!AcceptFetch, Bcu!FetchWanted
  <2>2. pc' = next_pc /\ Bcu!CurPfp = next_pc
    BY <1>1 DEF Edge, DecodeEdge, Bcu!CurPfp, PcNow
  <2>3. reg_pfp' = pc' BY <2>1, <2>2, NoAccept DEF Edge
  <2>4. reg_pfp' = OffsetPlus(pc', 0) BY <1>b, <2>3, OffsetPlusZero
  <2>5. Fetching' => Bcu!StartPrefetch BY <1>1, <2>1, NoAccept DEF Edge
  <2>6. Bcu!StartPrefetch => addr' = PhysicalAddr(sregs, "PS", reg_pfp') /\ ~n_ube'
    BY SharedOperators DEF Bcu!StartPrefetch
  <2>7. fresh' => PhysicalAddr(sregs', "PS", reg_pfp') = PhysicalAddr(sregs, "PS", reg_pfp')
    BY <1>c DEF PhysicalAddr
  <2> QED BY <1>f, <2>4, <2>5, <2>6, <2>7
<1>2. CASE ~set_pc
  <2>1. /\ reg_pfp = OffsetPlus(pc, n) /\ n \in 0 .. 8
        /\ fresh => QueueFilled(n)
        /\ Fetching => /\ n <= 6
                       /\ fresh => addr = PhysicalAddr(sregs, "PS", reg_pfp) /\ ~n_ube
    BY <1>2, <1>t, IpqLenType DEF QueueInv
  <2>2. PICK t \in 0 .. 1 : pc' = OffsetPlus(pc, t) /\ t <= n
    <3>1. OffsetPlus(pc, 0) = pc BY <1>a, OffsetPlusZero
    <3> QED BY <1>2, <2>1, <3>1 DEF Edge, DecodeEdge
  (* The bytes that stay keep their slots. *)
  <2>3. ASSUME NEW i \in 0 .. 8, t + i <= 10
        PROVE  OffsetPlus(pc', i) = OffsetPlus(pc, t + i)
    BY <1>a, <2>2, OffsetPlusSum
  <2>4. CASE ~Bcu!AcceptFetch
    <3>1. ipq' = ipq /\ reg_pfp' = reg_pfp
      BY <1>2, <2>4, NoAccept DEF Edge, Bcu!CurPfp
    <3>2. n - t \in 0 .. 8 /\ reg_pfp' = OffsetPlus(pc', n - t)
      BY <2>1, <2>2, <2>3, <3>1
    <3>3. fresh' => Filled(n - t)
      <4> SUFFICES ASSUME fresh', NEW i \in 0 .. (n - t) - 1
                   PROVE  ipq'[OffsetPlus(pc', i) % 8] = NewByte(OffsetPlus(pc', i))
        OBVIOUS
      <4>1. OffsetPlus(pc', i) = OffsetPlus(pc, t + i) /\ t + i \in 0 .. n - 1
        BY <2>1, <2>2, <2>3
      <4>2. ipq[OffsetPlus(pc, t + i) % 8] = CodeByte(OffsetPlus(pc, t + i))
        BY <1>c, <2>1, <4>1 DEF QueueFilled
      <4> QED BY <1>d, <3>1, <4>1, <4>2
    <3>4. Fetching' => /\ n <= 6
                       /\ fresh' => addr' = PhysicalAddr(sregs, "PS", reg_pfp) /\ ~n_ube'
      <4>1. Bcu!StartPrefetch => /\ n <= 6
                                 /\ addr' = PhysicalAddr(sregs, "PS", reg_pfp) /\ ~n_ube'
        BY <1>2, <2>1, SharedOperators DEF Bcu!StartPrefetch, Bcu!WantsPrefetch, Bcu!CurPfp
      <4> QED BY <1>c, <2>1, <2>4, <4>1, NoAccept DEF Edge
    <3>5. fresh' => PhysicalAddr(sregs', "PS", reg_pfp') = PhysicalAddr(sregs, "PS", reg_pfp)
      BY <1>c, <3>1 DEF PhysicalAddr
    <3>6. Fetching' => /\ n - t <= 6
                       /\ fresh' => addr' = PhysicalAddr(sregs', "PS", reg_pfp') /\ ~n_ube'
      BY <2>1, <3>4, <3>5
    <3> HIDE DEF Filled, n
    <3> QED BY <1>f, <3>2, <3>3, <3>6
  <2>5. CASE Bcu!AcceptFetch
    <3>0. /\ Fetching /\ ~Fetching'
          /\ ipq' = Bcu!FetchBytes
          /\ reg_pfp' = OffsetPlus(reg_pfp, Bcu!FetchSize)
      BY <2>5, SharedOperators DEF Bcu!AcceptFetch, Bcu!FetchWanted, Bcu!Complete, Fetching
    <3> DEFINE k == Bcu!FetchSize
    <3>1. k \in 1 .. 2 /\ (k = 1 <=> Odd(reg_pfp)) /\ n \in 0 .. 6
      BY <2>1, <3>0, SharedOperators DEF Bcu!FetchSize
    <3>2. reg_pfp' = OffsetPlus(pc, n + k)
      BY <1>a, <2>1, <3>0, <3>1, OffsetPlusSum
    <3>3. (n + k) - t \in 0 .. 8 /\ reg_pfp' = OffsetPlus(pc', (n + k) - t)
      BY <2>2, <2>3, <3>1, <3>2
    <3>4. fresh' => Filled((n + k) - t)
      <4> SUFFICES ASSUME fresh', NEW i \in 0 .. ((n + k) - t) - 1
                   PROVE  ipq'[OffsetPlus(pc', i) % 8] = NewByte(OffsetPlus(pc', i))
        OBVIOUS
      <4> DEFINE o == OffsetPlus(pc, t + i)
      <4>1. OffsetPlus(pc', i) = o /\ t + i \in 0 .. n + k - 1
        BY <2>2, <2>3, <3>1
      <4>2. /\ fresh /\ QueueFilled(n)
            /\ addr = PhysicalAddr(sregs, "PS", reg_pfp) /\ ~n_ube
        BY <1>c, <2>1, <3>0
      <4>3. OffsetPlus(reg_pfp, 1) = OffsetPlus(pc, n + 1)
        BY <1>a, <2>1, <3>1, OffsetPlusSum
      <4>4. cycle_type = "IPQ_FETCH" BY <3>0 DEF Fetching
      <4>5. o % 8 \in 0 .. 7
        BY <1>a, <3>1, <4>1, SlotType
      <4>6. CASE t + i < n
        <5>1. ipq[o % 8] = CodeByte(o) BY <3>1, <4>1, <4>2, <4>6 DEF QueueFilled
        <5>2. o % 8 # reg_pfp % 8 /\ o % 8 # OffsetPlus(reg_pfp, 1) % 8
          BY <1>a, <2>1, <3>1, <4>1, <4>3, <4>6, SlotsApart
        <5>3. Bcu!FetchBytes[o % 8] = ipq[o % 8]
          BY <1>t, <4>4, <4>5, <5>2, FetchedBytes
        <5> QED BY <1>d, <3>0, <4>1, <5>1, <5>3
      <4>7. CASE t + i = n
        <5>1. o = reg_pfp BY <2>1, <4>7
        <5>2. Bcu!FetchBytes[o % 8] = CodeByte(o)
          BY <1>t, <4>2, <4>4, <5>1, FetchedBytes
        <5> QED BY <1>d, <3>0, <4>1, <5>2
      <4>8. CASE t + i = n + 1
        <5>1. ~Odd(reg_pfp) /\ o = OffsetPlus(reg_pfp, 1)
          BY <3>1, <4>1, <4>3, <4>8
        <5>2. Bcu!FetchBytes[o % 8] = CodeByte(o)
          BY <1>t, <4>2, <4>4, <5>1, FetchedBytes
        <5> QED BY <1>d, <3>0, <4>1, <5>2
      <4> QED BY <3>1, <4>1, <4>6, <4>7, <4>8
    <3> HIDE DEF Filled, n, k
    <3> QED BY <1>f, <3>0, <3>3, <3>4
  <2> QED BY <2>4, <2>5
<1> QED BY <1>1, <1>2, <1>a

LEMMA QueueNext ==
  ASSUME TypeInv, QueueInv, [Next]_vars PROVE QueueInv'
<1>1. CASE Reset BY <1>1 DEF Reset, EuReset, QueueInv
<1>2. ASSUME NEW ready \in BOOLEAN, Edge(ready) PROVE QueueInv'
  BY <1>2, QueueStep
<1>3. CASE UNCHANGED vars
  <2>1. /\ UNCHANGED <<set_pc, next_pc, pc, reg_pfp, fresh, ipq, sregs>>
        /\ UNCHANGED <<cycle_type, t_state, discard_ipq_fetch, addr, n_ube>>
    BY <1>3 DEF vars, euVars, Bcu!bcuVars, Bcu!cycleRegs
  <2>2. /\ Bcu!IpqLen' = Bcu!IpqLen
        /\ Fetching' = Fetching
        /\ \A m : QueueFilled(m)' = QueueFilled(m)
    BY <2>1 DEF Bcu!IpqLen, PcNow, Fetching, QueueFilled, CodeByte
  <2> QED BY <2>1, <2>2 DEF QueueInv
<1> QED BY <1>1, <1>2, <1>3 DEF Next

LEMMA QueueInvCoherent ==
  ASSUME TypeInv, QueueInv PROVE QueueCoherent
<1> SUFFICES ASSUME fresh, ~set_pc
             PROVE  /\ Bcu!IpqLen <= Bcu!QueueSize
                    /\ \A i \in 0 .. Bcu!IpqLen - 1 :
                         ipq[(pc + i) % 8]
                           = Byte("code", PhysicalAddr(sregs, "PS", OffsetPlus(pc, i)))
  BY DEF QueueCoherent
<1>1. Bcu!IpqLen \in 0 .. 8 /\ QueueFilled(Bcu!IpqLen)
  BY IpqLenType DEF TypeInv, QueueInv
<1>2. ASSUME NEW i \in 0 .. Bcu!IpqLen - 1
      PROVE  ipq[(pc + i) % 8] = Byte("code", PhysicalAddr(sregs, "PS", OffsetPlus(pc, i)))
  <2>a. pc \in Offsets /\ i \in 0 .. 16
    BY <1>1 DEF TypeInv, TypeOK, CoreTypeOK
  <2>1. OffsetPlus(pc, i) % 8 = (pc + i) % 8
    BY <2>a, SlotOfOffset
  <2> QED BY <1>1, <2>1 DEF QueueFilled, CodeByte
<1> QED BY <1>1, <1>2 DEF Bcu!QueueSize

(* Wherever the program jumps, whatever it loads into PS and however long   *)
(* memory takes: the decoder never sees a byte that is not the next one of  *)
(* the program, and the queue never overflows.                              *)
THEOREM QueueCorrect == Spec => []QueueCoherent
<1>1. Init => TypeInv /\ QueueInv
  BY TypeInit DEF Init, QueueInv
<1>2. TypeInv /\ QueueInv /\ [Next]_vars => TypeInv' /\ QueueInv'
  BY TypeNext, QueueNext
<1>3. TypeInv /\ QueueInv => QueueCoherent
  BY QueueInvCoherent
<1> QED BY <1>1, <1>2, <1>3, PTL DEF Spec

-----------------------------------------------------------------------------
(* The interrupt acknowledge. *)

LEMMA LockedNext ==
  ASSUME IntAckLocked, [Next]_vars PROVE IntAckLocked'
<1> USE DEF IntAckLocked
<1>1. CASE Reset BY <1>1 DEF Reset, Bcu!BcuReset, Bcu!ResetCycle
<1>2. ASSUME NEW ready \in BOOLEAN, Edge(ready) PROVE IntAckLocked'
  <2>1. CASE Bcu!Rest(ready) \/ Bcu!Strobe \/ Bcu!EnterT2
    BY <2>1 DEF Bcu!Rest, Bcu!Strobe, Bcu!EnterT2, Bcu!cycleRegs
  <2>2. CASE Bcu!Completion
    BY <2>2 DEF Bcu!Completion, Bcu!AcceptFetch, Bcu!DropFetch, Bcu!CompleteRead,
       Bcu!CompleteWrite, Bcu!CompleteIntAck, Bcu!Complete
  <2>3. CASE Bcu!Arbitration
    <3> USE DEF Bcu!Begin, Bcu!cycleRegs
    <3>1. CASE Bcu!IntAckIdle \/ Bcu!StartIntAck2 \/ Bcu!IntAck2Idle \/ Bcu!FinishIntAck
      BY <3>1 DEF Bcu!IntAckIdle, Bcu!StartIntAck2, Bcu!IntAck2Idle, Bcu!FinishIntAck
    <3>2. CASE Bcu!SecondAccess \/ Bcu!StayIdle
      BY <3>2 DEF Bcu!SecondAccess, Bcu!StayIdle, Bcu!InIntAck, Bcu!IntAcks
    <3>3. CASE Bcu!StartIntAck1 \/ Bcu!StartDp \/ Bcu!StartPrefetch
      BY <3>3 DEF Bcu!StartIntAck1, Bcu!StartDp, Bcu!StartPrefetch, Bcu!DpCycle
    <3> QED BY <2>3, <3>1, <3>2, <3>3 DEF Bcu!Arbitration
  <2> QED BY <1>2, <2>1, <2>2, <2>3 DEF Edge, Bcu!BcuEdge
<1>3. CASE UNCHANGED vars
  BY <1>3 DEF vars, Bcu!bcuVars, Bcu!cycleRegs
<1> QED BY <1>1, <1>2, <1>3 DEF Next

(* No bus master can come in between the two acknowledge cycles, also when  *)
(* the interrupted program was not using the lock.                          *)
THEOREM IntAckLockHeld == Spec => []IntAckLocked
<1>1. Init => IntAckLocked BY DEF Init, IntAckLocked
<1> QED BY <1>1, LockedNext, PTL DEF Spec

(* Where an interrupt is between being taken and its vector: the cycles run *)
(* only while the execution unit waits, intack outlives the wait by half a  *)
(* cycle, and intvec belongs to this interrupt from the end of the second   *)
(* cycle on.                                                                *)
VectorInv ==
  /\ cycle_type \in IntAcks => Waiting /\ ~intack
  /\ intack /\ ~Waiting => phase = 2
  /\ cycle_type = "INT_ACK2" /\ t_state = "T_IDLE" => intvec = Byte("vector2", irq)
  /\ VectorFresh

(* The execution unit leaves INT_ACK_WAIT only for intack, on ce_1.         *)
LEMMA WaitHeld ==
  ASSUME TypeOK, NEW ready \in BOOLEAN, EuEdge(ready)
  PROVE  /\ Waiting /\ (phase = 2 \/ ~intack) => Waiting' /\ irq' = irq
         /\ Waiting' => irq' = irq \/ (phase = 1 /\ ~Waiting)
         /\ ~Waiting /\ Waiting' => phase = 1
         /\ ~Waiting \/ Waiting' \/ (phase = 1 /\ intack)
         /\ phase = 2 => Waiting' = Waiting /\ irq' = irq
         /\ Waiting /\ intack /\ Waiting' => phase = 2
BY DEF EuEdge, Quiet, Access, Accept, Jump, Load, TakeInterrupt, SeeIntack, SameStage,
   Waiting, TypeOK, CoreTypeOK, BoardTypeOK

LEMMA VectorStep ==
  ASSUME TypeInv, VectorInv, NEW ready \in BOOLEAN, Edge(ready)
  PROVE  VectorInv'
<1> USE DEF VectorInv, VectorFresh
<1>t. TypeOK BY DEF TypeInv
<1>p. phase \in {1, 2} /\ phase' = 3 - phase /\ intack \in BOOLEAN
  BY <1>t DEF TypeOK, BoardTypeOK, BcuTypeOK, Edge
<1>w. EuEdge(ready) BY DEF Edge
<1>1. CASE Bcu!Rest(ready) \/ Bcu!Strobe \/ Bcu!EnterT2 \/ Bcu!StayIdle
  <2>1. /\ intack' = (intack /\ Waiting) /\ intvec' = intvec /\ cycle_type' = cycle_type
        /\ t_state' = "T_IDLE" => t_state = "T_IDLE"
    BY <1>1 DEF Bcu!Rest, Bcu!Strobe, Bcu!EnterT2, Bcu!StayIdle, Bcu!Arbitrate,
       Bcu!Prologue, Bcu!DropIntack, Bcu!cycleRegs, Bcu!ackRegs
  <2>2. CASE cycle_type \in IntAcks
    <3>1. Waiting /\ ~intack BY <2>2
    <3>2. Waiting' /\ irq' = irq /\ ~intack' BY <1>t, <1>w, <2>1, <3>1, WaitHeld
    <3> QED BY <2>1, <3>2 DEF Byte
  <2>3. CASE cycle_type \notin IntAcks /\ phase = 1
    BY <1>t, <1>p, <1>w, <2>1, <2>3, WaitHeld DEF IntAcks
  <2>4. CASE cycle_type \notin IntAcks /\ phase = 2
    <3>1. Waiting' = Waiting /\ irq' = irq BY <1>t, <1>w, <2>4, WaitHeld
    <3> QED BY <2>1, <2>4, <3>1 DEF IntAcks, Byte
  <2> QED BY <1>p, <2>2, <2>3, <2>4
<1>2. CASE Bcu!Completion
  <2>1. /\ phase = 1 /\ intack' = (intack /\ Waiting) /\ cycle_type' = cycle_type
        /\ \/ intvec' = intvec /\ cycle_type \notin IntAcks
           \/ intvec' = DataPins[1] /\ cycle_type \in IntAcks
    BY <1>2, SharedOperators DEF Bcu!Completion, Bcu!AcceptFetch, Bcu!DropFetch,
       Bcu!CompleteRead, Bcu!CompleteWrite, Bcu!CompleteIntAck, Bcu!Complete,
       Bcu!Prologue, Bcu!DropIntack, IntAcks, DpReads, DpWrites
  <2>2. cycle_type = "INT_ACK2" => DataPins[1] = Byte("vector2", irq)
    BY DEF DataPins
  <2>3. CASE cycle_type \in IntAcks
    <3>1. Waiting /\ ~intack BY <2>3
    <3>2. Waiting' /\ irq' = irq /\ ~intack' BY <1>t, <1>w, <2>1, <3>1, WaitHeld
    <3> QED BY <1>p, <2>1, <2>2, <2>3, <3>2 DEF IntAcks, Byte
  <2>4. CASE cycle_type \notin IntAcks
    BY <1>t, <1>p, <1>w, <2>1, <2>4, WaitHeld DEF IntAcks
  <2> QED BY <2>3, <2>4
<1>3. CASE Bcu!Arbitration /\ ~Bcu!StayIdle
  <2>1. phase = 2 /\ t_state = "T_IDLE" /\ intvec' = intvec /\ phase' = 1
    BY <1>3, <1>p DEF Bcu!Arbitration, Bcu!Arbitrate, Bcu!IntAckIdle, Bcu!StartIntAck2,
       Bcu!IntAck2Idle, Bcu!FinishIntAck, Bcu!SecondAccess, Bcu!StartIntAck1, Bcu!StartDp,
       Bcu!StartPrefetch, Bcu!StayIdle
  <2>2. Waiting' = Waiting /\ irq' = irq BY <1>t, <1>w, <2>1, WaitHeld
  <2>3. CASE Bcu!FinishIntAck
    <3>1. cycle_type = "INT_ACK2" /\ cycle_type' = "IPQ_FETCH" BY <2>3 DEF Bcu!FinishIntAck
    <3> QED BY <2>1, <2>2, <3>1 DEF IntAcks, Byte
  <2>4. CASE Bcu!StartIntAck1
    <3>1. /\ cycle_type' = "INT_ACK1" /\ Waiting /\ ~intack /\ t_state' = "T_1"
          /\ intack' = (intack /\ Waiting)
      BY <2>4 DEF Bcu!StartIntAck1, Bcu!WantsInt, Bcu!Begin, Bcu!Prologue, Bcu!DropIntack
    <3> QED BY <2>2, <3>1
  <2>5. CASE Bcu!IntAckIdle \/ Bcu!StartIntAck2 \/ Bcu!IntAck2Idle
    <3>1. /\ cycle_type \in IntAcks /\ intack' = (intack /\ Waiting)
          /\ cycle_type' = cycle_type \/ t_state' = "T_1"
      BY <2>5 DEF Bcu!IntAckIdle, Bcu!StartIntAck2, Bcu!IntAck2Idle, Bcu!cycleRegs,
         Bcu!Begin, Bcu!Prologue, Bcu!DropIntack, IntAcks
    <3> QED BY <2>1, <2>2, <3>1
  <2>6. CASE Bcu!SecondAccess \/ Bcu!StartDp \/ Bcu!StartPrefetch
    <3>1. cycle_type' \notin IntAcks /\ intack' = (intack /\ Waiting)
      BY <2>6, SharedOperators DEF Bcu!SecondAccess, Bcu!StartDp, Bcu!StartPrefetch, Bcu!InIntAck,
         Bcu!Begin, Bcu!Prologue, Bcu!DropIntack, Bcu!DpCycle, IntAcks
    <3> QED BY <2>1, <2>2, <3>1 DEF IntAcks
  <2> QED BY <1>3, <2>3, <2>4, <2>5, <2>6 DEF Bcu!Arbitration
<1> QED BY <1>1, <1>2, <1>3 DEF Edge, Bcu!BcuEdge, Bcu!Arbitration

LEMMA VectorNext ==
  ASSUME TypeInv, VectorInv, [Next]_vars PROVE VectorInv'
<1>1. CASE Reset
  BY <1>1 DEF Reset, Bcu!BcuReset, Bcu!ResetCycle, EuReset, VectorInv, VectorFresh, IntAcks
<1>2. ASSUME NEW ready \in BOOLEAN, Edge(ready) PROVE VectorInv'
  BY <1>2, VectorStep
<1>3. CASE UNCHANGED vars
  BY <1>3 DEF vars, euVars, Bcu!bcuVars, Bcu!cycleRegs, Bcu!ackRegs, VectorInv,
     VectorFresh, Waiting
<1> QED BY <1>1, <1>2, <1>3 DEF Next

(* However the acknowledge is delayed by other cycles, wait states or the   *)
(* interrupts before it, the vector taken is the one this interrupt read.   *)
THEOREM VectorCorrect == Spec => []VectorFresh
<1>1. Init => TypeInv /\ VectorInv
  BY TypeInit DEF Init, VectorInv, VectorFresh, IntAcks
<1>2. TypeInv /\ VectorInv /\ [Next]_vars => TypeInv' /\ VectorInv'
  BY TypeNext, VectorNext
<1>3. VectorInv => VectorFresh
  BY DEF VectorInv
<1> QED BY <1>1, <1>2, <1>3, PTL DEF Spec

-----------------------------------------------------------------------------
(* The data strobe. *)

(* A cycle starts with the strobe off. *)
StrobeInv == phase \in {1, 2} /\ (t_state = "T_1" /\ phase = 1 => n_dstb)

StrobeHeld == ~n_dstb /\ ~n_dstb' => UNCHANGED <<addr, n_ube, cycle_type, dout>>

LEMMA StrobeStep ==
  ASSUME StrobeInv, Next PROVE StrobeInv' /\ StrobeHeld
<1> USE DEF StrobeInv, StrobeHeld
<1>1. CASE Reset BY <1>1 DEF Reset, Bcu!BcuReset, Bcu!ResetCycle
<1>2. ASSUME NEW ready \in BOOLEAN, Edge(ready) PROVE StrobeInv' /\ StrobeHeld
  <2>p. phase' = 3 - phase BY <1>2 DEF Edge
  <2>1. CASE Bcu!Rest(ready) \/ Bcu!EnterT2
    BY <2>p, <2>1 DEF Bcu!Rest, Bcu!EnterT2, Bcu!cycleRegs, Bcu!strobeRegs
  <2>2. CASE Bcu!Strobe BY <2>p, <2>2 DEF Bcu!Strobe, Bcu!cycleRegs
  <2>3. CASE Bcu!Completion
    BY <2>p, <2>3 DEF Bcu!Completion, Bcu!AcceptFetch, Bcu!DropFetch, Bcu!CompleteRead,
       Bcu!CompleteWrite, Bcu!CompleteIntAck, Bcu!Complete
  <2>4. CASE Bcu!Arbitration
    <3>1. n_dstb' = TRUE
      BY <2>4 DEF Bcu!Arbitration, Bcu!Arbitrate, Bcu!IntAckIdle, Bcu!StartIntAck2,
         Bcu!IntAck2Idle, Bcu!FinishIntAck, Bcu!SecondAccess, Bcu!StartIntAck1,
         Bcu!StartDp, Bcu!StartPrefetch, Bcu!StayIdle
    <3> QED BY <2>p, <3>1
  <2> QED BY <1>2, <2>1, <2>2, <2>3, <2>4 DEF Edge, Bcu!BcuEdge
<1> QED BY <1>1, <1>2 DEF Next

(* While the strobe is on nothing the board looks at moves: no step that    *)
(* keeps it asserted changes the address, the lanes or the write data.      *)
THEOREM StrobeHeldStable == Spec => StrobeStable
<1>1. Init => StrobeInv BY DEF Init, StrobeInv
<1>2. StrobeInv /\ [Next]_vars => StrobeInv'
  BY StrobeStep DEF vars, Bcu!bcuVars, Bcu!cycleRegs, Bcu!strobeRegs, StrobeInv
<1>3. StrobeInv /\ [Next]_vars => [StrobeHeld]_vars BY StrobeStep
<1> QED BY <1>1, <1>2, <1>3, PTL DEF Spec, StrobeStable, StrobeHeld

-----------------------------------------------------------------------------
(* The queue: the bus control unit implements what PrefetchQueue promises   *)
(* the decoder, with interrupts, accesses and resets.                       *)

(* The instance has its own names for the operators of V33Types. *)
LEMMA QueueOperators ==
  /\ \A s, r, o : Queue!PhysicalAddr(s, r, o) = PhysicalAddr(s, r, o)
  /\ \A o, n : Queue!OffsetPlus(o, n) = OffsetPlus(o, n)
  /\ \A o, n : Queue!Byte(o, n) = Byte(o, n)
  /\ Queue!Offsets = Offsets
BY DEF Queue!PhysicalAddr, PhysicalAddr, Queue!OffsetPlus, OffsetPlus, Queue!Byte, Byte,
   Queue!Offsets, Offsets

(* The n bytes of the program from PS:p on, and k more. *)
Program(p, n) == [i \in 1 .. n |-> CodeByte(OffsetPlus(p, i - 1))]
Following(p, n, k) == [i \in 1 .. k |-> CodeByte(OffsetPlus(p, n + i - 1))]

(* What the instance calls its variables. *)
AbstractPs == IF fresh THEN sregs["PS"] ELSE 0
AbstractPc == IF fresh THEN PcNow ELSE 0
AbstractQ  == IF Visible THEN [i \in 1 .. Bcu!IpqLen |-> ipq[(pc + i - 1) % 8]] ELSE <<>>

(* The queue the decoder sees holds the next bytes of the program. *)
LEMMA VisibleProgram ==
  TypeInv /\ QueueInv /\ Visible
    => Bcu!IpqLen \in 0 .. 8 /\ AbstractQ = Program(pc, Bcu!IpqLen)
<1> SUFFICES ASSUME TypeInv, QueueInv, fresh, ~set_pc
             PROVE  Bcu!IpqLen \in 0 .. 8 /\ AbstractQ = Program(pc, Bcu!IpqLen)
  BY DEF Visible
<1>1. Bcu!IpqLen \in 0 .. 8 /\ QueueFilled(Bcu!IpqLen)
  BY IpqLenType DEF TypeInv, QueueInv
<1>2. ASSUME NEW i \in 1 .. Bcu!IpqLen
      PROVE  ipq[(pc + i - 1) % 8] = CodeByte(OffsetPlus(pc, i - 1))
  <2>1. pc \in Offsets /\ pc \in Int /\ i - 1 \in 0 .. 16 /\ i - 1 \in 0 .. Bcu!IpqLen - 1
    BY <1>1 DEF TypeInv, TypeOK, CoreTypeOK, Offsets
  <2>2. OffsetPlus(pc, i - 1) % 8 = (pc + (i - 1)) % 8
    BY <2>1, SlotOfOffset
  <2>3. pc + i - 1 = pc + (i - 1)
    BY <2>1
  <2> QED BY <1>1, <2>1, <2>2, <2>3 DEF QueueFilled
<1> QED BY <1>1, <1>2 DEF AbstractQ, Visible, Program

(* How the length changes while no jump comes: by the bytes that arrive and *)
(* the one that is taken.                                                   *)
LEMMA LengthStep ==
  ASSUME TypeInv, QueueInv, NEW ready \in BOOLEAN, Edge(ready), ~set_pc, ~set_pc'
  PROVE  \E fill \in 0 .. 2, take \in 0 .. 1 :
           /\ take <= Bcu!IpqLen /\ Bcu!IpqLen + fill <= 8
           /\ pc' = OffsetPlus(pc, take)
           /\ Bcu!IpqLen' = (Bcu!IpqLen + fill) - take
<1> DEFINE n == Bcu!IpqLen
<1>a. reg_pfp \in Offsets /\ pc \in Offsets
  BY DEF TypeInv, TypeOK, BcuTypeOK, CoreTypeOK
<1>1. reg_pfp = OffsetPlus(pc, n) /\ n \in 0 .. 8 /\ (Fetching => n <= 6)
  BY IpqLenType DEF QueueInv, TypeInv
<1>2. PICK t \in 0 .. 1 : pc' = OffsetPlus(pc, t) /\ t <= n
  <2>1. OffsetPlus(pc, 0) = pc BY <1>a, OffsetPlusZero
  <2> QED BY <1>1, <2>1 DEF Edge, DecodeEdge
<1>3. PICK k \in 0 .. 2 : n + k <= 8 /\ reg_pfp' = OffsetPlus(reg_pfp, k)
  <2>1. CASE ~Bcu!AcceptFetch
    <3>1. reg_pfp' = reg_pfp /\ OffsetPlus(reg_pfp, 0) = reg_pfp
      BY <1>a, <2>1, NoAccept, OffsetPlusZero DEF Edge, Bcu!CurPfp
    <3> QED BY <1>1, <3>1
  <2>2. CASE Bcu!AcceptFetch
    <3>1. Fetching /\ reg_pfp' = OffsetPlus(reg_pfp, Bcu!FetchSize)
      BY <2>2, SharedOperators DEF Bcu!AcceptFetch, Bcu!FetchWanted, Bcu!Complete, Fetching
    <3>2. Bcu!FetchSize \in 1 .. 2
      BY DEF Bcu!FetchSize
    <3> QED BY <1>1, <3>1, <3>2
  <2> QED BY <2>1, <2>2
<1>4. reg_pfp' = OffsetPlus(pc, n + k)
  BY <1>a, <1>1, <1>3, OffsetPlusSum
<1>5. OffsetPlus(pc', (n + k) - t) = OffsetPlus(pc, n + k) /\ (n + k) - t \in 0 .. 8
  <2>1. (n + k) - t \in 0 .. 8 /\ t + ((n + k) - t) = n + k
    BY <1>1, <1>2, <1>3
  <2> HIDE DEF n
  <2> QED BY <1>a, <1>2, <2>1, OffsetPlusSum
<1>6. pc' \in Offsets
  BY <1>a, <1>2, OffsetPlusType
<1>7. Bcu!IpqLen' = (reg_pfp' - pc') % 16
  BY DEF Bcu!IpqLen, PcNow
<1>8. Bcu!IpqLen' = (n + k) - t
  BY <1>4, <1>5, <1>6, <1>7, LengthFromPointers
<1> QED BY <1>2, <1>3, <1>8

(* Bytes of the program put behind the queue, and one taken, leave a queue  *)
(* of the program again.                                                    *)
LEMMA ProgramShifted ==
  ASSUME NEW p \in Offsets, NEW n \in 0 .. 8, NEW fill \in 0 .. 2, NEW take \in 0 .. 1,
         take <= n, n + fill <= 8
  PROVE  SubSeq(Program(p, n) \o Following(p, n, fill), take + 1, n + fill)
           = Program(OffsetPlus(p, take), (n + fill) - take)
<1> DEFINE b(j) == CodeByte(OffsetPlus(p, j - 1))
           whole == [j \in 1 .. n + fill |-> b(j)]
<1>1. Program(p, n) \o Following(p, n, fill) = whole
  <2>1. Program(p, n) = [j \in 1 .. n |-> b(j)]
    BY DEF Program
  <2>2. Following(p, n, fill) = [i \in 1 .. fill |-> b(n + i)]
    <3>1. \A i \in 1 .. fill : n + i - 1 = (n + i) - 1
      OBVIOUS
    <3> QED BY <3>1 DEF Following
  <2> HIDE DEF b
  <2>3. Len([j \in 1 .. n |-> b(j)]) = n /\ Len([i \in 1 .. fill |-> b(n + i)]) = fill
    OBVIOUS
  <2>4. [j \in 1 .. n |-> b(j)] \o [i \in 1 .. fill |-> b(n + i)] = whole
    OBVIOUS
  <2> QED BY <2>1, <2>2, <2>4
<1>2. SubSeq(whole, take + 1, n + fill) = [j \in 1 .. (n + fill) - take |-> b(take + j)]
  <2> HIDE DEF b
  <2> QED OBVIOUS
<1>3. \A j \in 1 .. (n + fill) - take :
        b(take + j) = CodeByte(OffsetPlus(OffsetPlus(p, take), j - 1))
  <2> SUFFICES ASSUME NEW j \in 1 .. (n + fill) - take
               PROVE  b(take + j) = CodeByte(OffsetPlus(OffsetPlus(p, take), j - 1))
    OBVIOUS
  <2>1. j - 1 \in 0 .. 8 /\ take \in 0 .. 8 /\ take + (j - 1) = (take + j) - 1
    OBVIOUS
  <2>2. OffsetPlus(OffsetPlus(p, take), j - 1) = OffsetPlus(p, take + (j - 1))
    BY <2>1, OffsetPlusSum
  <2> QED BY <2>1, <2>2
<1> HIDE DEF b
<1> QED BY <1>1, <1>2, <1>3 DEF Program

-----------------------------------------------------------------------------
LEMMA MappedOut ==
  /\ Queue!Jump <=> /\ fresh' = TRUE /\ AbstractPs' \in Nat
                    /\ AbstractPc' \in Offsets /\ AbstractQ' = <<>>
  /\ Queue!Invalidate <=> /\ fresh' = FALSE /\ AbstractPs' \in Nat
                          /\ AbstractPc' \in Offsets /\ AbstractQ' = <<>>
  /\ \A fill, take :
       Queue!Advance(fill, take) <=>
         /\ fresh /\ take <= Len(AbstractQ) /\ Len(AbstractQ) + fill <= 8
         /\ AbstractQ' = SubSeq(AbstractQ \o Queue!NextBytes(fill), take + 1, Len(AbstractQ) + fill)
         /\ AbstractPc' = OffsetPlus(AbstractPc, take)
         /\ fresh' = fresh /\ AbstractPs' = AbstractPs
  /\ UNCHANGED Queue!queueVars <=> UNCHANGED <<fresh, AbstractPs, AbstractPc, AbstractQ>>
BY QueueOperators DEF Queue!Jump, Queue!Invalidate, Queue!Advance, Queue!queueVars,
   Queue!Capacity, AbstractPs, AbstractPc, AbstractQ

LEMMA StartsEmpty == ASSUME Init PROVE Queue!Init
<1>1. fresh /\ set_pc /\ PcNow = 0 /\ 0 \in Offsets
  BY WidthFacts DEF Init, PcNow, Offsets
<1>2. sregs["PS"] \in Nat
  BY TypeInit DEF TypeInv, TypeOK, CoreTypeOK, SregIndex
<1> QED BY <1>1, <1>2, QueueOperators DEF Queue!Init, Visible

(* Each edge is a step of the queue, or none. *)
LEMMA QueueStepMaps ==
  ASSUME TypeInv, TypeInv', QueueInv, QueueInv', [Next]_vars
  PROVE  [Queue!Next]_(Queue!queueVars)
<1>a. /\ sregs["PS"] \in Nat /\ sregs'["PS"] \in Nat /\ 0 \in Offsets
      /\ PcNow \in Offsets /\ PcNow' \in Offsets /\ pc \in Offsets
      /\ fresh \in BOOLEAN /\ fresh' \in BOOLEAN /\ set_pc \in BOOLEAN
  BY WidthFacts DEF TypeInv, TypeOK, CoreTypeOK, SregIndex, PcNow, Offsets
<1>1. CASE ~fresh'
  <2>1. AbstractPs' = 0 /\ AbstractPc' = 0 /\ AbstractQ' = <<>>
    BY <1>1 DEF AbstractPs, AbstractPc, AbstractQ, Visible
  <2>2. Queue!Invalidate
    BY <1>1, <1>a, <2>1, MappedOut
  <2> QED BY <2>2 DEF Queue!Next
<1>2. CASE fresh' /\ set_pc'
  <2>1. AbstractPs' = sregs'["PS"] /\ AbstractPc' = PcNow' /\ AbstractQ' = <<>>
    BY <1>2 DEF AbstractPs, AbstractPc, AbstractQ, Visible
  <2>2. Queue!Jump
    BY <1>2, <1>a, <2>1, MappedOut
  <2> QED BY <2>2 DEF Queue!Next
<1>3. CASE fresh' /\ ~set_pc'
  <2>1. ~Reset
    BY <1>3 DEF Reset, EuReset
  <2>2. ASSUME UNCHANGED vars PROVE UNCHANGED Queue!queueVars
    <3>1. UNCHANGED <<fresh, set_pc, next_pc, pc, sregs, reg_pfp, ipq>>
      BY <2>2 DEF vars, euVars, Bcu!bcuVars
    <3> QED BY <3>1 DEF Queue!queueVars, PcNow, Visible, Bcu!IpqLen
  <2>3. ASSUME NEW ready \in BOOLEAN, Edge(ready)
        PROVE  [Queue!Next]_(Queue!queueVars)
    <3>1. fresh /\ sregs'["PS"] = sregs["PS"]
      BY <1>3, <2>3, PsHeld DEF Edge, TypeInv
    <3>2. AbstractPs' = AbstractPs /\ AbstractPs = sregs["PS"] /\ AbstractPc' = pc'
      BY <1>3, <3>1 DEF AbstractPs, AbstractPc, PcNow
    <3>3. AbstractQ' = Program(pc, Bcu!IpqLen)' /\ Bcu!IpqLen' \in 0 .. 8
      <4>1. Visible'
        BY <1>3 DEF Visible
      <4>2. (TypeInv /\ QueueInv /\ Visible)'
              => (Bcu!IpqLen \in 0 .. 8 /\ AbstractQ = Program(pc, Bcu!IpqLen))'
        BY VisibleProgram, PTL
      <4> QED BY <4>1, <4>2
    <3>4. CASE set_pc
      <4>1. pc' = next_pc /\ AbstractPc = next_pc /\ AbstractQ = <<>>
        BY <2>3, <3>1, <3>4 DEF Edge, DecodeEdge, AbstractPc, AbstractQ, PcNow, Visible
      <4>2. reg_pfp' = next_pc
        <5>1. ~Bcu!AcceptFetch BY <3>4 DEF Bcu!AcceptFetch, Bcu!FetchWanted
        <5> QED BY <2>3, <3>4, <5>1, NoAccept DEF Edge, Bcu!CurPfp, PcNow
      <4>3. Bcu!IpqLen' = 0
        <5>1. Bcu!IpqLen' = (reg_pfp' - pc') % 16
          BY <1>3 DEF Bcu!IpqLen, PcNow
        <5>2. next_pc - next_pc = 0
          BY <1>a, <3>4 DEF PcNow, Offsets
        <5> QED BY <4>1, <4>2, <5>1, <5>2
      <4>4. AbstractQ' = <<>>
        BY <1>3, <4>3 DEF AbstractQ, Visible
      <4> QED BY <1>3, <3>1, <3>2, <4>1, <4>4, MappedOut
    <3>5. CASE ~set_pc
      <4>1. AbstractQ = Program(pc, Bcu!IpqLen) /\ Bcu!IpqLen \in 0 .. 8 /\ AbstractPc = pc
        BY <3>1, <3>5, VisibleProgram DEF Visible, AbstractPc, PcNow
      <4>2. PICK fill \in 0 .. 2, take \in 0 .. 1 :
              /\ take <= Bcu!IpqLen /\ Bcu!IpqLen + fill <= 8
              /\ pc' = OffsetPlus(pc, take)
              /\ Bcu!IpqLen' = (Bcu!IpqLen + fill) - take
        BY <1>3, <2>3, <3>5, LengthStep
      <4>3. Len(AbstractQ) = Bcu!IpqLen
        BY <4>1 DEF Program
      <4>4. Queue!NextBytes(fill) = Following(pc, Bcu!IpqLen, fill)
        <5>1. \A o : PhysicalAddr([PS |-> AbstractPs], "PS", o) = PhysicalAddr(sregs, "PS", o)
          BY <3>2 DEF PhysicalAddr
        <5> QED BY <4>1, <4>3, <5>1, QueueOperators
                DEF Queue!NextBytes, Following, CodeByte, AbstractPs, AbstractPc, AbstractQ
      <4>5. SubSeq(AbstractQ \o Queue!NextBytes(fill), take + 1, Len(AbstractQ) + fill)
              = Program(pc', Bcu!IpqLen')
        <5>1. \A n \in 0 .. 8 : take <= n /\ n + fill <= 8 =>
                SubSeq(Program(pc, n) \o Following(pc, n, fill), take + 1, n + fill)
                  = Program(OffsetPlus(pc, take), (n + fill) - take)
          BY <1>a, ProgramShifted
        <5> QED BY <4>1, <4>2, <4>3, <4>4, <5>1
      <4>6. Program(pc, Bcu!IpqLen)' = Program(pc', Bcu!IpqLen')
        <5>1. \A o : CodeByte(o)' = CodeByte(o)
          BY <3>1 DEF CodeByte, PhysicalAddr
        <5> QED BY <5>1 DEF Program
      <4>7. Queue!Advance(fill, take)
        BY <1>3, <3>1, <3>2, <3>3, <4>1, <4>2, <4>3, <4>5, <4>6, MappedOut
      <4> QED BY <4>7 DEF Queue!Next
    <3> QED BY <3>4, <3>5, <1>a
  <2> QED BY <2>1, <2>2, <2>3 DEF Next
<1> QED BY <1>1, <1>2, <1>3, <1>a

(* Seen through the refinement mapping the bus control unit, its decoder    *)
(* and its execution unit are a queue of the program's bytes that only      *)
(* jumps empty (bus_control_unit.sv:113, 153 to 157 and 246 to 260),        *)
(* whatever the bus does meanwhile.                                         *)
THEOREM QueueImplemented == Spec => QueueSpec
<1>1. Init => TypeInv /\ QueueInv /\ Queue!Init
  BY TypeInit, StartsEmpty DEF Init, QueueInv
<1>2. TypeInv /\ QueueInv /\ [Next]_vars => TypeInv' /\ QueueInv'
  BY TypeNext, QueueNext
<1>3. TypeInv /\ TypeInv' /\ QueueInv /\ QueueInv' /\ [Next]_vars
        => [Queue!Next]_(Queue!queueVars)
  BY QueueStepMaps
<1> QED BY <1>1, <1>2, <1>3, PTL DEF Spec, QueueSpec, Queue!Spec
-----------------------------------------------------------------------------
(* The lanes and cycles of a data access: which bytes the cycle on the bus  *)
(* moves, and what a read brings.                                           *)

(* The lanes of the cycle on the bus, in the second cycle of an unaligned   *)
(* word and in any other.                                                   *)
Lanes ==
  dp_busy =>
    IF InSecondHalf THEN ~Odd(addr) /\ n_ube /\ addr > 0
    ELSE /\ Odd(addr) <=> Odd(dp.addr)
         /\ n_ube <=> ~dp.wide /\ ~Odd(dp.addr)
         /\ addr < Phys

(* What the first of two reads brought is still the byte at its location.   *)
Buffered ==
  dp_busy /\ ~dp.write /\ SecondLeft => dp_din_buf[2] = store[<<Space, BusFirst>>]

(* The strobe of a cycle comes on its second edge, and a write's goes off   *)
(* with the cycle.  While it is on, the data pins carry the word in the     *)
(* order of the lanes.                                                      *)
Strobed ==
  /\ phase \in {1, 2}
  /\ t_state = "T_1" /\ phase = 1 => n_dstb
  /\ t_state = "T_2" \/ (t_state = "T_1" /\ phase = 2) => ~n_dstb
  /\ t_state = "T_IDLE" /\ cycle_type \in DpWrites => n_dstb
  /\ dp_busy /\ t_state # "T_IDLE" /\ ~n_dstb =>
       dout = IF Odd(dp.addr) THEN Swap(dp.dout) ELSE dp.dout

PortInv == Lanes /\ Buffered /\ Strobed

-----------------------------------------------------------------------------
(* The cycle of an access says where it goes and whether it writes. *)
LEMMA CycleOfAccess ==
  ASSUME TypeInv, dp_busy
  PROVE  /\ cycle_type = Bcu!DpCycle /\ ~Bcu!RequestPending
         /\ Space = IF dp.io THEN "io" ELSE "mem"
         /\ cycle_type \in DpWrites <=> dp.write
         /\ cycle_type \in DpReads <=> ~dp.write
         /\ cycle_type \notin IntAcks /\ cycle_type # "IPQ_FETCH"
BY DEF TypeInv, DpShape, Bcu!DpCycle, Space, DpWrites, DpReads, IntAcks

(* The pins in a read. *)
LEMMA ReadPins ==
  ASSUME TypeInv, dp_busy, ~dp.write
  PROVE  DataPins = << IF Odd(addr) THEN Open ELSE store[<<Space, addr>>],
                       IF n_ube THEN Open
                       ELSE store[<<Space, IF Odd(addr) THEN addr ELSE addr + 1>>] >>
<1>1. CASE dp.io
  <2>1. cycle_type = "IO_READ" /\ Space = "io"
    BY <1>1, CycleOfAccess DEF Bcu!DpCycle
  <2> QED BY <2>1 DEF DataPins, ByteAt
<1>2. CASE ~dp.io
  <2>1. cycle_type = "MEM_READ" /\ Space = "mem"
    BY <1>2, CycleOfAccess DEF Bcu!DpCycle
  <2> QED BY <2>1 DEF DataPins, ByteAt
<1> QED BY <1>1, <1>2

(* Memory changes at the end of a write only. *)
LEMMA StoreHeld ==
  ASSUME TypeInv, NEW ready \in BOOLEAN, StoreEdge(ready),
         ~(phase = 1 /\ t_state = "T_2" /\ ready /\ dp_busy /\ dp.write)
  PROVE  store' = store
BY CycleOfAccess DEF StoreEdge, WriteStrobed, TypeInv, DpShape, DpCycles

-----------------------------------------------------------------------------
(* The edges after which an access has the bus: it goes on, its first half  *)
(* ends, its second half begins, or it starts.                              *)
GoesOn(ready) ==
  /\ dp_busy
  /\ UNCHANGED <<cycle_type, addr, n_ube, dp_final_cycle, dp_din_buf>>
  /\ t_state' = "T_IDLE" <=> t_state = "T_IDLE"
  /\ ~(phase = 1 /\ t_state = "T_2" /\ ready)
HalfEnds ==
  /\ dp_busy /\ phase = 1 /\ t_state = "T_2" /\ t_state' = "T_IDLE"
  /\ ~dp_final_cycle /\ dp_final_cycle' = TRUE
  /\ UNCHANGED <<cycle_type, addr, n_ube>>
  /\ ~dp.write => dp_din_buf' = DataPins
HalfBegins ==
  /\ dp_busy /\ phase = 2 /\ t_state = "T_IDLE" /\ t_state' = "T_1"
  /\ cycle_type' = cycle_type /\ addr' = addr + 1 /\ n_ube' = TRUE
  /\ dp_final_cycle' = TRUE /\ dp_din_buf' = dp_din_buf
Starts ==
  /\ ~dp_busy /\ Bcu!RequestPending /\ phase = 2 /\ t_state' = "T_1"
  /\ cycle_type' = Bcu!DpCycle /\ addr' = Bcu!DpFirst
  /\ n_ube' = (~dp.wide /\ ~Odd(dp.addr))
  /\ dp_final_cycle' = (~dp.wide \/ ~Odd(dp.addr))
Held == dp' = dp /\ dp_req' = FALSE

LEMMA BusyEdge ==
  ASSUME TypeInv, NEW ready \in BOOLEAN, Bcu!BcuEdge(ready), EuEdge(ready), dp_busy'
  PROVE  /\ GoesOn(ready) \/ (ready /\ HalfEnds) \/ HalfBegins \/ Starts
         /\ Held /\ dp_req2' = FALSE
<1> USE DEF TypeInv, TypeOK, BcuTypeOK, CoreTypeOK
<1>a. \/ Held
      \/ /\ phase = 1
         /\ ~dp_busy \/ (dp_final_cycle /\ t_state = "T_2" /\ ready)
  BY DpHeld DEF Held
<1>b. dp_busy => ~Bcu!RequestPending /\ cycle_type \notin IntAcks /\ cycle_type # "IPQ_FETCH"
  BY CycleOfAccess
<1>1. CASE Bcu!Rest(ready) \/ Bcu!Strobe \/ Bcu!EnterT2
  <2>1. dp_busy' = dp_busy /\ dp_req2' = Bcu!RequestPending
    BY <1>1 DEF Bcu!Rest, Bcu!Strobe, Bcu!EnterT2, Bcu!Prologue, Bcu!LatchRequest,
       Bcu!cycleRegs, Bcu!dpRegs
  <2>2. /\ cycle_type' = cycle_type /\ addr' = addr /\ n_ube' = n_ube
        /\ dp_final_cycle' = dp_final_cycle /\ dp_din_buf' = dp_din_buf
    BY <1>1 DEF Bcu!Rest, Bcu!Strobe, Bcu!EnterT2, Bcu!Prologue, Bcu!LatchRequest,
       Bcu!cycleRegs, Bcu!dpRegs
  <2>3. t_state' = "T_IDLE" <=> t_state = "T_IDLE"
    BY <1>1 DEF Bcu!Rest, Bcu!Strobe, Bcu!EnterT2, Bcu!cycleRegs
  <2>4. phase = 1 /\ t_state = "T_2" => ~ready
    BY <1>1 DEF Bcu!Rest, Bcu!Strobe, Bcu!EnterT2
  <2>5. GoesOn(ready)
    BY <2>1, <2>2, <2>3, <2>4 DEF GoesOn
  <2>6. Held /\ dp_req2' = FALSE
    BY <1>a, <1>b, <2>1, <2>4
  <2> QED BY <2>5, <2>6
<1>2. CASE ready /\ Bcu!Completion
  <2>1. dp_busy /\ (Bcu!CompleteRead \/ Bcu!CompleteWrite)
    <3>1. dp_busy
      <4>1. ~dp_busy /\ t_state = "T_2" => cycle_type \notin DpCycles
        BY DEF DpShape
      <4> QED BY <1>2, <4>1, SharedOperators DEF Bcu!Completion, Bcu!Complete, Bcu!AcceptFetch,
              Bcu!DropFetch, Bcu!CompleteRead, Bcu!CompleteWrite, Bcu!CompleteIntAck, DpCycles
    <3> QED BY <1>2, <1>b, <3>1, SharedOperators DEF Bcu!Completion, Bcu!AcceptFetch,
            Bcu!DropFetch, Bcu!CompleteIntAck
  <2>2. /\ phase = 1 /\ t_state = "T_2" /\ t_state' = "T_IDLE" /\ dp_final_cycle' = TRUE
        /\ UNCHANGED <<cycle_type, addr, n_ube>>
        /\ ~dp_final_cycle /\ dp_req2' = Bcu!RequestPending
    BY <2>1 DEF Bcu!CompleteRead, Bcu!CompleteWrite, Bcu!Complete, Bcu!Prologue,
       Bcu!LatchRequest
  <2>3. ~dp.write => dp_din_buf' = DataPins
    BY <2>1, CycleOfAccess, SharedOperators DEF Bcu!CompleteRead, Bcu!CompleteWrite
  <2>4. Held /\ ~Bcu!RequestPending BY <1>a, <1>b, <2>1, <2>2
  <2>5. HalfEnds BY <2>1, <2>2, <2>3 DEF HalfEnds
  <2>6. dp_req2' = FALSE BY <2>2, <2>4
  <2> QED BY <1>2, <2>4, <2>5, <2>6, Zenon
<1>3. CASE Bcu!Arbitration
  <2>1. phase = 2 /\ t_state = "T_IDLE" /\ dp_din_buf' = dp_din_buf
    BY <1>3 DEF Bcu!Arbitration, Bcu!Arbitrate, Bcu!IntAckIdle, Bcu!StartIntAck2,
       Bcu!IntAck2Idle, Bcu!FinishIntAck, Bcu!SecondAccess, Bcu!StartIntAck1, Bcu!StartDp,
       Bcu!StartPrefetch, Bcu!StayIdle
  <2>2. Held BY <1>a, <2>1
  <2>3. CASE Bcu!SecondAccess
    <3>1. HalfBegins /\ dp_req2' = Bcu!RequestPending
      BY <2>1, <2>3 DEF HalfBegins, Bcu!SecondAccess, Bcu!Begin, Bcu!SecondAddr,
         Bcu!Prologue, Bcu!LatchRequest
    <3> QED BY <1>b, <2>2, <3>1 DEF HalfBegins
  <2>4. CASE Bcu!StartDp
    <3>1. Starts /\ dp_req2' = FALSE
      BY <2>1, <2>4, SharedOperators DEF Starts, Bcu!StartDp, Bcu!Begin, Bcu!SingleCycle
    <3> QED BY <2>2, <3>1
  <2>5. ASSUME ~Bcu!SecondAccess, ~Bcu!StartDp PROVE FALSE
    <3>1. dp_busy
      BY <1>3, <2>5 DEF Bcu!Arbitration, Bcu!IntAckIdle, Bcu!StartIntAck2,
         Bcu!IntAck2Idle, Bcu!FinishIntAck, Bcu!StartIntAck1, Bcu!StartPrefetch, Bcu!StayIdle
    <3> QED BY <1>3, <1>b, <2>5, <3>1 DEF Bcu!Arbitration, Bcu!IntAckIdle, Bcu!StartIntAck2,
            Bcu!IntAck2Idle, Bcu!FinishIntAck, Bcu!StartIntAck1, Bcu!StartPrefetch,
            Bcu!StayIdle, IntAcks
  <2> QED BY <2>3, <2>4, <2>5
<1> QED BY <1>1, <1>2, <1>3 DEF Bcu!BcuEdge

-----------------------------------------------------------------------------
LEMMA LanesStep ==
  ASSUME TypeInv, Lanes, NEW ready \in BOOLEAN, Bcu!BcuEdge(ready), EuEdge(ready)
  PROVE  Lanes'
<1> USE DEF TypeInv, TypeOK, BcuTypeOK, CoreTypeOK
<1> SUFFICES ASSUME dp_busy'
             PROVE  IF InSecondHalf' THEN ~Odd(addr') /\ n_ube' /\ addr' > 0
                    ELSE /\ Odd(addr') <=> Odd(dp'.addr)
                         /\ n_ube' <=> ~dp'.wide /\ ~Odd(dp'.addr)
                         /\ addr' < Phys
  BY DEF Lanes
<1>a. dp' = dp
  BY BusyEdge DEF Held
<1>1. CASE GoesOn(ready)
  <2>1. InSecondHalf' <=> InSecondHalf
    BY <1>a, <1>1 DEF GoesOn, InSecondHalf
  <2>2. addr' = addr /\ n_ube' = n_ube /\ dp_busy
    BY <1>1 DEF GoesOn
  <2> QED BY <1>a, <2>1, <2>2 DEF Lanes
<1>2. CASE HalfEnds
  <2>1. ~InSecondHalf /\ ~InSecondHalf'
    BY <1>2 DEF HalfEnds, InSecondHalf
  <2>2. addr' = addr /\ n_ube' = n_ube /\ dp_busy
    BY <1>2 DEF HalfEnds
  <2> QED BY <1>a, <2>1, <2>2 DEF Lanes
<1>3. CASE HalfBegins
  <2>1. dp.wide /\ Odd(dp.addr) /\ Odd(addr)
    BY <1>3 DEF HalfBegins, DpShape, FirstHalfLeft
  <2>2. InSecondHalf'
    BY <1>3, <1>a, <2>1 DEF HalfBegins, InSecondHalf
  <2>3. ~Odd(addr + 1) /\ addr + 1 > 0
    BY <2>1 DEF Odd, BusAddrs
  <2> QED BY <1>3, <2>2, <2>3 DEF HalfBegins
<1>4. CASE Starts
  <2>1. ~InSecondHalf'
    BY <1>4, <1>a DEF Starts, InSecondHalf
  <2>2. Odd(addr') <=> Odd(dp.addr)
    BY <1>4, DpFirstParity DEF Starts
  <2>3. addr' < Phys
    BY <1>4, DpFirstType, WidthFacts DEF Starts
  <2>4. n_ube' <=> ~dp.wide /\ ~Odd(dp.addr)
    BY <1>4 DEF Starts
  <2> QED BY <1>a, <2>1, <2>2, <2>3, <2>4
<1> QED BY BusyEdge, <1>1, <1>2, <1>3, <1>4

LEMMA BufferedStep ==
  ASSUME TypeInv, Buffered, NEW ready \in BOOLEAN, Bcu!BcuEdge(ready), EuEdge(ready),
         StoreEdge(ready)
  PROVE  Buffered'
<1> SUFFICES ASSUME dp_busy', ~dp'.write, SecondLeft'
             PROVE  dp_din_buf'[2] = store'[<<Space', BusFirst'>>]
  BY DEF Buffered
<1>a. dp' = dp
  BY BusyEdge DEF Held
<1>b. dp_busy => store' = store
  BY <1>a, StoreHeld
<1>c. cycle_type' = cycle_type => Space' = Space
  BY DEF Space
<1>1. CASE GoesOn(ready)
  <2>1. SecondLeft /\ BusFirst' = BusFirst
    BY <1>a, <1>1 DEF GoesOn, SecondLeft, BusFirst, InSecondHalf
  <2> QED BY <1>a, <1>b, <1>c, <1>1, <2>1 DEF GoesOn, Buffered
<1>2. CASE HalfEnds
  <2>1. Odd(addr) /\ ~n_ube
    BY <1>2 DEF HalfEnds, TypeInv, DpShape, FirstHalfLeft
  <2>2. DataPins[2] = store[<<Space, addr>>]
    BY <1>a, <1>2, <2>1, ReadPins DEF HalfEnds
  <2>3. BusFirst' = addr
    BY <1>2 DEF HalfEnds, BusFirst, InSecondHalf
  <2> QED BY <1>a, <1>b, <1>c, <1>2, <2>2, <2>3 DEF HalfEnds
<1>3. CASE HalfBegins
  <2>1. BusFirst = addr /\ SecondLeft
    BY <1>a, <1>3 DEF HalfBegins, BusFirst, InSecondHalf, SecondLeft
  <2>2. BusFirst' = addr
    <3>1. addr \in Int
      BY WidthFacts DEF TypeInv, TypeOK, BcuTypeOK, BusAddrs
    <3>2. InSecondHalf'
      BY <1>3 DEF HalfBegins, InSecondHalf, SecondLeft
    <3> QED BY <1>3, <3>1, <3>2 DEF HalfBegins, BusFirst
  <2> QED BY <1>a, <1>b, <1>c, <1>3, <2>1, <2>2 DEF HalfBegins, Buffered
<1>4. CASE Starts
  <2>1. ~SecondLeft'
    BY <1>4, <1>a DEF Starts, SecondLeft
  <2> QED BY <2>1
<1> QED BY BusyEdge, <1>1, <1>2, <1>3, <1>4

LEMMA StrobedStep ==
  ASSUME TypeInv, Strobed, NEW ready \in BOOLEAN, Edge(ready)
  PROVE  Strobed'
<1> USE DEF Strobed
<1>p. phase' = 3 - phase
  BY DEF Edge
<1>a. dp_busy' => dp' = dp
  BY BusyEdge DEF Edge, Held
<1>1. CASE Bcu!Rest(ready) \/ Bcu!EnterT2
  <2>1. /\ dp_busy' = dp_busy /\ cycle_type' = cycle_type
        /\ n_dstb' = n_dstb /\ dout' = dout
    BY <1>1 DEF Bcu!Rest, Bcu!EnterT2, Bcu!cycleRegs, Bcu!strobeRegs, Bcu!dpRegs
  <2>2. \/ t_state = "T_IDLE" /\ t_state' = "T_IDLE"
        \/ t_state = "T_2" /\ t_state' = "T_2"
        \/ t_state = "T_1" /\ phase = 2 /\ t_state' = "T_2"
    BY <1>1 DEF Bcu!Rest, Bcu!EnterT2, Bcu!cycleRegs
  <2> QED BY <1>p, <1>a, <2>1, <2>2
<1>2. CASE Bcu!Strobe
  <2>1. /\ phase = 1 /\ t_state = "T_1" /\ t_state' = "T_1" /\ n_dstb' = FALSE
        /\ dout' = IF Odd(dp.addr) THEN Swap(dp.dout) ELSE dp.dout
    BY <1>2, SharedOperators DEF Bcu!Strobe, Bcu!cycleRegs
  <2> QED BY <1>p, <1>a, <2>1
<1>3. CASE Bcu!Completion
  <2>1. t_state' = "T_IDLE" /\ cycle_type' = cycle_type
    BY <1>3 DEF Bcu!Completion, Bcu!AcceptFetch, Bcu!DropFetch, Bcu!CompleteRead,
       Bcu!CompleteWrite, Bcu!CompleteIntAck, Bcu!Complete
  <2>2. cycle_type \in DpWrites => n_dstb' = TRUE
    BY <1>3, SharedOperators DEF Bcu!Completion, Bcu!AcceptFetch, Bcu!DropFetch,
       Bcu!CompleteRead, Bcu!CompleteWrite, Bcu!CompleteIntAck, DpReads, DpWrites, IntAcks
  <2> QED BY <1>p, <2>1, <2>2
<1>4. CASE Bcu!Arbitration
  <2>1. n_dstb' = TRUE /\ phase = 2
    BY <1>4 DEF Bcu!Arbitration, Bcu!Arbitrate, Bcu!IntAckIdle, Bcu!StartIntAck2,
       Bcu!IntAck2Idle, Bcu!FinishIntAck, Bcu!SecondAccess, Bcu!StartIntAck1,
       Bcu!StartDp, Bcu!StartPrefetch, Bcu!StayIdle
  <2>2. t_state' \in {"T_1", "T_IDLE"}
    BY <1>4 DEF Bcu!Arbitration, Bcu!Arbitrate, Bcu!IntAckIdle, Bcu!StartIntAck2,
       Bcu!IntAck2Idle, Bcu!FinishIntAck, Bcu!SecondAccess, Bcu!StartIntAck1,
       Bcu!StartDp, Bcu!StartPrefetch, Bcu!StayIdle, Bcu!Begin, Bcu!cycleRegs
  <2> QED BY <1>p, <2>1, <2>2
<1> QED BY <1>1, <1>2, <1>3, <1>4 DEF Edge, Bcu!BcuEdge

LEMMA PortInit == Init => PortInv
BY DEF Init, PortInv, Lanes, Buffered, Strobed, DpWrites

LEMMA PortNext == ASSUME TypeInv, PortInv, [Next]_vars PROVE PortInv'
<1>1. CASE UNCHANGED vars
  <2>1. /\ UNCHANGED <<phase, dp, store>>
        /\ UNCHANGED <<t_state, cycle_type, addr, n_ube, n_dstb, dout>>
        /\ UNCHANGED <<dp_busy, dp_final_cycle, dp_din_buf>>
    BY <1>1 DEF vars, euVars, Bcu!bcuVars, Bcu!cycleRegs, Bcu!strobeRegs, Bcu!dpRegs
  <2> QED BY <2>1 DEF PortInv, Lanes, Buffered, Strobed, InSecondHalf, SecondLeft, BusFirst, Space
<1>2. CASE Reset
  <2>1. /\ dp_busy' = FALSE /\ t_state' = "T_IDLE" /\ cycle_type' = "IPQ_FETCH"
        /\ n_dstb' = TRUE /\ phase' = 3 - phase
    BY <1>2 DEF Reset, Bcu!BcuReset, Bcu!ResetCycle, Bcu!ResetAccess
  <2> QED BY <2>1 DEF PortInv, Lanes, Buffered, Strobed, DpWrites
<1>3. ASSUME NEW ready \in BOOLEAN, Edge(ready) PROVE PortInv'
  BY <1>3, LanesStep, BufferedStep, StrobedStep DEF Edge, PortInv
<1> QED BY <1>1, <1>2, <1>3 DEF Next

(* The last cycle of a read and what the first one left make the word.      *)
LEMMA FreshFromLanes == ASSUME TypeInv, PortInv PROVE ReadFresh
<1> SUFFICES ASSUME dp_busy, Bcu!DpBusReady(TRUE), ~dp.write
             PROVE  /\ Bcu!DpDin[1] = store[<<Space, BusFirst>>]
                    /\ dp.wide => Bcu!DpDin[2] = store[<<Space, BusFirst + 1>>]
  BY DEF ReadFresh
<1>1. dp_final_cycle /\ t_state = "T_2"
  BY DEF Bcu!DpBusReady
<1>2. /\ DataPins[1] = IF Odd(addr) THEN Open ELSE store[<<Space, addr>>]
      /\ DataPins[2] = IF n_ube THEN Open
                       ELSE store[<<Space, IF Odd(addr) THEN addr ELSE addr + 1>>]
  BY ReadPins
<1>3. addr \in Int BY WidthFacts DEF TypeInv, TypeOK, BcuTypeOK, BusAddrs
<1>4. CASE dp.wide /\ Odd(dp.addr)
  <2>1. InSecondHalf /\ SecondLeft BY <1>1, <1>4 DEF InSecondHalf, SecondLeft
  <2>2. BusFirst = addr - 1 /\ BusFirst + 1 = addr BY <1>3, <2>1 DEF BusFirst
  <2>3. ~Odd(addr) BY <2>1 DEF PortInv, Lanes
  <2>4. Bcu!DpDin = <<dp_din_buf[2], DataPins[1]>>
    BY <1>4, SharedOperators DEF Bcu!DpDin
  <2>5. dp_din_buf[2] = store[<<Space, BusFirst>>] BY <2>1 DEF PortInv, Buffered
  <2> QED BY <1>2, <2>2, <2>3, <2>4, <2>5
<1>5. CASE ~(dp.wide /\ Odd(dp.addr))
  <2>1. BusFirst = addr /\ ~InSecondHalf BY <1>5 DEF BusFirst, InSecondHalf
  <2>2. (Odd(addr) <=> Odd(dp.addr)) /\ (n_ube <=> ~dp.wide /\ ~Odd(dp.addr))
    BY <2>1 DEF PortInv, Lanes
  <2>3. Bcu!DpDin = IF Odd(dp.addr) THEN <<DataPins[2], DataPins[1]>> ELSE DataPins
    BY <1>5, SharedOperators DEF Bcu!DpDin, Swap
  <2> QED BY <1>2, <1>5, <2>1, <2>2, <2>3
<1> QED BY <1>4, <1>5

(* The word the execution unit finds on dp_din at the edge that announces   *)
(* it is the one at the location it asked for: bus_control_unit.sv:121 to   *)
(* 125 chooses among the lanes of two cycles.                               *)
THEOREM ReadsCorrect == Spec => []ReadFresh
<1>1. Init => TypeInv /\ PortInv BY TypeInit, PortInit
<1>2. TypeInv /\ PortInv /\ [Next]_vars => TypeInv' /\ PortInv' BY TypeNext, PortNext
<1>3. TypeInv /\ PortInv => ReadFresh BY FreshFromLanes
<1> QED BY <1>1, <1>2, <1>3, PTL DEF Spec


-----------------------------------------------------------------------------
(* The refinement of the data port: what BusSystem does with an access is   *)
(* what DataPort promises the execution unit.                               *)

(* The access on the bus as bytes to move: the low one at its first         *)
(* location, the high one at the next.                                      *)
Piece(n) == [cell |-> <<Space, BusFirst + n>>, write |-> dp.write, byte |-> dp.dout[n + 1]]

(* The bytes still to move, and those that the cycle on the bus moves.      *)
Left ==
  IF SecondLeft THEN {Piece(1)}
  ELSE IF dp.wide THEN {Piece(0), Piece(1)} ELSE {Piece(0)}
Moving ==
  IF InSecondHalf THEN {Piece(1)}
  ELSE IF dp.wide /\ ~Odd(dp.addr) THEN {Piece(0), Piece(1)} ELSE {Piece(0)}

LEMMA BusFirstInt == ASSUME TypeInv PROVE addr \in Int /\ BusFirst \in Int
BY WidthFacts DEF TypeInv, TypeOK, BcuTypeOK, BusAddrs, BusFirst

LEMMA TransferPair ==
  ASSUME NEW r, NEW s, NEW a
  PROVE  TransfersOf(r, s, a) =
           IF r.wide
           THEN { [cell |-> <<s, a + 0>>, write |-> r.write, byte |-> r.dout[0 + 1]],
                  [cell |-> <<s, a + 1>>, write |-> r.write, byte |-> r.dout[1 + 1]] }
           ELSE { [cell |-> <<s, a + 0>>, write |-> r.write, byte |-> r.dout[0 + 1]] }
BY DEF TransfersOf

LEMMA TodoBusy == ASSUME TypeInv, dp_busy PROVE Todo = Left
<1>2. TransfersOf(dp, Space, BusFirst) = IF dp.wide THEN {Piece(0), Piece(1)} ELSE {Piece(0)}
  BY TransferPair DEF Piece
<1>3. Piece(0).cell[2] = BusFirst + 0 /\ Piece(1).cell[2] = BusFirst + 1
  BY DEF Piece
<1>4. SecondLeft => {t \in {Piece(0), Piece(1)} : t.cell[2] = BusFirst + 1} = {Piece(1)}
  BY <1>3, BusFirstInt
<1>5. SecondLeft => dp.wide BY DEF SecondLeft
<1> QED BY <1>2, <1>4, <1>5 DEF Todo, Left

(* Before an access begins there is nothing to move; once it has begun, no  *)
(* other waits.                                                             *)
LEMMA TodoFree == ASSUME ~dp_busy PROVE Todo = {}
BY DEF Todo

LEMMA AskedBusy == ASSUME TypeInv, dp_busy PROVE Asked = {}
BY CycleOfAccess DEF Asked

(* A cycle moves some of the bytes left, the last cycle all of them.        *)
LEMMA CycleMoves ==
  ASSUME TypeInv, dp_busy, t_state # "T_IDLE"
  PROVE  /\ Moving # {} /\ Moving \subseteq Left
         /\ dp_final_cycle => Moving = Left
         /\ ~dp_final_cycle => Left \ Moving = {Piece(1)}
<1>1. SecondLeft <=> InSecondHalf
  BY DEF SecondLeft, InSecondHalf
<1>2. ~dp_final_cycle => dp.wide /\ Odd(dp.addr) /\ ~InSecondHalf
  BY DEF TypeInv, DpShape, FirstHalfLeft, InSecondHalf
<1>3. Piece(0) # Piece(1)
  <2>1. Piece(0).cell[2] = BusFirst + 0 /\ Piece(1).cell[2] = BusFirst + 1 BY DEF Piece
  <2> QED BY <2>1, BusFirstInt
<1>4. dp_final_cycle /\ ~InSecondHalf => ~(dp.wide /\ Odd(dp.addr))
  BY DEF InSecondHalf
<1>5. Moving # {} /\ Moving \subseteq Left
  BY <1>1 DEF Moving, Left
<1>6. dp_final_cycle => Moving = Left
  BY <1>1, <1>4 DEF Moving, Left
<1>7. ~dp_final_cycle => Left \ Moving = {Piece(1)}
  BY <1>1, <1>2, <1>3 DEF Moving, Left
<1> QED BY <1>5, <1>6, <1>7

-----------------------------------------------------------------------------
(* What moving bytes does to the cells. *)
LEMMA AfterReads ==
  ASSUME store \in [Cells -> Bytes], NEW moved, \A t \in moved : ~t.write
  PROVE  Port!After(moved) = store
BY DEF Port!After

LEMMA AfterWrites ==
  ASSUME store \in [Cells -> Bytes], NEW moved, NEW f \in [Cells -> Bytes],
         \A t \in moved : t.write /\ f[t.cell] = t.byte,
         \A c \in Cells : (\A t \in moved : t.cell # c) => f[c] = store[c]
  PROVE  Port!After(moved) = f
<1> DEFINE Hit(c) == \E t \in moved : t.write /\ t.cell = c
           Pick(c) == CHOOSE t \in moved : t.write /\ t.cell = c
<1>1. \A c \in Cells : Hit(c) => Pick(c) \in moved /\ Pick(c).cell = c
  OBVIOUS
<1>2. \A c \in Cells : Hit(c) => Pick(c).byte = f[c]
  BY <1>1
<1>3. \A c \in Cells : ~Hit(c) => store[c] = f[c]
  OBVIOUS
<1>4. Port!After(moved) = [c \in Cells |-> IF Hit(c) THEN Pick(c).byte ELSE store[c]]
  BY DEF Port!After
<1> HIDE DEF Hit, Pick
<1> QED BY <1>2, <1>3, <1>4

(* The lanes of a write carry the bytes that its cycle moves. *)
LEMMA CycleStores ==
  ASSUME TypeInv, PortInv, dp_busy, t_state # "T_IDLE"
  PROVE  /\ ~dp.write => Port!After(Moving) = store
         /\ dp.write /\ ~n_dstb => Port!After(Moving) = Written
<1> USE DEF TypeInv, TypeOK, BoardTypeOK
<1>1. store \in [Cells -> Bytes] /\ Written \in [Cells -> Bytes]
  BY WrittenType
<1>2. \A t \in Moving : t.write = dp.write
  BY DEF Moving, Piece
<1>3. ~dp.write => Port!After(Moving) = store
  BY <1>1, <1>2, AfterReads
<1>4. ASSUME dp.write, ~n_dstb PROVE Port!After(Moving) = Written
  <2>1. dout = IF Odd(dp.addr) THEN <<dp.dout[2], dp.dout[1]>> ELSE dp.dout
    BY <1>4 DEF PortInv, Strobed, Swap
  <2>2. addr \in BusAddrs /\ Space \in Spaces /\ addr \in Int
    BY WidthFacts DEF BcuTypeOK, Space, Spaces, BusAddrs
  <2>3. Piece(0).byte = dp.dout[1] /\ Piece(1).byte = dp.dout[2]
    BY DEF Piece
  <2>4. BusFirst \in Int /\ Piece(0).cell = <<Space, BusFirst>>
        /\ Piece(1).cell = <<Space, BusFirst + 1>>
    BY BusFirstInt DEF Piece
  <2>5. CASE InSecondHalf
    <3>1. Piece(1).cell = <<Space, addr>> /\ <<Space, addr>> \in Cells
      BY <2>2, <2>4, <2>5 DEF BusFirst, Cells
    <3>2. Odd(dp.addr) /\ ~Odd(addr) /\ n_ube
      BY <2>5 DEF InSecondHalf, PortInv, Lanes
    <3>3. Written = [store EXCEPT ![<<Space, addr>>] = dp.dout[2]]
      BY <2>1, <3>2 DEF Written
    <3>4. Moving = {Piece(1)}
      BY <2>5 DEF Moving
    <3>5. \A t \in Moving : t.write /\ Written[t.cell] = t.byte
      BY <1>1, <1>2, <1>4, <2>3, <3>1, <3>3, <3>4
    <3>6. \A c \in Cells : (\A t \in Moving : t.cell # c) => Written[c] = store[c]
      BY <1>1, <3>1, <3>3, <3>4
    <3> QED BY <1>1, <3>5, <3>6, AfterWrites
  <2>6. CASE ~InSecondHalf
    <3>0. addr < Phys /\ addr + 1 \in BusAddrs
      BY <2>2, <2>6, WidthFacts DEF PortInv, Lanes, BusAddrs
    <3>1. /\ Piece(0).cell = <<Space, addr>> /\ Piece(1).cell = <<Space, addr + 1>>
          /\ <<Space, addr>> \in Cells /\ <<Space, addr + 1>> \in Cells
      BY <2>2, <2>4, <2>6, <3>0 DEF BusFirst, Cells
    <3>2. Odd(addr) <=> Odd(dp.addr)
      BY <2>6 DEF PortInv, Lanes
    <3>3. n_ube <=> ~dp.wide /\ ~Odd(dp.addr)
      BY <2>6 DEF PortInv, Lanes
    <3>4. CASE dp.wide /\ ~Odd(dp.addr)
      <4>1. Moving = {Piece(0), Piece(1)}
        BY <2>6, <3>4 DEF Moving
      <4>2. Written = [store EXCEPT ![<<Space, addr>>] = dp.dout[1],
                                    ![<<Space, addr + 1>>] = dp.dout[2]]
        BY <2>1, <3>2, <3>3, <3>4 DEF Written
      <4>3. <<Space, addr>> # <<Space, addr + 1>> BY <2>2
      <4>4. \A t \in Moving : t.write /\ Written[t.cell] = t.byte
        BY <1>1, <1>2, <1>4, <2>3, <3>1, <4>1, <4>2, <4>3, ZenonT(40)
      <4>5. \A c \in Cells : (\A t \in Moving : t.cell # c) => Written[c] = store[c]
        BY <1>1, <3>1, <4>1, <4>2
      <4> QED BY <1>1, <4>4, <4>5, AfterWrites
    <3>5. CASE ~(dp.wide /\ ~Odd(dp.addr))
      <4>1. Moving = {Piece(0)}
        BY <2>6, <3>5 DEF Moving
      <4>2. Written = [store EXCEPT ![<<Space, addr>>] = dp.dout[1]]
        BY <2>1, <3>2, <3>3, <3>5 DEF Written
      <4>3. \A t \in Moving : t.write /\ Written[t.cell] = t.byte
        BY <1>1, <1>2, <1>4, <2>3, <3>1, <4>1, <4>2
      <4>4. \A c \in Cells : (\A t \in Moving : t.cell # c) => Written[c] = store[c]
        BY <1>1, <3>1, <4>1, <4>2
      <4> QED BY <1>1, <4>3, <4>4, AfterWrites
    <3> QED BY <3>4, <3>5
  <2> QED BY <2>5, <2>6
<1> QED BY <1>3, <1>4

(* The edge that ends a cycle of an access moves the cycle's bytes.         *)
LEMMA StoreMoves ==
  ASSUME TypeInv, PortInv, NEW ready \in BOOLEAN, StoreEdge(ready),
         dp_busy, phase = 1, t_state = "T_2", ready
  PROVE  store' = Port!After(Moving)
<1>1. ~n_dstb BY DEF PortInv, Strobed
<1>2. cycle_type \in DpWrites <=> dp.write BY CycleOfAccess
<1>3. store' = IF dp.write THEN Written ELSE store
  BY <1>1, <1>2 DEF StoreEdge, WriteStrobed
<1>4. dp.write \in BOOLEAN BY DEF TypeInv, TypeOK, CoreTypeOK, DpRecords
<1>5. /\ ~dp.write => Port!After(Moving) = store
      /\ dp.write => Port!After(Moving) = Written
  BY <1>1, CycleStores
<1> QED BY <1>3, <1>4, <1>5

-----------------------------------------------------------------------------
(* What each edge is to the port. *)

(* A request is kept, or new, from one edge to the next. *)
LEMMA RequestEdge ==
  ASSUME TypeInv, NEW ready \in BOOLEAN, Bcu!BcuEdge(ready), EuEdge(ready), ~dp_busy'
  PROVE  /\ dp_req2' = Bcu!RequestPending
         /\ dp_req' => dp' \in Requests
<1>1. dp_req2' = Bcu!RequestPending
  <2>1. CASE Bcu!Rest(ready) \/ Bcu!Strobe \/ Bcu!EnterT2
    BY <2>1 DEF Bcu!Rest, Bcu!Strobe, Bcu!EnterT2, Bcu!Prologue, Bcu!LatchRequest
  <2>2. CASE Bcu!Completion
    BY <2>2 DEF Bcu!Completion, Bcu!AcceptFetch, Bcu!DropFetch, Bcu!CompleteRead,
       Bcu!CompleteWrite, Bcu!CompleteIntAck, Bcu!Prologue, Bcu!LatchRequest
  <2>3. CASE Bcu!Arbitration
    <3>1. ~Bcu!StartDp BY DEF Bcu!StartDp
    <3> QED BY <2>3, <3>1 DEF Bcu!Arbitration, Bcu!IntAckIdle, Bcu!StartIntAck2,
            Bcu!IntAck2Idle, Bcu!FinishIntAck, Bcu!SecondAccess, Bcu!StartIntAck1,
            Bcu!StartPrefetch, Bcu!StayIdle, Bcu!Prologue, Bcu!LatchRequest
  <2> QED BY <2>1, <2>2, <2>3 DEF Bcu!BcuEdge
<1>2. dp_req' => dp' \in Requests
  BY DEF EuEdge, Quiet, Access, Accept, Jump, Load, TakeInterrupt, SeeIntack, NoAccess,
     NewAccess
<1> QED BY <1>1, <1>2

(* Only the edge that ends the last cycle ends an access. *)
LEMMA AccessEnds ==
  ASSUME TypeInv, NEW ready \in BOOLEAN, Bcu!BcuEdge(ready), dp_busy, ~dp_busy'
  PROVE  phase = 1 /\ t_state = "T_2" /\ ready /\ dp_final_cycle
<1>1. ~Bcu!Rest(ready) /\ ~Bcu!Strobe /\ ~Bcu!EnterT2
  BY DEF Bcu!Rest, Bcu!Strobe, Bcu!EnterT2, Bcu!dpRegs
<1>2. ~Bcu!Arbitration
  BY DEF Bcu!Arbitration, Bcu!IntAckIdle, Bcu!StartIntAck2, Bcu!IntAck2Idle,
     Bcu!FinishIntAck, Bcu!SecondAccess, Bcu!StartIntAck1, Bcu!StartDp, Bcu!StartPrefetch,
     Bcu!StayIdle
<1>3. ready /\ Bcu!Completion BY <1>1, <1>2 DEF Bcu!BcuEdge
<1>4. Bcu!CompleteRead \/ Bcu!CompleteWrite
  BY <1>3 DEF Bcu!Completion, Bcu!AcceptFetch, Bcu!DropFetch, Bcu!CompleteIntAck
<1> QED BY <1>3, <1>4 DEF Bcu!CompleteRead, Bcu!CompleteWrite, Bcu!Complete, TypeInv, TypeOK,
        BcuTypeOK

(* The access that waits stays the one that was asked for. *)
LEMMA AskedHeld ==
  ASSUME TypeInv, NEW ready \in BOOLEAN, Bcu!BcuEdge(ready), EuEdge(ready),
         ~dp_busy', Bcu!RequestPending
  PROVE  Asked' = Asked
<1>1. dp' = dp BY DpHeld
<1>2. Bcu!RequestPending' BY RequestEdge DEF Bcu!RequestPending
<1> QED BY <1>1, <1>2 DEF Asked

(* From a free port, or one that the last byte leaves, at most one of the   *)
(* accesses is asked for.                                                   *)
LEMMA AskedNext ==
  ASSUME TypeInv, NEW ready \in BOOLEAN, Bcu!BcuEdge(ready), EuEdge(ready),
         ~dp_busy', ~Bcu!RequestPending
  PROVE  Asked' = {} \/ Port!Issued
<1>1. dp_req2' = FALSE BY RequestEdge
<1>2. dp_req' => dp' \in Requests BY RequestEdge
<1>3. Bcu!RequestPending' <=> dp_req' BY <1>1 DEF Bcu!RequestPending
<1> QED BY <1>2, <1>3 DEF Asked, Port!Issued

(* While the access goes on, and between its halves, the bytes left stay    *)
(* the same; the end of the first half leaves the second byte.              *)
LEMMA LeftStep ==
  ASSUME TypeInv, PortInv, NEW ready \in BOOLEAN, Bcu!BcuEdge(ready), EuEdge(ready),
         dp_busy, dp_busy'
  PROVE  \/ Left' = Left /\ ~(phase = 1 /\ t_state = "T_2" /\ ready)
         \/ /\ phase = 1 /\ t_state = "T_2" /\ ready
            /\ Left' = Left \ Moving
<1> USE DEF TypeInv, TypeOK, BcuTypeOK
<1>a. dp' = dp BY BusyEdge DEF Held
<1>b. ~Starts BY DEF Starts
<1>c. \A n : Space' = Space /\ BusFirst' = BusFirst => Piece(n)' = Piece(n)
  BY <1>a DEF Piece
<1>1. CASE GoesOn(ready)
  <2>1. /\ SecondLeft' <=> SecondLeft
        /\ InSecondHalf' <=> InSecondHalf
    BY <1>a, <1>1 DEF GoesOn, SecondLeft, InSecondHalf
  <2>2. Space' = Space /\ BusFirst' = BusFirst
    BY <1>1, <2>1 DEF GoesOn, Space, BusFirst
  <2>3. Left' = Left BY <1>a, <1>c, <2>1, <2>2 DEF Left
  <2> QED BY <1>1, <2>3 DEF GoesOn
<1>2. CASE ready /\ HalfEnds
  <2>1. ~InSecondHalf /\ ~InSecondHalf' /\ t_state' = "T_IDLE"
    BY <1>2 DEF HalfEnds, InSecondHalf
  <2>2. Space' = Space /\ BusFirst' = BusFirst
    BY <1>2, <2>1 DEF HalfEnds, Space, BusFirst
  <2>3. dp.wide /\ Odd(dp.addr)
    BY <1>2 DEF HalfEnds, DpShape, FirstHalfLeft
  <2>4. SecondLeft' BY <1>a, <2>1, <2>3 DEF SecondLeft
  <2>5. Left' = {Piece(1)} BY <1>c, <2>2, <2>4 DEF Left
  <2>6. Left \ Moving = {Piece(1)} BY <1>2, CycleMoves DEF HalfEnds
  <2> QED BY <1>2, <2>5, <2>6 DEF HalfEnds
<1>3. CASE HalfBegins
  <2>1. dp.wide /\ Odd(dp.addr)
    BY <1>3 DEF HalfBegins, DpShape, FirstHalfLeft
  <2>2. InSecondHalf' /\ ~InSecondHalf
    BY <1>3, <1>a, <2>1 DEF HalfBegins, InSecondHalf
  <2>3. BusFirst = addr /\ BusFirst' = (addr + 1) - 1
    BY <1>3, <2>2 DEF HalfBegins, BusFirst
  <2>4. Space' = Space /\ BusFirst' = BusFirst
    BY <1>3, <2>3, BusFirstInt DEF HalfBegins, Space
  <2>5. SecondLeft /\ SecondLeft'
    BY <1>3, <1>a, <2>1 DEF HalfBegins, SecondLeft
  <2>6. Left' = Left BY <1>c, <2>4, <2>5 DEF Left
  <2> QED BY <1>3, <2>6 DEF HalfBegins
<1> QED BY BusyEdge, <1>b, <1>1, <1>2, <1>3

(* The instance's account of where the bytes of an access are. *)
LEMMA AskedTransfers ==
  ASSUME NEW space, space = IF dp.io THEN "io" ELSE "mem"
  PROVE  Port!Transfers(dp) = TransfersOf(dp, space, Bcu!DpFirst)
<1>1. Bcu!DpFirst = IF dp.io \/ dp.zero_seg THEN dp.addr
                    ELSE (sregs[dp.sreg] * Para + dp.addr) % Phys
  BY SharedOperators DEF Bcu!DpFirst, Bcu!PhysicalAddr, PhysicalAddr
<1>2. Bcu!DpFirst = IF dp.io \/ dp.zero_seg THEN dp.addr
                    ELSE Port!PhysicalAddr(sregs, dp.sreg, dp.addr)
  BY <1>1 DEF Port!PhysicalAddr
<1> QED BY <1>2 DEF Port!Transfers, TransfersOf

(* What starts is what was asked for, where the segment registers point on  *)
(* the edge that starts it.                                                 *)
LEMMA StartsAsked ==
  ASSUME TypeInv, TypeInv', NEW ready \in BOOLEAN, Bcu!BcuEdge(ready), EuEdge(ready),
         ~dp_busy, dp_busy'
  PROVE  Asked = {dp} /\ Left' = Port!Transfers(dp)
<1>1. Starts /\ dp' = dp BY BusyEdge DEF GoesOn, HalfEnds, HalfBegins, Held
<1>2. Asked = {dp} BY <1>1 DEF Starts, Asked
<1>3. ~SecondLeft' /\ ~InSecondHalf'
  BY <1>1 DEF Starts, SecondLeft, InSecondHalf
<1>4. BusFirst' = Bcu!DpFirst BY <1>1, <1>3 DEF Starts, BusFirst
<1>5. Space' = IF dp.io THEN "io" ELSE "mem"
  BY <1>1 DEF Starts, Space, Bcu!DpCycle
<1>6. Port!Transfers(dp) = TransfersOf(dp, Space', BusFirst')
  BY <1>4, <1>5, AskedTransfers
<1>7. \A n : Piece(n)' = [cell |-> <<Space', BusFirst' + n>>, write |-> dp.write,
                          byte |-> dp.dout[n + 1]]
  BY <1>1 DEF Piece
<1>8. Left' = IF dp.wide THEN {Piece(0)', Piece(1)'} ELSE {Piece(0)'}
  BY <1>1, <1>3 DEF Left
<1> QED BY <1>2, <1>6, <1>7, <1>8, TransferPair

(* The steps of the port, at the instance. *)
LEMMA EdgeMaps ==
  ASSUME TypeInv, TypeInv', PortInv, NEW ready \in BOOLEAN, Edge(ready)
  PROVE  Port!Next \/ UNCHANGED <<Asked, Todo, store>>
<1> USE DEF Edge
<1>a. dp_busy \in BOOLEAN /\ dp_busy' \in BOOLEAN
  BY DEF TypeInv, TypeOK, BcuTypeOK
<1>b. dp_busy' => Todo' = Left' /\ Asked' = {}
  <2>1. (TypeInv /\ dp_busy => Todo = Left)' BY TodoBusy, PTL
  <2>2. (TypeInv /\ dp_busy => Asked = {})' BY AskedBusy, PTL
  <2> QED BY <2>1, <2>2
<1>c. ~dp_busy' => Todo' = {}
  BY DEF Todo
<1>d. ASSUME phase = 1, t_state = "T_2", ready, dp_busy
      PROVE  /\ store' = Port!After(Moving) /\ Todo = Left
             /\ Moving # {} /\ Moving \subseteq Left
  BY <1>d, StoreMoves, TodoBusy, CycleMoves
<1>1. CASE dp_busy /\ dp_busy'
  <2>1. Todo = Left /\ Todo' = Left' BY <1>1, <1>b, TodoBusy
  <2>2. Asked = {} /\ Asked' = {} BY <1>1, <1>b, AskedBusy
  <2>3. CASE Left' = Left /\ ~(phase = 1 /\ t_state = "T_2" /\ ready)
    BY <2>1, <2>2, <2>3, StoreHeld
  <2>4. CASE phase = 1 /\ t_state = "T_2" /\ ready /\ Left' = Left \ Moving
    BY <1>1, <1>d, <2>1, <2>2, <2>4 DEF Port!Next, Port!Transfer, Port!Move
  <2> QED BY <1>1, <2>3, <2>4, LeftStep
<1>2. CASE dp_busy /\ ~dp_busy'
  <2>1. phase = 1 /\ t_state = "T_2" /\ ready /\ dp_final_cycle
    BY <1>2, AccessEnds
  <2>2. Moving = Left BY <1>2, <2>1, CycleMoves
  <2>3. Asked = {} BY <1>2, AskedBusy
  <2>4. Asked' = {} \/ Port!Issued BY <1>2, AskedNext, CycleOfAccess
  <2>5. Moving \in SUBSET Todo /\ Moving # {} /\ store' = Port!After(Moving)
        /\ Moving = Todo /\ Todo' = Todo \ Moving
    BY <1>2, <1>c, <1>d, <2>1, <2>2
  <2> QED BY <2>3, <2>4, <2>5 DEF Port!Next, Port!Transfer, Port!Move
<1>3. CASE ~dp_busy
  <2>0. store' = store BY <1>3, StoreHeld
  <2>1. Todo = {} BY <1>3, TodoFree
  <2>2. CASE dp_busy'
    <3>1. Asked = {dp} /\ Left' = Port!Transfers(dp) BY <1>3, <2>2, StartsAsked
    <3> QED BY <1>b, <2>0, <2>2, <3>1 DEF Port!Next, Port!Begin
  <2>3. CASE ~dp_busy' /\ Bcu!RequestPending
    BY <1>c, <2>0, <2>1, <2>3, AskedHeld
  <2>4. CASE ~dp_busy' /\ ~Bcu!RequestPending
    <3>1. Asked = {} BY <2>4 DEF Asked
    <3>2. Asked' = {} \/ Port!Issued BY <2>4, AskedNext
    <3> QED BY <1>c, <2>0, <2>1, <2>4, <3>1, <3>2 DEF Port!Next, Port!Issue
  <2> QED BY <1>a, <2>2, <2>3, <2>4
<1> QED BY <1>a, <1>1, <1>2, <1>3

(* A reset drops what is left, and a write it cuts short may still happen.  *)
LEMMA ResetMaps == ASSUME TypeInv, PortInv, Reset PROVE Port!Next
<1>1. ~dp_busy' /\ ~Bcu!RequestPending'
  BY DEF Reset, EuReset, Bcu!BcuReset, Bcu!ResetAccess, Bcu!RequestPending
<1>2. Todo' = {} /\ Asked' = {} BY <1>1 DEF Todo, Asked
<1>3. Resets BY DEF Reset
<1>4. CASE store' = store
  <2>1. store \in [Cells -> Bytes] BY DEF TypeInv, TypeOK, BoardTypeOK
  <2>2. Port!After({}) = store BY <2>1, AfterReads
  <2> QED BY <1>2, <1>3, <1>4, <2>2 DEF Port!Next, Port!Drop, Port!Move
<1>5. CASE WriteStrobed /\ store' = Written
  <2>1. t_state # "T_IDLE" /\ ~n_dstb /\ cycle_type \in DpWrites
    BY <1>5 DEF WriteStrobed, PortInv, Strobed
  <2>2. dp_busy BY <2>1 DEF TypeInv, DpShape, DpCycles
  <2>3. dp.write BY <2>1, <2>2, CycleOfAccess
  <2>4. Port!After(Moving) = Written BY <2>1, <2>2, <2>3, CycleStores
  <2>5. Moving \subseteq Todo BY <2>1, <2>2, CycleMoves, TodoBusy
  <2> QED BY <1>2, <1>3, <1>5, <2>4, <2>5 DEF Port!Next, Port!Drop, Port!Move
<1> QED BY <1>4, <1>5 DEF Reset

(* Seen through the refinement mapping the execution unit has the data      *)
(* port of DataPort (bus_control_unit.sv:200 to 231 and 260 to 267),        *)
(* whenever it changes a segment register: an access goes where its         *)
(* register points when its first cycle starts, both halves of a word       *)
(* alike; every byte of it moves once, between its own cell and its own     *)
(* half of the word, and nothing else changes a cell.                       *)
THEOREM PortImplemented == Spec => PortSpec
<1>1. Init => TypeInv /\ PortInv /\ Port!Init
  BY TypeInit, PortInit, TodoFree DEF Init, Port!Init, Asked, Bcu!RequestPending
<1>2. TypeInv /\ PortInv /\ [Next]_vars => TypeInv' /\ PortInv'
  BY TypeNext, PortNext
<1>3. TypeInv /\ TypeInv' /\ PortInv /\ [Next]_vars => [Port!Next]_(Port!portVars)
  <2>1. ASSUME UNCHANGED vars PROVE UNCHANGED Port!portVars
    <3>1. /\ UNCHANGED <<dp, dp_req, dp_req2, dp_busy, sregs, store>>
          /\ UNCHANGED <<cycle_type, addr, dp_final_cycle, t_state>>
      BY <2>1 DEF vars, euVars, Bcu!bcuVars, Bcu!cycleRegs, Bcu!dpRegs
    <3>2. Asked' = Asked BY <3>1 DEF Asked, Bcu!RequestPending
    <3>3. /\ BusFirst' = BusFirst /\ Space' = Space
          /\ SecondLeft' <=> SecondLeft
      BY <3>1 DEF BusFirst, Space, SecondLeft, InSecondHalf
    <3> QED BY <3>1, <3>2, <3>3 DEF Port!portVars, Todo, TransfersOf
  <2>2. ASSUME TypeInv, TypeInv', PortInv, Next PROVE [Port!Next]_(Port!portVars)
    BY <2>2, EdgeMaps, ResetMaps DEF Next, Port!portVars
  <2> QED BY <2>1, <2>2
<1> QED BY <1>1, <1>2, <1>3, PTL DEF Spec, PortSpec, Port!Spec
=============================================================================
