---------------------------- MODULE V33Types ----------------------------
(* The values the modules of the core exchange: hdl/enums.svh, hdl/types.sv *)
(* and the address arithmetic of hdl/bus_control_unit.sv.                   *)
(*                                                                          *)
(* The widths are parameters.  In the source an offset (PC, an effective    *)
(* address) has 16 bits, so Offs = 2^16; a segment value counts paragraphs  *)
(* of Para = 16 bytes; a physical address has 20 bits, so Phys = 2^20.      *)
(* The address pins have 24 bits, which leaves room for one more location   *)
(* than Phys when the second half of a word is addressed.                   *)
EXTENDS Integers

CONSTANTS Offs, Para, Phys

(* Offsets wrap at a multiple of 16, so that their low four bits (the queue *)
(* length) and their low three bits (the queue index) are well behaved;     *)
(* paragraphs and the physical space are even, so that the parity of an     *)
(* offset is the parity of its address.                                     *)
ASSUME WidthAssumption ==
  /\ Offs \in Nat /\ Offs > 0 /\ Offs % 16 = 0
  /\ Para \in Nat /\ Para % 2 = 0
  /\ Phys \in Nat /\ Phys >= Offs /\ Phys % 2 = 0

Offsets   == 0 .. Offs - 1
BusAddrs  == 0 .. Phys

SregIndex == {"DS0", "DS1", "SS", "PS"}

TStates    == {"T_1", "T_2", "T_IDLE"}
CycleTypes == {"INT_ACK1", "INT_ACK2", "IO_READ", "IO_WRITE",
               "IPQ_FETCH", "MEM_READ", "MEM_WRITE"}

DpReads  == {"MEM_READ", "IO_READ"}
DpWrites == {"MEM_WRITE", "IO_WRITE"}
DpCycles == DpReads \cup DpWrites
IntAcks  == {"INT_ACK1", "INT_ACK2"}

(* segment:offset to the 20 bit address; sregs holds the four segment       *)
(* registers.                                                               *)
PhysicalAddrUncut(sregs, sreg, ea) == sregs[sreg] * Para + ea  \* mutant
PhysicalAddr(sregs, sreg, ea) == (sregs[sreg] * Para + ea) % Phys

(* Offsets are 16 bit counters. *)
OffsetPlus(o, n) == (o + n) % Offs

Odd(a) == a % 2 = 1

(* A byte is where it came from and which byte it is there: the code or the *)
(* memory at an address, one half of a value the program wrote, or none of  *)
(* the program's data.                                                      *)
Byte(origin, n) == <<origin, n>>
Open == Byte("open", 0)     \* a lane nobody drives
Ones == Byte("ones", 0)     \* 8'hff

(* A 16 bit word is a pair <<low byte, high byte>>; lanes are swapped when  *)
(* the byte an odd address names has to travel on the upper data lines.     *)
Swap(w) == <<w[2], w[1]>>
=============================================================================
