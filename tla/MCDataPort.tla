---------------------------- MODULE MCDataPort ----------------------------
(* Small instances of BusSystem for the accesses of the execution unit.     *)
EXTENDS MCBusSystem

(* A word of I/O at the last offset and overlapping writes to memory for    *)
(* resets to cut short.                                                     *)
CutRequests == { Access6(15, TRUE,  TRUE, "io",  "DS0", "q"),
                 Access6(1,  TRUE,  TRUE, "mem", "DS0", "q"),
                 Access6(2,  FALSE, TRUE, "mem", "DS0", "q") }

(* Reads by every lane and number of cycles: a byte at an odd and at an     *)
(* even address, a word in one cycle, read without a segment as vectors     *)
(* are, and one in two; a write among them changes what they read.          *)
ReadRequests == { Access6(5, FALSE, FALSE, "mem",  "SS",  "q"),
                  Access6(6, FALSE, FALSE, "mem",  "DS0", "q"),
                  Access6(6, TRUE,  FALSE, "zero", "SS",  "q"),
                  Access6(5, TRUE,  FALSE, "mem",  "DS1", "q"),
                  Access6(7, TRUE,  FALSE, "io",   "DS0", "q"),
                  Access6(6, TRUE,  TRUE,  "mem",  "DS0", "q") }

(* The data port in three settings: PortRequests without resets while jumps *)
(* change PS, ReadRequests without resets and CutRequests with them and one *)
(* PS.                                                                      *)
DataRequests == PortRequests \cup ReadRequests \cup CutRequests

VARIABLE setting

Asking(requests) == dp' \in requests \cup {dp}
Undisturbed ==
  /\ setting = "ports" /\ Clock /\ Asking(PortRequests)
  /\ sregs' # sregs => set_pc'
Reading ==
  /\ setting = "reads" /\ Clock /\ Asking(ReadRequests) /\ UNCHANGED sregs
CutShort ==
  /\ setting = "cut" /\ Next /\ Asking(CutRequests) /\ UNCHANGED sregs

DataSpec ==
  /\ Init /\ setting \in {"ports", "reads", "cut"}
  /\ [][(Undisturbed \/ Reading \/ CutShort) /\ UNCHANGED setting]_<<vars, setting>>
=============================================================================
