--------------------------- MODULE MCBusSystem ---------------------------
(* Small instances of BusSystem for TLC: sixteen offsets, so that the       *)
(* queue's pointers wrap, and paragraphs of eight bytes, so that segments   *)
(* overlap and the physical space wraps.                                    *)
EXTENDS BusSystem

(* Accesses are listed as <<address, wide, write, space, segment, value>>.  *)
Access6(a, wide, write, space, s, w) ==
  [addr |-> a, dout |-> Halves(w), write |-> write, wide |-> wide,
   io |-> space = "io", sreg |-> s, zero_seg |-> space = "zero"]

(* The program only fetches and jumps, between two segments. *)
NoRequests    == {}
FetchSegments == [s \in SregIndex |-> IF s = "PS" THEN {0, 3} ELSE {0}]

(* Words through PS, which jumps change: written at 7, so straddling the    *)
(* end of memory or not, and read there.                                    *)
PortRequests ==
  { Access6(7,  TRUE,  TRUE,  "mem",  "PS",  "q"),
    Access6(7,  TRUE,  FALSE, "mem",  "PS",  "q") }
CodeSegments == [s \in SregIndex |-> IF s = "PS" THEN {0, 1} ELSE {0}]

(* A word and a byte on the stack for interrupts to compete with. *)
StackRequests == { Access6(1, TRUE,  FALSE, "mem", "SS", "p"),
                   Access6(3, FALSE, FALSE, "mem", "SS", "p") }
OneSegment    == [s \in SregIndex |-> {0}]
=============================================================================
