------------------------- MODULE PrefetchQueue -------------------------
(* What the prefetch side of the bus control unit promises the decoder      *)
(* (hdl/bus_control_unit.sv as hdl/nec_decode.sv uses it): a first-in       *)
(* first-out queue of at most eight bytes that are the consecutive bytes of *)
(* the program from PS:pc on.  Bytes enter one or two at a time, leave one  *)
(* at a time, and a jump empties the queue.                                 *)
EXTENDS V33Types, Sequences

VARIABLES
  valid,   \* FALSE from a change of PS on to the jump that follows it
  ps, pc,  \* where the head of the queue is in the program
  q

queueVars == <<valid, ps, pc, q>>

Capacity == 8

(* The n bytes of the program that come after those in the queue. *)
NextBytes(n) ==
  [i \in 1 .. n |->
     Byte("code", PhysicalAddr([PS |-> ps], "PS", OffsetPlus(pc, Len(q) + i - 1)))]

Init == valid \in BOOLEAN /\ ps \in Nat /\ pc \in Offsets /\ q = <<>>

(* Up to two bytes arrive and at most one is taken, in one step. *)
Advance(fill, take) ==
  /\ valid
  /\ take <= Len(q)
  /\ Len(q) + fill <= Capacity
  /\ q' = SubSeq(q \o NextBytes(fill), take + 1, Len(q) + fill)
  /\ pc' = OffsetPlus(pc, take)
  /\ UNCHANGED <<valid, ps>>

Jump == valid' = TRUE /\ ps' \in Nat /\ pc' \in Offsets /\ q' = <<>>

(* PS has changed and the jump is still to come: nothing is promised. *)
Invalidate == valid' = FALSE /\ ps' \in Nat /\ pc' \in Offsets /\ q' = <<>>

Next == \/ \E fill \in 0 .. 2, take \in 0 .. 1 : Advance(fill, take)
        \/ Jump
        \/ Invalidate

Spec == Init /\ [][Next]_queueVars
=============================================================================
