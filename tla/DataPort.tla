---------------------------- MODULE DataPort ----------------------------
(* What the bus control unit promises the execution unit about a data       *)
(* access.  An access is asked for and waits; when it begins, its segment   *)
(* register says, once and for the whole access, where its bytes are, and   *)
(* no register that changes later moves them.  Then each byte moves exactly *)
(* once, between its own cell of the memory or I/O space and its own half   *)
(* of the word, and no other cell changes.  The next access is not taken on *)
(* before the last byte has moved.                                          *)
EXTENDS V33Types

CONSTANTS
  Requests,  \* the accesses
  Resets     \* whether a reset may come

VARIABLES
  asked,   \* the access that waits, if any
  todo,    \* the transfers that have still to happen of the one that began
  store,   \* the cells
  sregs    \* the segment registers, which others change at any time

portVars == <<asked, todo, store>>

(* A transfer is [cell, write, byte]; a read changes no cell. *)
Transfers(r) ==
  LET first == IF r.io \/ r.zero_seg THEN r.addr
               ELSE PhysicalAddr(sregs, r.sreg, r.addr)
      Half(n) == [cell |-> <<IF r.io THEN "io" ELSE "mem", first + n>>,
                  write |-> r.write, byte |-> r.dout[n + 1]]
  IN  {Half(n) : n \in IF r.wide THEN {0, 1} ELSE {0}}

After(moved) ==
  [c \in DOMAIN store |->
     IF \E t \in moved : t.write /\ t.cell = c
     THEN (CHOOSE t \in moved : t.write /\ t.cell = c).byte
     ELSE store[c]]

Init == asked = {} /\ todo = {}

Issued == \E r \in Requests : asked' = {r}

Issue == asked = {} /\ todo = {} /\ Issued /\ UNCHANGED <<todo, store>>

Begin == \E r \in asked :
  asked' = {} /\ todo' = Transfers(r) /\ UNCHANGED store

Move(moved) == moved \subseteq todo /\ store' = After(moved)

(* One bus cycle; after the last one the next access may be asked for at    *)
(* once.                                                                    *)
Transfer == \E moved \in SUBSET todo :
  /\ moved # {}
  /\ Move(moved)
  /\ todo' = todo \ moved
  /\ \/ UNCHANGED asked
     \/ moved = todo /\ Issued

(* A reset drops the access, perhaps in the middle of a bus cycle. *)
Drop == /\ Resets
        /\ asked' = {} /\ todo' = {}
        /\ \E moved \in SUBSET todo : Move(moved)

Next == Issue \/ Begin \/ Transfer \/ Drop

Spec == Init /\ [][Next]_portVars
=============================================================================
