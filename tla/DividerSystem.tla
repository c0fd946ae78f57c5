-------------------------- MODULE DividerSystem --------------------------
(* The divider and the part of the execution unit that uses it              *)
(* (hdl/v33.sv, OP_DIV, OP_DIVU and OP_CVTBD): div_start is a register that *)
(* is high for one edge, set on ce_1; the result is taken on the first ce_1 *)
(* after a number of cycles, the opcode's delay, on which done is high.     *)
(* One step is one clock edge on which ce_1 or ce_2 is high, or a reset.    *)
EXTENDS NecDivider

CONSTANTS   \* of [num : Int, denom : Int, wide : BOOLEAN]
  First,       \* the divisions a behaviour begins with
  Operations   \* those that may follow

(* The operands fit the divider they are for: 8-bit divisors, 16-bit        *)
(* dividends and CVTBD's bytes the narrow one, the others the wide one, and *)
(* a sign is within the 33 bits (v33.sv:862 to 866 and 1200 to 1222).       *)
Fits(n, width) == n \in Int /\ -Pow2[width] < n /\ n < Pow2[width]
ASSUME OperandsFit ==
  \A o \in First \cup Operations :
    /\ o.wide \in BOOLEAN
    /\ Fits(o.num, IF o.wide THEN Wide ELSE Narrow)
    /\ Fits(o.denom, IF o.wide THEN Wide ELSE Narrow)

VARIABLES
  phase,
  stage    \* exec_stage: 0 before the start, 1 until done is seen

vars == <<dividerVars, div_start, div_num, div_denom, div_wide, phase, stage>>

HoldOperands == UNCHANGED <<div_num, div_denom, div_wide>>

StartDivision ==
  /\ phase = 1 /\ stage = 0
  /\ \E o \in Operations :
       div_num' = o.num /\ div_denom' = o.denom /\ div_wide' = o.wide
  /\ div_start' = TRUE /\ stage' = 1

(* What follows the division takes a cycle or more. *)
TakeResult ==
  /\ phase = 1 /\ stage = 1 /\ DivDone
  /\ stage' = 0 /\ div_start' = FALSE /\ HoldOperands

(* Another instruction, ce_2, the opcode's delay, or done not yet high. *)
NoDivision == div_start' = FALSE /\ HoldOperands /\ UNCHANGED stage

Edge ==
  /\ DividerEdge
  /\ StartDivision \/ TakeResult \/ NoDivision
  /\ phase' = 3 - phase

(* No reset reaches the operands or div_start. *)
Reset ==
  /\ DividerReset
  /\ stage' = 0 /\ UNCHANGED div_start /\ HoldOperands
  /\ phase' = 3 - phase

Next == Edge \/ Reset

(* The first division has just been started. *)
Init ==
  /\ DividerInit
  /\ phase = 2 /\ stage = 1 /\ div_start = TRUE
  /\ \E o \in First : div_num = o.num /\ div_denom = o.denom /\ div_wide = o.wide

Spec == Init /\ [][Next]_vars

(* The clock runs; the delay of the opcode ends. *)
LiveSpec == Spec /\ WF_vars(Edge) /\ SF_vars(Edge /\ TakeResult)

-----------------------------------------------------------------------------
Width == IF div_wide THEN Wide ELSE Narrow
Magnitude(n) == IF n < 0 THEN -n ELSE n

(* Division that truncates towards zero; the remainder has the sign of the  *)
(* dividend.                                                                *)
Quotient ==
  LET q == Magnitude(div_num) \div Magnitude(div_denom)
  IN  IF Negative(div_num) # Negative(div_denom) THEN -q ELSE q
Remainder == div_num - div_denom * Quotient

(* When the execution unit takes a result it is the one of its own operands *)
(* and not of the division before: done is never still high from that one.  *)
(* An overflow is a quotient whose magnitude does not fit half the width.   *)
ResultOfOperands ==
  phase = 1 /\ stage = 1 /\ DivDone =>
    IF div_denom = 0 THEN DivDbz
    ELSE /\ ~DivDbz
         /\ DivOverflow = (Magnitude(Quotient) >= Pow2[Width \div 2])
         /\ DivQuot = Quotient % Pow2[Narrow] /\ DivRem = Remainder % Pow2[Narrow]

(* Every division that is started is answered, unless a reset ends it. *)
Answered == stage = 1 ~> stage = 0

(* nec_divider.sv:9 and 10 promise "overflow detection" and "signed         *)
(* support", 93 of overflow "result overflowed": then the quotient of a     *)
(* signed division without overflow is a signed number of half the width.   *)
SignedOperation == Negative(div_num) \/ Negative(div_denom)
SignedResultFits ==
  phase = 1 /\ stage = 1 /\ DivDone /\ SignedOperation /\ ~DivDbz /\ ~DivOverflow =>
    Quotient \in -Pow2[Width \div 2 - 1] .. Pow2[Width \div 2 - 1] - 1
=============================================================================
