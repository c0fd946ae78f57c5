---------------------------- MODULE NecDivider ----------------------------
(* The divider (hdl/nec_divider.sv): two unsigned dividers that find one    *)
(* bit of the quotient on each enabled clock edge, for dividends of Narrow  *)
(* and of Wide bits (16 and 32 in the source), started together, and the    *)
(* signs around them.                                                       *)
EXTENDS Integers

CONSTANTS Narrow, Wide

ASSUME DividerAssumption ==
  /\ Narrow \in Nat /\ Narrow > 0 /\ Narrow % 2 = 0
  /\ Wide \in Nat /\ Wide > Narrow /\ Wide % 2 = 0

(* The registers of the two dividers, and those of the execution unit that  *)
(* are their inputs.  A dividend and a divisor have a sign bit of their own *)
(* (33 bits in the source), so they are integers here.                      *)
VARIABLES div_16, div_32, div_start, div_num, div_denom, div_wide

dividerVars == <<div_16, div_32>>

-----------------------------------------------------------------------------
(* 2^n, as a recursive function: something can be proved about it. *)
Pow2[n \in Nat] == IF n = 0 THEN 1 ELSE 2 * Pow2[n - 1]

(* The pair {acc, quo} as one number: acc has one bit more than quo.        *)
Pair(width, n) == n % Pow2[2 * width + 1]
Acc(width, n)  == n \div Pow2[width]
Quo(width, n)  == n % Pow2[width]

(* One step of the long division. *)
Iterate(width, r) ==
  IF Acc(width, r.pair) >= r.b1
  THEN Pair(width, 2 * (r.pair - r.b1 * Pow2[width]) + 1)
  ELSE Pair(width, 2 * r.pair)

(* Mutant of Load: done is only cleared when the first bit is found.        *)
LoadStaleDone(width, r, a, b) ==
  [r EXCEPT !.overflow = FALSE, !.i = 0, !.busy = TRUE,
            !.dbz = FALSE, !.b1 = b, !.pair = 2 * a]

Load(width, r, a, b) ==
  [r EXCEPT !.done = FALSE, !.overflow = FALSE, !.i = 0, !.busy = TRUE,
            !.dbz = FALSE, !.b1 = b, !.pair = 2 * a]

DivideByZero(r) ==
  [r EXCEPT !.done = TRUE, !.overflow = FALSE, !.i = 0, !.busy = FALSE, !.dbz = TRUE]

FinishStuck(width, r) ==   \* mutant: done is not set
  [r EXCEPT !.busy = FALSE, !.pair = Iterate(width, r)]

(* The last bit: the accumulator is one shift ahead of the remainder.       *)
Finish(width, r) ==
  LET last == Iterate(width, r)
      q    == Quo(width, last)
  IN  [r EXCEPT !.busy = FALSE, !.done = TRUE,
                !.overflow = q >= Pow2[width \div 2],
                !.quot = q, !.rem = Acc(width, last) \div 2]

Divu(width, r, a, b) ==
  IF div_start THEN IF b = 0 THEN DivideByZero(r) ELSE Load(width, r, a, b)
  ELSE IF ~r.busy THEN r
  ELSE IF r.i = width - 1 THEN Finish(width, r)
  ELSE [r EXCEPT !.i = @ + 1, !.pair = Iterate(width, r)]

(* A reset leaves the working registers to their own step. *)
DivuReset(width, r, a, b) ==
  [Divu(width, r, a, b) EXCEPT !.busy = FALSE, !.done = FALSE, !.overflow = FALSE,
                               !.dbz = FALSE, !.quot = 0, !.rem = 0]

-----------------------------------------------------------------------------
Negative(n)    == n < 0
Abs(n, width)  == (IF Negative(n) THEN -n ELSE n) % Pow2[width]

DividerEdge ==
  /\ div_16' = Divu(Narrow, div_16, Abs(div_num, Narrow), Abs(div_denom, Narrow))
  /\ div_32' = Divu(Wide, div_32, Abs(div_num, Wide), Abs(div_denom, Wide))

DividerReset ==
  /\ div_16' = DivuReset(Narrow, div_16, Abs(div_num, Narrow), Abs(div_denom, Narrow))
  /\ div_32' = DivuReset(Wide, div_32, Abs(div_num, Wide), Abs(div_denom, Wide))

(* The outputs: signs as for truncation towards zero, cut to Narrow bits.   *)
Selected  == IF div_wide THEN div_32 ELSE div_16
DivDone     == Selected.done
DivOverflow == Selected.overflow
DivDbz      == Selected.dbz

DivQuot == (IF Negative(div_num) # Negative(div_denom) THEN -Selected.quot ELSE Selected.quot)
           % Pow2[Narrow]
DivRem  == (IF Negative(div_num) THEN -Selected.rem ELSE Selected.rem) % Pow2[Narrow]

(* After power-on with reset held. *)
DividerOff == [busy |-> FALSE, done |-> FALSE, overflow |-> FALSE, dbz |-> FALSE,
               b1 |-> 0, pair |-> 0, i |-> 0, quot |-> 0, rem |-> 0]
DividerInit == div_16 = DividerOff /\ div_32 = DividerOff
=============================================================================
