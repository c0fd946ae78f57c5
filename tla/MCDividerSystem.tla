------------------------- MODULE MCDividerSystem -------------------------
(* Small instances of DividerSystem for TLC: dividends of four and of eight *)
(* bits, divisors of half as many, and all operands of the narrow one:      *)
(* unsigned as DIVU gives them, signed as DIV does.                         *)
EXTENDS DividerSystem

Unsigned(width) == 0 .. 2^width - 1
Signed(width)   == -(2^(width - 1)) .. 2^(width - 1) - 1

Pairs(dividends, divisors, wide) ==
  {[num |-> n, denom |-> m, wide |-> wide] : n \in dividends, m \in divisors}

NarrowOperations == Pairs(Unsigned(Narrow) \cup Signed(Narrow),
                          Unsigned(Narrow \div 2) \cup Signed(Narrow \div 2), FALSE)
(* The ends of the ranges and both sides of an overflow. *)
WideOperations == Pairs({0, 1, 16, 127, 239, 255, -128, -113, -16},
                        {0, 1, 7, 15, -8, -1}, TRUE)
AllOperations == NarrowOperations \cup WideOperations

(* What may follow another division, on either divider. *)
FewOperations == { [num |-> 7, denom |-> 2, wide |-> FALSE],
                   [num |-> -8, denom |-> -1, wide |-> FALSE],
                   [num |-> 200, denom |-> 0, wide |-> TRUE],
                   [num |-> 200, denom |-> 13, wide |-> TRUE],
                   [num |-> -113, denom |-> 15, wide |-> TRUE] }
=============================================================================
