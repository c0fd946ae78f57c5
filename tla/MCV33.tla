------------------------------- MODULE MCV33 -------------------------------
(* Small instances of V33 for TLC: sample programs.                         *)
EXTENDS V33, SamplePrograms

(* Words at odd addresses, on the stack and off it. *)
Odd0 == [Low EXCEPT !.regs.SP = \h0801, !.regs.BW = \h0101,
                    !.regs.IX = \h0201, !.regs.IY = \h0301]
AllBeginnings ==
  {Begin(p, Low, 1, 0, 0) : p \in {3, 4, 5, 6, 7, 11, 16, 17, 19}} \cup
  {Begin(p, Odd0, 1, 0, 0) : p \in {9, 13, 14, 15}} \cup
  {Begin(p, Odd0, 1, 1, 0) : p \in {8, 12, 18}} \cup
  {Begin(12, Odd0, 1, 0, 1)}
=============================================================================
