--------------------------- MODULE MCExecSystem ---------------------------
(* Small instances of ExecSystem for TLC: the sample programs, with the     *)
(* registers they begin with.                                               *)
EXTENDS ExecSystem, SamplePrograms

Programs == 3 .. Len(AllPrograms) - 2
Load0    == Len(AllPrograms) - 1

(* Interrupts twice in each program but Loading: a REP LDM that is          *)
(* interrupted does not load all its elements.                              *)
Interrupted == {Begin(p, b, 1, 2, 0) : p \in Programs \ {Load0}, b \in Both}
Undisturbed == {Begin(Load0, b, 0, 0, 0) : b \in Both}

(* Cut short by a reset: shifts, stack, blocks and exceptions. *)
CutShort == {Begin(p, Low, 1, 1, 1) : p \in {6, 8, 12, 15}}

AllBeginnings  == Interrupted \cup Undisturbed \cup CutShort
LoadBeginnings == {Begin(Load0, b, 1, 1, 0) : b \in Both}
=============================================================================
