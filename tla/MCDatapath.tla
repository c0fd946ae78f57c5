---------------------------- MODULE MCDatapath ----------------------------
(* Small instances of DividerSystem and of AluCheck for TLC in one module:  *)
(* the divider and the arithmetic share no state, and a behaviour is of one *)
(* or of the other.                                                         *)
EXTENDS MCDividerSystem

CONSTANT Operands

VARIABLES operation, wide, ta, tb, flags_in, res, after
VARIABLE setting

Check == INSTANCE AluCheck

(* Operands on both sides of every digit, sign and carry boundary; all      *)
(* packed decimal bytes, and unpacked digits beside a byte that counts up   *)
(* and down, for the decimal operations; words and values of mixed bits for *)
(* the fields.                                                              *)
Boundaries == {0, 1, 2, 9, 14, 15, 16, 17, 127, 128, 129, 143, 239, 240, 254, 255,
               256, 4095, 4096, 32767, 32768, 32769, 61440, 65279, 65280, 65534, 65535}

Mixed == {0, 255, \h5A96, \hA569, \hFF00, \hFFFF}

PackedOps    == {"ADJ4A", "ADJ4S", "ADD4S", "SUB4S"}
PackedBytes  == {n \in 0 .. 255 : n % 16 < 10 /\ n < 160}
UnpackedOps  == {"ADJBA", "ADJBS"}
UnpackedWords == {(256 * h) + d : h \in {0, 127, 255}, d \in 0 .. 9}
AllOperands ==
  [op \in {"ADD", "ADDC", "INC", "SUB", "SUBC", "CMP", "DEC", "INS"}
            \cup PackedOps \cup UnpackedOps |->
     CASE op \in PackedOps -> PackedBytes [] op \in UnpackedOps -> UnpackedWords
       [] op = "INS" -> Mixed [] OTHER -> Boundaries]

NoOperation ==
  operation = "NONE" /\ wide = FALSE /\ ta = 0 /\ tb = 0 /\ res = 0
  /\ flags_in = Check!NoFlags /\ after = Check!NoFlags
NoDivisions ==
  DividerInit /\ phase = 1 /\ stage = 0
  /\ div_start = FALSE /\ div_num = 0 /\ div_denom = 1 /\ div_wide = FALSE

checkVars == <<operation, wide, ta, tb, flags_in, res, after>>
allVars   == <<vars, checkVars, setting>>

Dividing(A) == setting = "divide" /\ A /\ UNCHANGED <<checkVars, setting>>
Computing   == setting = "compute" /\ Check!Next /\ UNCHANGED <<vars, setting>>

DatapathSpec ==
  /\ \/ setting = "divide" /\ Init /\ NoOperation
     \/ setting = "compute" /\ Check!Init /\ NoDivisions
  /\ [][Dividing(Next) \/ Computing]_allVars
  /\ WF_allVars(Dividing(Edge)) /\ SF_allVars(Dividing(Edge /\ TakeResult))

(* AluCheck states these of the arithmetic unit, the decimal strings and    *)
(* the bit fields.                                                          *)
Arithmetic     == Check!Arithmetic
DecimalResults == Check!DecimalResults
FieldKept      == Check!FieldKept
===========================================================================
