------------------------- MODULE MCDecodeSystem -------------------------
(* Small instances of DecodeSystem for TLC. *)
EXTENDS DecodeSystem

(* Every instruction by itself, and behind a prefix a memory operand in     *)
(* each default segment and a block instruction.                            *)
Single == [first |-> AnyByte, further |-> {\h8B, \hA4}, second |-> AnyByte,
           lead |-> 1, ops |-> 0, targets |-> {}]

(* One after the other, instructions that differ in what they set and       *)
(* leave: a byte move with an immediate, a block instruction, a repeat      *)
(* prefix, an exchange with its modes, a test with both displacement and    *)
(* immediate, a byte no group knows.                                        *)
Mixture == {\hB0, \hA5, \hF2, \h87, \hF6, \hFE}
Several == [first |-> Mixture, further |-> Mixture, second |-> {\h46, \hF1},
            lead |-> 1, ops |-> 2, targets |-> {13}]

AllStreams == {Single, Several}

(* The bit field instructions. *)
BitFields == { [first |-> {\h0F}, further |-> {}, second |-> {\h31, \h33, \h39} \cup \hC0 .. \hFF,
                lead |-> 0, ops |-> 0, targets |-> {}] }
=============================================================================
