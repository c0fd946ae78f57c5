--------------------------- MODULE MCCommandLoop ---------------------------
(* Small instances of CommandLoop for TLC: a buffer of two bytes, so that   *)
(* payloads come in pieces, and sequence numbers that wrap every few bytes. *)
EXTENDS CommandLoop

Command(code, arg0, arg1, payload) ==
  [cmd |-> code, arg0 |-> arg0, arg1 |-> arg1, payload |-> payload]

PlanOf(patient, sessions) == [later |-> sessions, patient |-> patient, magic |-> patient]

Store == Command(1, 1, 0, <<5, 6, 7>>)
Words == Command(2, 0, 0, <<4, 3, 2, 1>>)
Back  == Command(3, 1, 3, <<>>)
BackW == Command(4, 0, 2, <<>>)
Fill  == Command(5, 2, 2, <<8>>)
FillW == Command(6, 0, 2, <<8, 9>>)
Odd   == Command(7, 0, 0, <<1>>)

Short == Command(5, 3, 1, <<8>>)

AllPlans ==
  { PlanOf(TRUE, <<<<Store, Back>>, <<Fill, BackW>>>>),
    PlanOf(TRUE, <<<<Words, FillW, BackW>>>>),
    PlanOf(TRUE, <<<<Back>>, <<Odd, Short>>>>),
    PlanOf(FALSE, <<<<Short>>, <<Short>>>>) }
=============================================================================
