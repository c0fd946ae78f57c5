----------------------------- MODULE MCDisplay -----------------------------
(* A small instance of Display for TLC: an int of four bits, a long of      *)
(* eight and a buffer of as many characters.                                *)
EXTENDS Display

SmallStrings == [a \in {0, 1, 2} |->
  CASE a = 0 -> <<"(", "n", "u", "l", "l", ")">> [] a = 1 -> <<>> [] OTHER -> <<"a", "b", "c">>]
SmallCharacters == [v \in 0 .. 3 |-> <<NUL, "a", "b", "c">>[v + 1]]

(* Every integer conversion by itself. *)
IntegerPieces ==
  [conv : {"d", "u", "x", "o", "b"}, flags : SUBSET {"#", "0", "-", "+", " "},
   width : {None, 2, 4, 9}, precision : {None, 0, 3}, star : {FALSE},
   length : {<<>>, <<"l">>}, value : {0, 9, 100, 128, 255}]
IntegerCalls == [pieces : [1 .. 1 -> IntegerPieces], tail : {<<>>},
                 to : {"snprintf"}, array : {9}, size : {9}, rest : {<<0, 0>>}]

AllChars == {Letters(FALSE)[i] : i \in 1 .. 16} \cup {Letters(TRUE)[i] : i \in 11 .. 16}
            \cup {"%", "*", ".", "#", "-", "+", Space, "(", ")", "h", "i", "l", "n", "o", "p", "s", "u",
                  "x", "X", "z", "V", "A", "I", "O", "/"}

Piece(conv, f, w, p, star, length, value) ==
  [conv |-> conv, flags |-> f, width |-> w, precision |-> p, star |-> star,
   length |-> length, value |-> value]
Simple(conv, value) == Piece(conv, {}, None, None, FALSE, <<>>, value)
CallTo(to, array, size, tail, pieces) ==
  [pieces |-> pieces, tail |-> tail, to |-> to, array |-> array, size |-> size,
   rest |-> <<0, 0>>]
CallOf(pieces) == CallTo("snprintf", 31, 31, <<>>, pieces)

(* Fields of every kind, given as digits or as arguments, and two of them   *)
(* one after the other.                                                     *)
Fields ==
  { Piece(conv, f, w, p, star, <<>>, v) :
      conv \in {"s", "c"}, f \in {{}, {"-"}}, w \in {None, 4}, p \in {None, 0, 2},
      star \in BOOLEAN, v \in {1, 2} }
StarFields == { Piece("d", {"0"}, w, p, TRUE, <<>>, 5) : w \in {None, -4, 4}, p \in {None, 0, 2} }
Others == { Simple("p", 0), Simple("p", 11), Simple("s", 0), Simple("%", 0), Simple("n", 3),
            Piece("X", {"#", "0"}, 6, None, FALSE, <<"l">>, 171),
            Piece("d", {"+"}, None, None, FALSE, <<"h", "h">>, 7),
            Piece("u", {}, None, None, FALSE, <<"h">>, 9) }
FieldCalls == { CallOf(<<Plain("a"), p, Simple("n", 7), Simple("d", 12)>>) :
                p \in Fields \cup StarFields \cup Others }

(* Buffers of every size, with room behind them; the other functions; more  *)
(* characters than the count can tell apart.                                *)
Wide9 == Piece("d", {}, 9, None, FALSE, <<>>, 7)
SizeCalls ==
  { CallTo("snprintf", n + 2, n, <<>>, <<Plain("a"), Plain("b"), Simple("d", 12), Plain("c")>>) : n \in 0 .. 7 }
  \cup { CallTo("null", 0, 5, <<>>, <<Simple("d", 3)>>), CallTo("sprintf", 31, 0, <<>>, <<Wide9>>),
         CallTo("printf", 0, 0, <<>>, <<Plain("a"), Wide9>>) }
  \cup { CallTo(to, 34, 33, <<>>, [i \in 1 .. n |-> Wide9]) : to \in {"snprintf", "printf"}, n \in {4, 8} }

(* Formats that end within a specifier. *)
Tails == { <<"%">>, <<"%", "-">>, <<"%", "5">>, <<"%", "*">>, <<"%", ".">>, <<"%", ".", "3">>,
           <<"%", ".", "*">>, <<"%", "l">>, <<"%", "l", "l">>, <<"%", "h", "h">>, <<"%", "z">> }
TailCalls == { CallTo("snprintf", 9, 9, t, <<Plain("a")>>) : t \in Tails }

TwoStatuses == {<<0, 0, 0, 0, 0>>, <<1, 2, 13, 4, 15>>}

AllCalls == IntegerCalls \cup FieldCalls \cup SizeCalls \cup TailCalls
=============================================================================
