--------------------------- MODULE OutputGadget ---------------------------
(* Where the characters of printf go (testrom/src/printf/printf.c:300 to    *)
(* 396): the gadget counts all of them and hands those below its limit to   *)
(* a function or puts them into the caller's buffer, which is terminated    *)
(* when the formatting is over.  A step is one character.                   *)
EXTENDS Integers, Sequences

CONSTANTS
  SizeMod,   \* values of printf_size_t: 2^16 in the source
  MaxSize,   \* INT_MAX: 2^15 - 1
  MaxArray,  \* cells of the largest array
  Chars, NUL, Unwritten

ASSUME SizeAssumption == /\ SizeMod \in Nat /\ MaxSize \in Nat /\ MaxSize < SizeMod
                         /\ MaxArray \in Nat
                         /\ NUL # Unwritten /\ Unwritten \notin Chars

VARIABLES
  function, buffer,   \* whether the gadget has one
  pos, max_chars,
  text,     \* the caller's array, from 0
  handed,   \* the characters given to the function
  put,      \* all characters put since the gadget was made
  open      \* the formatting is not over

gadgetVars == <<function, buffer, pos, max_chars, text, handed, put, open>>

Positions == 0 .. SizeMod - 1
-----------------------------------------------------------------------------
(* discarding_gadget, buffer_gadget and function_gadget.  The size is what  *)
(* the caller says, the array what it has.                                  *)
Opening(f, b, limit, array) ==
  /\ ~open /\ open' = TRUE
  /\ function' = f /\ buffer' = b /\ pos' = 0 /\ max_chars' = limit
  /\ text' = array /\ handed' = <<>> /\ put' = <<>>

Blank(n) == [i \in 0 .. n - 1 |-> Unwritten]
BufferGadget(size, array) ==
  Opening(FALSE, TRUE, IF size > MaxSize THEN MaxSize ELSE size, array)
NoBufferGadget == Opening(FALSE, FALSE, 0, Blank(0))
FunctionGadget == Opening(TRUE, FALSE, MaxSize, Blank(0))

(* Mutant of PutChar: the place for the NUL is used as well.                *)
PutCharBehind(c) ==
  /\ open
  /\ pos' = (IF pos + 1 = SizeMod THEN 0 ELSE pos + 1)
  /\ put' = Append(put, c)
  /\ handed' = IF pos <= max_chars /\ function THEN Append(handed, c) ELSE handed
  /\ text' = IF pos <= max_chars /\ ~function THEN [text EXCEPT ![pos] = c] ELSE text
  /\ UNCHANGED <<function, buffer, max_chars, open>>

(* putchar_via_gadget *)
PutChar(c) ==
  /\ open
  /\ pos' = (IF pos + 1 = SizeMod THEN 0 ELSE pos + 1)
  /\ put' = Append(put, c)
  /\ handed' = IF pos < max_chars /\ function THEN Append(handed, c) ELSE handed
  /\ text' = IF pos < max_chars /\ ~function THEN [text EXCEPT ![pos] = c] ELSE text
  /\ UNCHANGED <<function, buffer, max_chars, open>>

(* Mutant of LastPlace: the character counted last is the one to give way.  *)
LastPlaceLate == IF pos <= max_chars THEN pos ELSE max_chars

LastPlace == IF pos < max_chars THEN pos ELSE max_chars - 1

(* append_termination_with_gadget *)
Terminate ==
  /\ open /\ open' = FALSE
  /\ text' = IF function \/ max_chars = 0 \/ ~buffer THEN text
             ELSE [text EXCEPT ![LastPlace] = NUL]
  /\ UNCHANGED <<function, buffer, pos, max_chars, handed, put>>

GadgetNext ==
  \/ ~open /\ \E n \in 0 .. MaxArray : \E size \in 0 .. n : BufferGadget(size, Blank(n))
  \/ NoBufferGadget \/ FunctionGadget
  \/ \E c \in Chars \cup {NUL} : PutChar(c)
  \/ Terminate

GadgetInit ==
  /\ function = FALSE /\ buffer = FALSE /\ pos = 0 /\ max_chars = 0
  /\ text = Blank(0) /\ handed = <<>> /\ put = <<>> /\ open = FALSE

GadgetSpec == GadgetInit /\ [][GadgetNext]_gadgetVars
-----------------------------------------------------------------------------
GadgetTypeOK ==
  /\ function \in BOOLEAN /\ buffer \in BOOLEAN /\ open \in BOOLEAN
  /\ pos \in Positions /\ max_chars \in 0 .. MaxSize
  /\ \E n \in 0 .. MaxArray : DOMAIN text = 0 .. n - 1 /\ (buffer => max_chars <= n)
  /\ text \in [DOMAIN text -> Chars \cup {NUL, Unwritten}]
  /\ put \in Seq(Chars \cup {NUL}) /\ handed \in Seq(Chars \cup {NUL})

(* Nothing is written at or behind the size the caller gave, however long   *)
(* the text is: printf.c:327.                                               *)
WithinSize == \A i \in DOMAIN text : i >= max_chars => text[i] = Unwritten

(* While fewer characters were put than the count can tell apart, a buffer  *)
(* holds those that have room for the NUL behind them, and afterwards the   *)
(* NUL follows them at once; a function was handed all of them.             *)
Counted == Len(put) < SizeMod
Room    == IF Len(put) < max_chars THEN Len(put) ELSE max_chars - 1
Terminated ==
  /\ Counted /\ buffer /\ max_chars > 0 =>
       /\ \A i \in 0 .. Room - 1 : text[i] = put[i + 1]
       /\ ~open => text[Room] = NUL
  /\ function /\ Len(put) <= MaxSize => handed = put
=============================================================================
