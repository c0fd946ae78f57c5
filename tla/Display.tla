------------------------------ MODULE Display ------------------------------
(* The display of the test ROM (testrom/src/main.c): main draws a count of  *)
(* vertical blanks, which an interrupt advances, and the registers of the   *)
(* link.  The build of this commit draws the count once, with interrupts    *)
(* off, and stops (main.c:293).  Without that line and with interrupts on   *)
(* the loop behind it draws both after every vblank.  One step reads a word *)
(* of the count, draws a text, or is one of printf's.  The words of a text  *)
(* are one character each.                                                  *)
EXTENDS FormattedText

CONSTANTS
  Calls,        \* what other programs make of printf
  Statuses,     \* the link's registers and numbers, as comms_status prints them
  ColumnCells,  \* cells from one column of the screen to the next: 64
  TmpSize,      \* sizeof(tmp): 64
  HalfMod,      \* values of a word of the count: IntMod in the source
  MaxVblanks    \* bound on the count

ASSUME DisplayAssumption ==
  /\ \A c \in Calls : WellFormed(c)
  /\ \A s \in Statuses : \A i \in 1 .. 5 : s[i] \in Nat
  /\ HalfMod \in Nat \ {0} /\ HalfMod <= IntMod /\ MaxVblanks \in Nat
  /\ TmpSize \in Nat /\ 6 < SizeMod /\ {"V", "A", "I", "O", "/"} \subseteq Chars

(* The texts fit the buffer and the columns, and every number its field: a  *)
(* word of the count, the flag of the link and its numbers of eight bits.   *)
ASSUME ScreenAssumption ==
  /\ ColumnCells \in Nat /\ 5 < ColumnCells
  /\ 15 < TmpSize /\ 15 < MaxSize /\ 6 <= IntegerBuffer /\ HalfMod <= Power(16)[6]
  /\ \A s \in Statuses : s[1] < 16 /\ \A i \in 2 .. 5 : s[i] < 256

VARIABLES
  rom,          \* the place in main, or "none"
  looping,      \* the build without main.c:293 and with interrupts enabled
  vblank_count,
  lowFirst,     \* the order in which the build reads the words of a long
  half, cnt,    \* the word read first; the value of wait_vblank
  vram,         \* the cells drawn since it was cleared: [char, color]
  ports

VARIABLE before   \* the count when wait_vblank was called

romVars == <<rom, looping, lowFirst, half, cnt, vram, ports, before>>
vars    == <<printfVars, call, romVars, vblank_count>>
-----------------------------------------------------------------------------
Low(n)  == n % HalfMod
High(n) == n \div HalfMod

(* vblank_handler; nothing interrupts it.  printf does not look at the      *)
(* count: a vblank during a call shows as one right after it.               *)
VblankHandler ==
  /\ looping /\ rom # "start" /\ Idle /\ vblank_count < MaxVblanks
  /\ vblank_count' = vblank_count + 1
  /\ UNCHANGED <<printfVars, call, romVars>>

MainKeeps == UNCHANGED <<looping, lowFirst, vblank_count>>
NoPrintf  == UNCHANGED <<printfVars, call>>

(* A volatile long is read in two accesses. *)
ReadFirst(here, there) ==
  /\ rom = here /\ rom' = there
  /\ half' = IF lowFirst THEN Low(vblank_count) ELSE High(vblank_count)
  /\ UNCHANGED <<cnt, vram, ports, before>> /\ MainKeeps /\ NoPrintf
Whole == IF lowFirst THEN half + HalfMod * High(vblank_count)
         ELSE Low(vblank_count) + HalfMod * half

Newline == "\n"

(* Mutant of CharactersOf: all of tmp, whatever is in it.                   *)
CharactersAll(array) == [i \in 1 .. Cardinality(DOMAIN array) |-> array[i - 1]]

CharactersOf(array) ==
  LET n == CHOOSE i \in DOMAIN array : array[i] = NUL /\ \A j \in 0 .. i - 1 : array[j] # NUL
  IN  [i \in 1 .. n |-> array[i - 1]]

(* draw_pf_text: a column further for every character, '\n' starts again    *)
(* one column to the right of where the text began.                         *)
CellOf(x, y, s, i) ==
  LET breaks == {j \in 1 .. i - 1 : s[j] = Newline}
      first  == IF breaks = {} THEN 1 ELSE Max(breaks) + 1
  IN  (x + Cardinality(breaks) + i - first) * ColumnCells + y
Drawn(color, x, y, s, cells) ==
  LET shown == {i \in DOMAIN s : s[i] # Newline}
      at    == [i \in shown |-> CellOf(x, y, s, i)]
      drawn == {at[i] : i \in shown}
  IN  [o \in drawn \cup DOMAIN cells |->
         IF o \in drawn THEN [char |-> s[Max({i \in shown : at[i] = o})], color |-> color]
         ELSE cells[o]]
Draw(color, x, y) == vram' = Drawn(color, x, y, CharactersOf(text), vram)

(* pf_enable, pf_set_xy *)
PfEnable(idx, on)  == (144 + 2 * idx) :> (IF on THEN 0 ELSE 128)
PfSetXy(idx, x, y) == (130 + 4 * idx) :> (x % 65536) @@ (128 + 4 * idx) :> (y % 65536)

(* main up to the first text; the palette is left out. *)
StartUp ==
  /\ rom = "start" /\ rom' = "count"
  /\ ports' = (64 :> 19) @@ (66 :> 242) @@ (176 :> 2048) @@ (4 :> 2048)
              @@ PfEnable(0, TRUE) @@ PfEnable(1, FALSE) @@ PfEnable(2, FALSE)
              @@ PfEnable(3, FALSE) @@ PfSetXy(0, -80, -136)
  /\ vram' = Drawn(6, 5, 5, <<"H">>, Blank(0))
  /\ UNCHANGED <<half, cnt, before>> /\ MainKeeps /\ NoPrintf

Plain(c) == [conv |-> "plain", char |-> c]
Hex(w, value) ==
  [conv |-> "X", flags |-> {"0"}, width |-> w, precision |-> None, star |-> FALSE,
   length |-> <<>>, value |-> value]
ToTmp(pieces, rest) ==
  [pieces |-> pieces, tail |-> <<>>, to |-> "snprintf", array |-> TmpSize,
   size |-> TmpSize, rest |-> rest]

(* "VBLANK: %06X" with a long: %X takes its low word.                       *)
PrintCount ==
  /\ rom = "count2" /\ rom' = "drawCount"
  /\ Make(ToTmp(<<Plain("V"), Hex(6, Low(Whole))>>, <<High(Whole)>>))
  /\ UNCHANGED <<half, cnt, vram, ports, before>> /\ MainKeeps

DrawCount ==
  /\ rom = "drawCount" /\ Idle
  /\ rom' = IF 57005 \in DOMAIN ports THEN "status" ELSE "dead"
  /\ Draw(6, 2, 1)
  /\ UNCHANGED <<half, cnt, ports, before>> /\ MainKeeps /\ NoPrintf

(* comms_status: active, both numbers of each direction. *)
PrintStatus ==
  /\ rom = "status" /\ rom' = "drawStatus"
  /\ \E s \in Statuses :
       Make(ToTmp(<<Plain("A"), Hex(1, s[1]), Plain("I"), Hex(2, s[2]), Plain("/"), Hex(2, s[3]),
                    Plain("O"), Hex(2, s[4]), Plain("/"), Hex(2, s[5]), Plain(Space)>>, <<>>))
  /\ UNCHANGED <<half, cnt, vram, ports, before>> /\ MainKeeps

DrawStatus ==
  /\ rom = "drawStatus" /\ Idle /\ rom' = "wait"
  /\ Draw(6, 2, 2) /\ before' = vblank_count
  /\ UNCHANGED <<half, cnt, ports>> /\ MainKeeps /\ NoPrintf

(* The bench takes this for the end.                                        *)
Dead ==
  /\ rom = "dead" /\ rom' = IF looping THEN "count" ELSE "parked"
  /\ ports' = (57005 :> 65535) @@ ports
  /\ UNCHANGED <<half, cnt, vram, before>> /\ MainKeeps /\ NoPrintf
Parked == rom = "parked" /\ UNCHANGED vars

(* wait_vblank.  Mutant: an int takes the count.                             *)
TakeCountInt ==
  /\ rom = "wait2" /\ rom' = "look" /\ cnt' = Low(Whole)
  /\ UNCHANGED <<half, vram, ports, before>> /\ MainKeeps /\ NoPrintf

TakeCount ==
  /\ rom = "wait2" /\ rom' = "look" /\ cnt' = Whole
  /\ UNCHANGED <<half, vram, ports, before>> /\ MainKeeps /\ NoPrintf

(* Mutant of Look: a word is enough to see the count change. *)
LookAtFirst ==
  /\ rom = "look2"
  /\ rom' = IF half = (IF lowFirst THEN Low(cnt) ELSE High(cnt)) THEN "look" ELSE "count"
  /\ UNCHANGED <<half, cnt, vram, ports, before>> /\ MainKeeps /\ NoPrintf

Look ==
  /\ rom = "look2" /\ rom' = IF cnt = Whole THEN "look" ELSE "count"
  /\ UNCHANGED <<half, cnt, vram, ports, before>> /\ MainKeeps /\ NoPrintf

Waiting ==
  \/ ReadFirst("wait", "wait2") \/ TakeCount
  \/ ReadFirst("look", "look2") \/ Look

Main ==
  \/ StartUp \/ PrintCount \/ DrawCount \/ PrintStatus \/ DrawStatus \/ Dead \/ Parked
  \/ ReadFirst("count", "count2") \/ Waiting
  \/ rom # "none" /\ Formatting /\ UNCHANGED <<call, romVars, vblank_count>>

(* Another program that uses printf, making its call again and again. *)
OtherCaller ==
  /\ rom = "none"
  /\ \/ Make(call)
     \/ Formatting /\ UNCHANGED call
  /\ UNCHANGED <<romVars, vblank_count>>

Next == Main \/ VblankHandler \/ OtherCaller

Init ==
  /\ PrintfInit
  /\ \/ rom = "none" /\ looping = FALSE /\ call \in Calls
     \/ rom = "start" /\ looping \in BOOLEAN /\ call = ToTmp(<<>>, <<>>)
  /\ lowFirst \in BOOLEAN /\ (rom = "none" => lowFirst)
  /\ vblank_count = 0 /\ half = 0 /\ cnt = 0 /\ before = 0
  /\ vram = Blank(0) /\ ports = Blank(0)

Spec == Init /\ [][Next]_vars

(* wait_vblank runs, and vertical blanks go on up to the bound.             *)
LiveSpec == Spec /\ WF_vars(Waiting) /\ WF_vars(VblankHandler)
-----------------------------------------------------------------------------
(* wait_vblank returns only when there was a vblank since it was called,    *)
(* though it reads the count in two halves that an interrupt may come       *)
(* between: main.c:229 to 233.                                              *)
WaitsForVblank ==
  [][rom = "look2" /\ rom' = "count" => vblank_count > before]_vars

(* ... and if the count goes on, it returns, whatever the two halves were.  *)
(* The count stands still only at the bound.                                *)
WaitEnds == rom \in {"look", "look2"} /\ cnt # MaxVblanks ~> rom = "count"

(* In every round the two lines of the screen show what was printed, from   *)
(* its first character to its last and nothing of earlier rounds; and the   *)
(* number is the low word of a count that the round could see, though its   *)
(* two words may belong to two counts: main.c:288, 307 and 311.             *)
Line(y) == {o \in DOMAIN vram : o % ColumnCells = y}
Shows(y, s) ==
  /\ Line(y) = {(2 + i - 1) * ColumnCells + y : i \in 1 .. Len(s)}
  /\ \A i \in 1 .. Len(s) : vram[(2 + i - 1) * ColumnCells + y].char = s[i]
Shown ==
  /\ rom = "wait" => Shows(2, put)
  /\ rom \in {"status", "dead"} =>
       /\ Shows(1, put)
       /\ \E n \in before .. vblank_count : put = <<"V">> \o StandardPiece(Hex(6, Low(n)))
=============================================================================
