---------------------------- MODULE CommandLoop ----------------------------
(* The test ROM's command loop (testrom/src/main.c) over the link of Comms: *)
(* main polls the link, update_cmd collects a command and its payload and   *)
(* process_cmd carries it out piece by piece, while the host sends whole    *)
(* commands and may end a session and begin the next one at any point.      *)
(* The build of this commit stops at main.c:293, in front of the loop; this *)
(* is the loop it would run without that line and with vblank interrupts,   *)
(* for which each round waits.                                              *)
EXTENDS Comms, Integers

CONSTANTS
  BufferSize,  \* bytes of Cmd.buffer: 32 in the source
  IntMod,      \* values of int and size_t: 2^16 in the source
  OffMod,      \* values of the offset of a far pointer: 2^16
  Para,        \* bytes of a paragraph: 16
  MemSize,     \* bytes of memory
  MaxReplies,  \* bytes a host accepts in a session
  Plans        \* what a host does: [later : for each session the commands it sends,
               \* patient : BOOLEAN, whether it lets the program notice the end of
               \* one session before it opens the next, magic : BOOLEAN, whether
               \* the magic letters are there from the beginning]

ASSUME LoopAssumption ==
  /\ BufferSize \in Nat \ {0, 1} /\ IntMod \in Nat \ {0} /\ OffMod \in Nat \ {0}
  /\ Para \in Nat /\ MemSize \in Nat \ {0}
  /\ Bytes \subseteq 0 .. 255 /\ 0 \in Bytes

VARIABLES
  step,     \* the place in main, update_cmd or process_cmd
  c,        \* active_cmd; is_new is left out, nothing reads it
  hdr,      \* the part of buf[10] that is filled
  ofs,      \* READ_WORDS: the word being sent
  mem,
  plan      \* the host's: also the script of the session last opened, and its bytes

(* What happened in the session. *)
VARIABLES
  clean,    \* it began between two commands
  mem0,     \* memory when it began
  answered  \* commands answered in it

loopVars == <<step, c, hdr, ofs, mem>>
pastVars == <<clean, mem0, answered>>
vars == <<commsVars, loopVars, plan, pastVars>>
-----------------------------------------------------------------------------
Codes == [IDLE |-> 0, WRITE_BYTES |-> 1, WRITE_WORDS |-> 2, READ_BYTES |-> 3,
          READ_WORDS |-> 4, FILL_BYTES |-> 5, FILL_WORDS |-> 6]
HeaderSize == 10

(* Multi-byte fields are little-endian. *)
U16(bytes, first) == bytes[first] + 256 * bytes[first + 1]
U32(bytes, first) == U16(bytes, first) + 65536 * U16(bytes, first + 2)

(* The n-th byte behind a far pointer, a segment and an offset in one       *)
(* number: counting up wraps within the segment.                            *)
FarPlus(far, n) == (far \div OffMod) * OffMod + (((far % OffMod) + n) % OffMod)
Behind(far, n) ==
  LET p == FarPlus(far, n) IN ((p \div OffMod) * Para + (p % OffMod)) % MemSize

(* memcpyb, memcpyw, memsetb and memsetw of util.h: where the bytes wrap    *)
(* onto a cell again the last one stays.                                    *)
Hits(far, bytes, a) == {i \in DOMAIN bytes : Behind(far, i - 1) = a}
Latest(indices) == CHOOSE i \in indices : \A j \in indices : j <= i
Copied(m, far, bytes) ==
  [a \in DOMAIN m |-> IF Hits(far, bytes, a) = {} THEN m[a]
                      ELSE bytes[Latest(Hits(far, bytes, a))]]
Repeated(bytes, n) == [i \in 1 .. n * Len(bytes) |-> bytes[((i - 1) % Len(bytes)) + 1]]
MemAt(m, far, n) == [i \in 1 .. n |-> m[Behind(far, i - 1)]]

AsSize(n) == n % IntMod
AsInt(n)  == LET low == n % IntMod IN IF low >= IntMod \div 2 THEN low - IntMod ELSE low
-----------------------------------------------------------------------------
LoopKeepsPast == UNCHANGED pastVars
LocalStep(next) == step' = next /\ UNCHANGED <<commsVars, plan>>
Least(a, b) == IF a < b THEN a ELSE b

(* main: a session that is found open for the first time begins here.       *)
Poll ==
  /\ step = "poll" /\ CallUpdate /\ step' = "polled"
  /\ UNCHANGED <<c, hdr, ofs, mem, plan>> /\ LoopKeepsPast

Polled ==
  /\ step = "polled" /\ at = "done"
  /\ LocalStep(IF on THEN "shift" ELSE "wait")
  /\ UNCHANGED <<c, hdr, ofs, mem>> /\ LoopKeepsPast

(* update_cmd: what process_cmd consumed leaves the buffer; a command whose *)
(* payload is consumed is answered with its code.                           *)
Shifted ==
  IF c.bytes_consumed = 0 THEN c
  ELSE [c EXCEPT !.buffer = SubSeq(@, c.bytes_consumed + 1, c.bytes_avail),
                 !.bytes_avail = @ - c.bytes_consumed,
                 !.total_bytes_consumed = @ + c.bytes_consumed,
                 !.bytes_consumed = 0]

(* The end of update_cmd: as much payload as there is room for. *)

RemainingAll(k) == k.total_bytes   \* mutant: the payload read before is forgotten

Remaining(k) == k.total_bytes - k.total_bytes_read
Space(k)     == BufferSize - k.bytes_avail
Payload(k) ==
  IF k.total_bytes_read < k.total_bytes /\ k.bytes_avail < BufferSize
  THEN CallRead(Least(Space(k), Remaining(k))) /\ step' = "payload"
  ELSE UNCHANGED commsVars /\ step' = "process"

Shift ==
  /\ step = "shift"
  /\ c' = Shifted
  /\ CASE c'.cmd # Codes.IDLE /\ c'.total_bytes_consumed = c'.total_bytes ->
            CallWrite(<<c'.cmd>>) /\ step' = "answer"
       [] c'.cmd = Codes.IDLE -> CallRead(1) /\ step' = "fetch"
       [] OTHER -> Payload(c')
  /\ UNCHANGED <<hdr, ofs, mem, plan>> /\ LoopKeepsPast

Answer ==
  /\ step = "answer" /\ at = "done"
  /\ c' = [c EXCEPT !.cmd = Codes.IDLE]
  /\ answered' = answered + 1
  /\ CallRead(1) /\ step' = "fetch"
  /\ UNCHANGED <<hdr, ofs, mem, plan, clean, mem0>>

Fetch ==
  /\ step = "fetch" /\ at = "done"
  /\ c' = [c EXCEPT !.cmd = IF buffer = <<>> THEN @ ELSE buffer[1]]
  /\ IF c'.cmd = Codes.IDLE
     THEN UNCHANGED commsVars /\ step' = "process" /\ UNCHANGED hdr
     ELSE CallRead(HeaderSize) /\ step' = "header" /\ hdr' = <<>>
  /\ UNCHANGED <<ofs, mem, plan>> /\ LoopKeepsPast

(* The header is waited for, whatever becomes of the session.  Mutant: when *)
(* a call brings nothing, the session having ended, it begins anew.         *)
KeptOnceOpen(h) == IF buffer = <<>> THEN <<>> ELSE h
Kept(h)         == h

Header ==
  /\ step = "header" /\ at = "done"
  /\ LET h == hdr \o buffer
     IN  IF Len(h) < HeaderSize
         THEN hdr' = Kept(h) /\ CallRead(HeaderSize - Len(hdr')) /\ UNCHANGED <<step, c>>
         ELSE /\ c' = [c EXCEPT !.arg0 = U32(h, 1), !.arg1 = U32(h, 5),
                                !.total_bytes = U16(h, 9),
                                !.total_bytes_read = 0, !.total_bytes_consumed = 0,
                                !.bytes_avail = 0, !.bytes_consumed = 0, !.buffer = <<>>]
              /\ hdr' = <<>> /\ Payload(c')
  /\ UNCHANGED <<ofs, mem, plan>> /\ LoopKeepsPast

GotPayload ==
  /\ step = "payload" /\ at = "done"
  /\ c' = [c EXCEPT !.buffer = @ \o buffer,
                    !.bytes_avail = @ + Len(buffer), !.total_bytes_read = @ + Len(buffer)]
  /\ LocalStep("process")
  /\ UNCHANGED <<hdr, ofs, mem>> /\ LoopKeepsPast

(* process_cmd *)
Consume(n) == c' = [c EXCEPT !.bytes_consumed = n]
Effect(far, bytes) == mem' = Copied(mem, far, bytes) /\ LocalStep("wait")

(* Mutant of WriteBytes: every piece is written where the first belongs.    *)
WriteBytesAtStart ==
  /\ c.cmd = Codes.WRITE_BYTES
  /\ IF c.bytes_avail > 0
     THEN Consume(c.bytes_avail) /\ Effect(c.arg0, c.buffer)
     ELSE LocalStep("wait") /\ UNCHANGED <<c, mem>>

WriteBytes ==
  /\ c.cmd = Codes.WRITE_BYTES
  /\ IF c.bytes_avail > 0
     THEN Consume(c.bytes_avail) /\ Effect(c.arg0 + c.total_bytes_consumed, c.buffer)
     ELSE LocalStep("wait") /\ UNCHANGED <<c, mem>>
WriteWords ==
  /\ c.cmd = Codes.WRITE_WORDS
  /\ LET even == c.bytes_avail - (c.bytes_avail % 2)
     IN  Consume(even) /\ Effect(c.arg0 + c.total_bytes_consumed, SubSeq(c.buffer, 1, even))
FillBytes ==
  /\ c.cmd = Codes.FILL_BYTES
  /\ IF c.bytes_avail > 0
     THEN Consume(c.bytes_avail)
          /\ Effect(c.arg0, Repeated(SubSeq(c.buffer, 1, 1), AsSize(c.arg1)))
     ELSE LocalStep("wait") /\ UNCHANGED <<c, mem>>
FillWords ==
  /\ c.cmd = Codes.FILL_WORDS
  /\ IF c.bytes_avail > 1
     THEN Consume(c.bytes_avail)
          /\ Effect(c.arg0, Repeated(SubSeq(c.buffer, 1, 2), AsSize(c.arg1)))
     ELSE LocalStep("wait") /\ UNCHANGED <<c, mem>>
ReadBytes ==
  /\ c.cmd = Codes.READ_BYTES
  /\ CallWrite(IF AsInt(c.arg1) > 0 THEN MemAt(mem, c.arg0, AsInt(c.arg1)) ELSE <<>>)
  /\ step' = "sent" /\ UNCHANGED <<c, mem, plan>>
NoCommand ==
  /\ c.cmd = Codes.IDLE /\ LocalStep("wait") /\ UNCHANGED <<c, mem>>
OtherCommand ==
  /\ c.cmd \notin {Codes[k] : k \in DOMAIN Codes}
  /\ Consume(c.bytes_avail) /\ LocalStep("wait") /\ UNCHANGED mem

Process ==
  /\ step = "process"
  /\ \/ WriteBytes \/ WriteWords \/ FillBytes \/ FillWords
     \/ ReadBytes \/ NoCommand \/ OtherCommand
  /\ UNCHANGED <<hdr, ofs>> /\ LoopKeepsPast

(* READ_WORDS calls comms_write for one word after the other; addr + 2 * ofs *)
(* is pointer arithmetic within the segment.                                 *)
(* Mutant of WordAt: words are counted as bytes are.                        *)
WordAtByte(n) == MemAt(mem, FarPlus(c.arg0, n), 2)

WordAt(n) == MemAt(mem, FarPlus(c.arg0, 2 * n), 2)
SendWord(n) ==
  IF n < c.arg1
  THEN CallWrite(WordAt(n)) /\ step' = "words" /\ ofs' = n + 1 /\ UNCHANGED plan
  ELSE LocalStep("wait") /\ ofs' = 0
ReadWords ==
  /\ \/ step = "process" /\ c.cmd = Codes.READ_WORDS /\ SendWord(0)
     \/ step = "words" /\ at = "done" /\ SendWord(ofs)
  /\ UNCHANGED <<c, hdr, mem>> /\ LoopKeepsPast

Sent ==
  /\ step = "sent" /\ at = "done" /\ LocalStep("wait")
  /\ UNCHANGED <<c, hdr, ofs, mem>> /\ LoopKeepsPast

(* The display and wait_vblank change nothing here. *)
Wait ==
  /\ step = "wait" /\ LocalStep("poll")
  /\ UNCHANGED <<c, hdr, ofs, mem>> /\ LoopKeepsPast

Inside ==
  /\ Running /\ UNCHANGED <<loopVars, plan>>
  /\ IF on' /\ ~comms_active /\ comms_active'
     THEN /\ clean' = (c.cmd = Codes.IDLE)
          /\ mem0' = mem /\ answered' = 0
     ELSE UNCHANGED pastVars

Target ==
  \/ Inside
  \/ Poll \/ Polled \/ Shift \/ Answer \/ Fetch \/ Header \/ GotPayload
  \/ Process \/ ReadWords \/ Sent \/ Wait
-----------------------------------------------------------------------------
(* The host sends the bytes of its commands. *)
ByteOf(value, weight) == (value \div weight) % 256
TwoBytes(value)  == <<ByteOf(value, 1), ByteOf(value, 256)>>
FourBytes(value) == TwoBytes(value) \o <<ByteOf(value, 65536), ByteOf(value, 16777216)>>
Flat(k) == <<k.cmd>> \o FourBytes(k.arg0) \o FourBytes(k.arg1)
                     \o TwoBytes(Len(k.payload)) \o k.payload
StreamUpTo(commands, n) ==
  LET upTo[i \in 0 .. Len(commands)] ==
        IF i = 0 THEN <<>> ELSE upTo[i - 1] \o Flat(commands[i])
  IN  upTo[n]
Stream(commands) == StreamUpTo(commands, Len(commands))
Unsent == Len(up) < Len(plan.stream)

(* Commands as the program can carry them out: their fields fit the header, *)
(* what they write does not wrap in its segment, what is filled with comes  *)
(* in one piece, and lengths are not negative as an int.                    *)
Proper(k) ==
  /\ Flat(k) \in Seq(Bytes)
  /\ k.arg0 \div 16777216 < 256 /\ k.arg1 \div 16777216 < 256 /\ Len(k.payload) < 65536
  /\ k.cmd \in {Codes.WRITE_BYTES, Codes.WRITE_WORDS} =>
       (k.arg0 % OffMod) + Len(k.payload) <= OffMod
  /\ k.cmd \in {Codes.READ_BYTES, Codes.READ_WORDS} =>
       k.payload = <<>> /\ k.arg1 < IntMod \div 2
  /\ k.cmd = Codes.FILL_BYTES => Len(k.payload) = 1 /\ k.arg1 < IntMod
  /\ k.cmd = Codes.FILL_WORDS => Len(k.payload) = 2 /\ k.arg1 < IntMod

Commands == [cmd : Bytes \ {Codes.IDLE}, arg0 : Nat, arg1 : Nat, payload : Seq(Bytes)]
Scripts  == {s \in Seq(Commands) : \A n \in DOMAIN s : Proper(s[n])}

ASSUME PlansAssumption ==
  \A p \in Plans :
    p.magic \in BOOLEAN /\ p.patient \in BOOLEAN /\ p.later \in Seq(Scripts)

Opens ==
  /\ HostOpen /\ plan.later # <<>> /\ (plan.patient => ~comms_active)
  /\ plan' = [plan EXCEPT !.script = Head(plan.later), !.later = Tail(plan.later),
                          !.stream = Stream(Head(plan.later))]
Overfull == Len(down) > MaxReplies
Closes    == HostClose /\ (plan.later # <<>> \/ Overfull) /\ UNCHANGED plan
Announces == HostPending /\ pending' = Unsent /\ UNCHANGED plan
Loads     == Unsent /\ HostLoad(plan.stream[Len(up) + 1]) /\ UNCHANGED plan
Serves    == (HostMagic \/ HostPost \/ (~Overfull /\ HostAck)) /\ UNCHANGED plan

LoopKeeps == UNCHANGED <<loopVars, pastVars>>
Board == (Opens \/ Closes \/ Announces \/ Loads \/ Serves) /\ LoopKeeps
Next == Target \/ Board

NoCommandYet ==
  [cmd |-> 0, arg0 |-> 0, arg1 |-> 0, total_bytes |-> 0, total_bytes_read |-> 0,
   total_bytes_consumed |-> 0, bytes_avail |-> 0, bytes_consumed |-> 0, buffer |-> <<>>]

Init ==
  /\ CommsInit /\ in_byte = 0
  /\ step = "poll" /\ c = NoCommandYet /\ hdr = <<>> /\ ofs = 0
  /\ mem = [a \in 0 .. MemSize - 1 |-> 0]
  /\ \E p \in Plans :
       /\ plan = [later |-> p.later, patient |-> p.patient, script |-> <<>>, stream |-> <<>>]
       /\ magic = p.magic
  /\ clean = TRUE /\ mem0 = mem /\ answered = 0

Spec == Init /\ [][Next]_vars

(* The program runs; a host whose session is open goes on with it: it       *)
(* announces and posts what it has to send and acknowledges what it saw.    *)
(* Nobody has to open a session, or to close one unless it is flooded.      *)
LiveSpec ==
  /\ Spec /\ WF_vars(Target)
  /\ WF_vars(Announces /\ LoopKeeps) /\ WF_vars(Loads /\ LoopKeeps)
  /\ WF_vars(Serves /\ LoopKeeps) /\ WF_vars(Overfull /\ Closes /\ LoopKeeps)
-----------------------------------------------------------------------------
(* What the commands of a session mean, each carried out in one piece:      *)
(* the memory they leave and the bytes the host is sent.                    *)
Effects(m, k) ==
  CASE k.cmd \in {Codes.WRITE_BYTES, Codes.WRITE_WORDS} -> Copied(m, k.arg0, k.payload)
    [] k.cmd \in {Codes.FILL_BYTES, Codes.FILL_WORDS} ->
         Copied(m, k.arg0, Repeated(k.payload, k.arg1))
    [] OTHER -> m
Reply(m, k) ==
  CASE k.cmd = Codes.READ_BYTES -> MemAt(m, k.arg0, k.arg1) \o <<k.cmd>>
    [] k.cmd = Codes.READ_WORDS -> MemAt(m, k.arg0, 2 * k.arg1) \o <<k.cmd>>
    [] OTHER -> <<k.cmd>>
Outcome(m, commands, n) ==
  LET of[i \in 0 .. Len(commands)] ==
        IF i = 0 THEN [mem |-> m, said |-> <<>>]
        ELSE [mem |-> Effects(of[i - 1].mem, commands[i]),
              said |-> of[i - 1].said \o Reply(of[i - 1].mem, commands[i])]
  IN  of[n]
Meaning(n) == Outcome(mem0, plan.script, n)

Orderly == clean /\ SameSession

(* In a session that begins between two commands the host sees the replies  *)
(* to its commands and nothing else, each followed by its code: main.c:57   *)
(* and 109 to 181, however the payload is cut into pieces.                  *)
RepliesInOrder ==
  Orderly => LET said == Meaning(Len(plan.script)).said
             IN  Len(down) <= Len(said) /\ \A i \in 1 .. Len(down) : down[i] = said[i]

(* When a command is answered memory is what the commands so far make of    *)
(* it, whatever pieces they came in.                                        *)
MemoryDone == Orderly /\ step = "answer" => mem = Meaning(answered + 1).mem

(* As long as the session lasts every command is answered in the end.       *)
Served ==
  Orderly /\ active = 1 ~> active = 0 \/ down = Meaning(Len(plan.script)).said

(* update_cmd waits for a whole header without looking whether the link is  *)
(* up (main.c:71): a header that a session leaves unfinished is finished by *)
(* the next one that has bytes enough, and then the wait is over.           *)
Untaken == Len(plan.stream) - (IF comms_active THEN Len(got) ELSE 0)
HeaderEnds ==
  step = "header" /\ active = 1 /\ Untaken >= HeaderSize - Len(hdr) - Len(buffer)
    ~> step # "header" \/ active = 0 \/ torn

(* A call of the link ends, also when the host goes away in the middle of   *)
(* it, unless it came back before that was noticed: then comms_write waits  *)
(* for a number the new session does not use.                               *)
CallsEnd == at # "done" ~> at = "done" \/ torn
=============================================================================
