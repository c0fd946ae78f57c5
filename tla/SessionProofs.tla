---------------------------- MODULE SessionProofs ----------------------------
(* The sessions of the command loop, for all commands, all memories and all *)
(* ways their bytes, the program's reads and the host's closing and opening *)
(* interleave: what the host is told and what memory is left with.          *)
EXTENDS CommandLoopProofs

(* Where the loop stands, whatever the session is: which call is under way, *)
(* and whether a command is in the program's hands.                         *)
ReadSteps  == {"fetch", "header", "payload"}
WriteSteps == {"answer", "sent", "words"}
InCall ==
  /\ step = "polled" => fn = "update"
  /\ step \in ReadSteps => fn = "read"
  /\ step \in WriteSteps => fn = "write"
  /\ step \notin Calling => at = "done"
  /\ on = comms_active
Room ==
  /\ step = "fetch" => maxlen = 1
  /\ step = "header" => maxlen = HeaderSize - Len(hdr)
  /\ step = "payload" => c.total_bytes_read + maxlen <= c.total_bytes
Busy ==
  /\ step = "fetch" => c.cmd = Codes.IDLE
  /\ step \in {"header", "payload", "answer", "sent", "words"} => c.cmd # Codes.IDLE
  /\ step \in {"payload", "process", "answer"} /\ c.cmd # Codes.IDLE => c.bytes_consumed = 0
  /\ step = "answer" => c.total_bytes_consumed = c.total_bytes

(* The bytes a read call has taken are the last that were taken. *)
Bought ==
  fn = "read" =>
    /\ at = "update" => buffer = <<>>
    /\ Len(buffer) <= maxlen
    /\ Reading => Len(buffer) < maxlen
    /\ at # "update" => /\ Len(buffer) <= Len(got)
                        /\ \A i \in 1 .. Len(buffer) : got[Len(got) - Len(buffer) + i] = buffer[i]

(* The host posts what it has to send. *)
Streamed ==
  /\ Begins(up, plan.stream)
  /\ loaded => Len(up) < Len(plan.stream) /\ in_byte = plan.stream[Len(up) + 1]

(* The command in hand, and what the ones before it left. *)
This    == plan.script[answered + 1]
Base    == Len(StreamUpTo(plan.script, answered))
Past    == Meaning(answered)
Replies == Reply(Past.mem, This)
Final   == Meaning(Len(plan.script)).said

(* A command is held from its header on until it is answered. *)
Holding == c.cmd # Codes.IDLE /\ step # "header"
Done    == c.total_bytes_consumed + c.bytes_consumed

(* How many bytes of the session were taken. *)
Counted ==
  /\ answered <= Len(plan.script)
  /\ step = "fetch" => Len(got) = Base + Len(buffer)
  /\ step = "header" => Len(got) = Base + 1 + Len(hdr) + Len(buffer)
  /\ Holding => Len(got) = Base + 11 + c.total_bytes_read
                             + (IF step = "payload" THEN Len(buffer) ELSE 0)
  /\ ~Holding /\ step \notin {"fetch", "header"} => Len(got) = Base

HeaderRead ==
  step = "header" =>
    /\ answered < Len(plan.script) /\ c.cmd = This.cmd
    /\ \A i \in 1 .. Len(hdr) : hdr[i] = plan.stream[Base + 1 + i]
Current ==
  Holding =>
    /\ answered < Len(plan.script)
    /\ c.cmd = This.cmd /\ c.arg0 = This.arg0 /\ c.arg1 = This.arg1
    /\ c.total_bytes = Len(This.payload)
    /\ c.total_bytes_read = c.total_bytes_consumed + c.bytes_avail
    /\ c.total_bytes_read <= c.total_bytes
    /\ \A i \in 1 .. c.bytes_avail : c.buffer[i] = This.payload[c.total_bytes_consumed + i]
Carrying ==
  /\ ~Holding => mem = Past.mem
  /\ Holding => /\ mem = Partial(Past.mem, This, Done)
                /\ c.cmd \in Fills => Done \in {0, c.total_bytes}

(* How many bytes of the reply are sent, and what the call under way sends. *)
DataLen == Len(Replies) - 1
Told ==
  IF step = "answer" THEN DataLen + Issued
  ELSE IF step = "sent" THEN Issued
  ELSE IF step = "words" THEN 2 * (ofs - 1) + Issued
  ELSE IF Holding /\ step \notin {"payload", "process"} THEN DataLen ELSE 0
Offers(first) ==
  \A j \in 1 .. Len(data) : first + j <= Len(Replies) /\ Replies[first + j] = data[j]
Offered ==
  /\ step = "answer" => Len(data) = 1 /\ Offers(DataLen)
  /\ step = "sent" => Len(data) = DataLen /\ c.cmd = Codes.READ_BYTES /\ Offers(0)
  /\ step = "words" => /\ Len(data) = 2 /\ ofs \in 1 .. c.arg1 /\ c.cmd = Codes.READ_WORDS
                       /\ Offers(2 * (ofs - 1))
Heard ==
  /\ Len(down) <= Len(Past.said) + Told
  /\ active = 1 => Len(down) = Len(Past.said) + Told
  /\ Begins(down, Final)

Plain == InCall /\ Room /\ Busy /\ Bought /\ Streamed
Straight == Counted /\ HeaderRead /\ Current /\ Carrying /\ Offered /\ Heard
LoopInv == Plain /\ (Orderly => Straight)

-----------------------------------------------------------------------------
(* What is sent in reply to READ_BYTES and READ_WORDS. *)
LEMMA ReadData ==
  ASSUME NEW m \in Memory, NEW k \in Commands, Proper(k), k.cmd = Codes.READ_BYTES,
         NEW d, d = IF AsInt(k.arg1) > 0 THEN MemAt(m, k.arg0, AsInt(k.arg1)) ELSE <<>>
  PROVE  /\ d \in Seq(Bytes) /\ Len(d) = Len(Reply(m, k)) - 1
         /\ \A j \in 1 .. Len(d) : Reply(m, k)[j] = d[j]
<1> DEFINE n == k.arg1
           q == MemAt(m, k.arg0, n)
           e == <<k.cmd>>
<1>1. k.arg0 \in Nat /\ n \in Nat /\ k.cmd \in Bytes BY DEF Commands
<1>2. n < IntMod \div 2 BY DEF Proper
<1> HIDE DEF n
<1>3. AsInt(n) = n
  <2>1. n \in 0 .. IntMod - 1 BY <1>1, <1>2, LoopAssumption
  <2>2. n % IntMod = n BY <2>1, LoopAssumption, Within
  <2>3. ~(n >= IntMod \div 2) BY <1>1, <1>2, LoopAssumption
  <2> QED BY <2>2, <2>3, Zenon DEF AsInt
<1>4. q \in Seq(Bytes) /\ Len(q) = n BY <1>1, MemAtType
<1>5. d = q
  <2>1. CASE n > 0
    <3>1. d = MemAt(m, k.arg0, AsInt(n)) BY <1>3, <2>1 DEF n
    <3> QED BY <1>3, <3>1
  <2>2. CASE ~(n > 0)
    <3>1. n = 0 BY <1>1, <2>2
    <3>2. d = <<>> BY <1>3, <2>2 DEF n
    <3> HIDE DEF q
    <3>3. q = <<>> BY <1>4, <3>1
    <3> QED BY <3>2, <3>3
  <2> QED BY <2>1, <2>2
<1>6. e \in Seq(Bytes) /\ Len(e) = 1 BY <1>1
<1>7. Reply(m, k) = q \o e
  <2>1. Codes.READ_BYTES # Codes.READ_WORDS BY CodesAre
  <2> QED BY <2>1, SMT DEF Reply, n
<1> DEFINE r == Reply(m, k)
<1> HIDE DEF q, e, r
<1>8. Joins(r, q, e) BY <1>4, <1>6, <1>7, Joined DEF r
<1>9. Len(d) = Len(r) - 1 /\ \A j \in 1 .. Len(d) : r[j] = d[j]
  BY <1>1, <1>4, <1>5, <1>6, <1>8 DEF Joins
<1> QED BY <1>4, <1>5, <1>9 DEF r

LEMMA WordData ==
  ASSUME NEW m \in Memory, NEW k \in Commands, k.cmd = Codes.READ_WORDS,
         NEW x \in Nat, x < k.arg1, NEW d, d = MemAt(m, FarPlus(k.arg0, 2 * x), 2)
  PROVE  /\ d \in Seq(Bytes) /\ Len(d) = 2 /\ 2 * x + 2 <= Len(Reply(m, k)) - 1
         /\ \A j \in 1 .. Len(d) : Reply(m, k)[2 * x + j] = d[j]
<1> DEFINE n == 2 * k.arg1
           y == 2 * x
           a == k.arg0
           b == FarPlus(a, y)
           q == MemAt(m, a, n)
           e == <<k.cmd>>
           r == Reply(m, k)
           two == 2
<1>1. a \in Nat /\ n \in Nat /\ y \in Nat /\ k.cmd \in Bytes /\ y + 2 <= n /\ two \in Nat /\ two = 2
  BY DEF Commands
<1>2. r = q \o e
  <2>1. Codes.READ_BYTES # Codes.READ_WORDS BY CodesAre
  <2> QED BY <2>1, SMT DEF Reply
<1>3. e \in Seq(Bytes) /\ Len(e) = 1 BY <1>1
<1>4. d = MemAt(m, b, two) OBVIOUS
<1> HIDE DEF n, y, a, e, r, two
<1>5. b \in Nat BY <1>1, FarPlusType
<1> HIDE DEF b
<1>6. d \in Seq(Bytes) /\ Len(d) = two
  <2>1. MemAt(m, b, two) \in Seq(Bytes) /\ Len(MemAt(m, b, two)) = two BY <1>1, <1>5, MemAtType, ZenonT(40)
  <2> QED BY <1>4, <2>1, Zenon
<1>7. q \in Seq(Bytes) /\ Len(q) = n BY <1>1, MemAtType
<1>8. ASSUME NEW j \in 1 .. two PROVE q[y + j] = d[j]
  <2>1. j - 1 \in Nat /\ y + j \in 1 .. n /\ (y + j) - 1 = y + (j - 1) BY <1>1
  <2>2. d[j] = m[Behind(b, j - 1)] BY <1>4 DEF MemAt
  <2>3. q[y + j] = m[Behind(a, (y + j) - 1)] BY <2>1 DEF MemAt
  <2>4. Behind(b, j - 1) = Behind(a, y + (j - 1)) BY <1>1, <2>1, BehindFar DEF b
  <2> QED BY <2>1, <2>2, <2>3, <2>4
<1> HIDE DEF q
<1>9. Joins(r, q, e) BY <1>2, <1>3, <1>7, Joined
<1>10. Len(r) = n + 1 /\ \A j \in 1 .. n : r[j] = q[j] BY <1>1, <1>3, <1>7, <1>9 DEF Joins
<1>11. ASSUME NEW j \in 1 .. two PROVE r[y + j] = d[j]
  <2>1. y + j \in 1 .. n BY <1>1
  <2> QED BY <1>8, <1>10, <2>1
<1>12. y + 2 <= Len(r) - 1 BY <1>1, <1>10
<1> QED BY <1>1, <1>6, <1>11, <1>12 DEF r, y, two

(* The session so far. *)
LEMMA SessionIs ==
  ASSUME LoopTypeOK, answered <= Len(plan.script)
  PROVE  /\ plan.script \in Scripts /\ mem0 \in Memory /\ answered \in 0 .. Len(plan.script)
         /\ Past \in Outcomes /\ Past.mem \in Memory /\ Past.said \in Seq(Bytes)
         /\ Final \in Seq(Bytes) /\ Begins(Past.said, Final) /\ Base \in Nat
         /\ plan.stream \in Seq(Bytes)
<1>1. plan.script \in Scripts /\ mem0 \in Memory /\ answered \in Nat /\ plan.stream \in Seq(Bytes)
  BY DEF LoopTypeOK, PlanTypeOK
<1> DEFINE s == plan.script
           m == mem0
           n == answered
<1>2. s \in Scripts /\ m \in Memory /\ n \in 0 .. Len(s) /\ Len(s) \in 0 .. Len(s)
  <2>1. s \in Seq(Commands) BY <1>1 DEF Scripts
  <2> QED BY <1>1, <2>1
<1>3. Past = Outcome(m, s, n) /\ Final = Outcome(m, s, Len(s)).said /\ Base = Len(StreamUpTo(s, n))
  BY Zenon DEF Past, Final, Base, Meaning
<1> HIDE DEF s, m, n
<1>4. Outcome(m, s, n) \in Outcomes /\ Outcome(m, s, Len(s)) \in Outcomes BY <1>2, OutcomeIs
<1>5. Begins(Past.said, Final) BY <1>2, <1>3, SaidGrows
<1>6. StreamUpTo(s, n) \in Seq(Bytes) BY <1>2, StreamIs
<1>7. Base \in Nat BY <1>3, <1>6
<1>8. Past.mem \in Memory /\ Past.said \in Seq(Bytes) /\ Final \in Seq(Bytes) BY <1>3, <1>4 DEF Outcomes
<1>9. Past \in Outcomes BY <1>3, <1>4
<1> QED BY <1>1, <1>2, <1>5, <1>7, <1>8, <1>9 DEF n, s

(* The command in hand. *)
LEMMA ThisIs ==
  ASSUME LoopTypeOK, answered < Len(plan.script)
  PROVE  /\ This \in Commands /\ Proper(This) /\ Replies \in Seq(Bytes) /\ DataLen \in Nat
         /\ Replies[DataLen + 1] = This.cmd
         /\ Base \in Nat /\ Past.mem \in Memory /\ Past.said \in Seq(Bytes)
         /\ Len(Past.said) + Len(Replies) <= Len(Final)
         /\ \A j \in 1 .. Len(Replies) : Final[Len(Past.said) + j] = Replies[j]
         /\ Base + Len(Flat(This)) <= Len(plan.stream)
         /\ Len(Flat(This)) = 11 + Len(This.payload)
         /\ \A i \in 1 .. Len(Flat(This)) : plan.stream[Base + i] = Flat(This)[i]
         /\ Len(StreamUpTo(plan.script, answered + 1)) = Base + 11 + Len(This.payload)
         /\ Meaning(answered + 1) = Then(Past, This)
         /\ Len(Meaning(answered + 1).said) = Len(Past.said) + Len(Replies)
<1> DEFINE s == plan.script
           m == mem0
           n == answered
           b == Base
           k == This
           o == Past
           r == Replies
           z == Final
<1>1. /\ s \in Scripts /\ m \in Memory /\ n \in Nat /\ plan.stream = Stream(s)
      /\ plan.stream \in Seq(Bytes)
  BY DEF LoopTypeOK, PlanTypeOK
<1>2. n \in 0 .. Len(s) - 1
  <2>1. s \in Seq(Commands) BY <1>1 DEF Scripts
  <2> QED BY <1>1, <2>1
<1>3. /\ b = Len(StreamUpTo(s, n)) /\ k = s[n + 1] /\ o = Outcome(m, s, n)
      /\ r = Reply(o.mem, k) /\ z = Outcome(m, s, Len(s)).said
      /\ Meaning(n + 1) = Outcome(m, s, n + 1)
  BY Zenon DEF Base, This, Past, Replies, Final, Meaning
<1> HIDE DEF s, m, n, b, k, o, r, z
<1>4. Sends(s, n, b, k) BY <1>1, <1>2, <1>3, StreamPiece
<1>5. Says(o, k, r, Outcome(m, s, n + 1), z) BY <1>1, <1>2, <1>3, SaidPiece, Zenon
<1>6. o.mem \in Memory /\ o.said \in Seq(Bytes) BY <1>5 DEF Outcomes, Says
<1>7. Len(Flat(k)) = 11 + Len(k.payload) BY <1>4, FlatIs DEF Sends
<1>8. DataLen = Len(r) - 1 /\ r[Len(r)] = k.cmd /\ Len(r) \in Nat \ {0}
  <2>1. DataLen = Len(r) - 1 BY DEF DataLen, r
  <2>2. r[Len(r)] = k.cmd BY <1>3, <1>4, <1>6, ReplyType DEF Sends
  <2>3. k.arg1 \in Nat BY <1>4 DEF Commands, Sends
  <2>4. Len(r) = 1 \/ Len(r) = k.arg1 + 1 \/ Len(r) = 2 * k.arg1 + 1
    BY <1>3, <1>4, <1>6, ReplyType DEF Sends
  <2>5. Len(r) \in Nat \ {0}
    <3> DEFINE l == Len(r)
               g == k.arg1
    <3>1. g \in Nat /\ (l = 1 \/ l = g + 1 \/ l = 2 * g + 1) BY <2>3, <2>4
    <3> HIDE DEF l, g
    <3>2. l \in Nat \ {0} BY <3>1
    <3> QED BY <3>2 DEF l
  <2> QED BY <2>1, <2>2, <2>5
<1>9. DataLen \in Nat /\ r[DataLen + 1] = k.cmd
  <2>1. (Len(r) - 1) + 1 = Len(r) /\ Len(r) - 1 \in Nat BY <1>8
  <2> QED BY <1>8, <2>1
<1>10. Len(StreamUpTo(s, n + 1)) = b + 11 + Len(k.payload)
  <2>1. Len(k.payload) \in Nat BY <1>4 DEF Commands, Sends
  <2> DEFINE q == Len(Flat(k))
             w == Len(StreamUpTo(s, n + 1))
             x == Len(k.payload)
  <2>2. w = b + q /\ q = 11 + x /\ b \in Nat /\ x \in Nat BY <1>4, <1>7, <2>1 DEF Sends
  <2> HIDE DEF q, w, x
  <2>3. w = b + 11 + x BY <2>2
  <2> QED BY <2>3 DEF w, x
<1> QED BY <1>1, <1>3, <1>4, <1>5, <1>6, <1>7, <1>9, <1>10 DEF s, m, n, b, k, o, r, z, Sends, Says

-----------------------------------------------------------------------------
(* What the invariant says of the loop does not change with the link alone. *)
Standing == <<plan, answered, mem0>>
LEMMA Stands ==
  ASSUME UNCHANGED Standing
  PROVE  /\ This' = This /\ Base' = Base /\ Past' = Past /\ Replies' = Replies
         /\ Final' = Final /\ DataLen' = DataLen
BY DEF Standing, This, Base, Past, Replies, Final, DataLen, Meaning

LEMMA StraightKept ==
  ASSUME Straight, UNCHANGED <<loopVars, plan, answered, mem0, got, buffer, data, down>>,
         Issued' = Issued, active' = 1 => active = 1
  PROVE  Straight'
<1>1. UNCHANGED Standing BY DEF Standing
<1> USE <1>1, Stands
<1>2. UNCHANGED <<step, c, hdr, ofs, mem>> BY DEF loopVars
<1>3. Holding' = Holding /\ Done' = Done BY <1>2 DEF Holding, Done
<1>4. Counted' BY <1>2, <1>3 DEF Straight, Counted
<1>5. HeaderRead' BY <1>2 DEF Straight, HeaderRead
<1>6. Current' BY <1>2, <1>3 DEF Straight, Current
<1>7. Carrying' BY <1>2, <1>3 DEF Straight, Carrying
<1>8. Offered'
  <2>1. \A first : Offers(first)' = Offers(first) BY DEF Offers
  <2> QED BY <1>2, <2>1 DEF Straight, Offered, Offers
<1>9. Heard'
  <2>1. Told' = Told BY <1>2, <1>3 DEF Told
  <2> QED BY <2>1 DEF Straight, Heard
<1> QED BY <1>4, <1>5, <1>6, <1>7, <1>8, <1>9 DEF Straight

(* A step of the host. *)
LEMMA BoardHolds == ASSUME LoopTypeOK, LinkInv, LoopInv, Board PROVE LoopInv'
<1>1. UNCHANGED <<step, c, hdr, ofs, mem, clean, mem0, answered>>
  BY DEF Board, LoopKeeps, loopVars, pastVars
<1>2. UNCHANGED <<statics, fn, at, on, locals, got>>
  BY DEF Board, Opens, Closes, Announces, Loads, Serves, HostOpen, HostClose, HostPending,
         HostLoad, HostMagic, HostPost, HostAck, TargetKeeps
<1>3. UNCHANGED <<comms_active, fn, at, on, buffer, maxlen, data, sent, got>>
  BY <1>2 DEF statics, locals
<1>4. InCall' /\ Room' /\ Busy' BY <1>1, <1>3 DEF LoopInv, Plain, InCall, Room, Busy
<1>5. Bought' BY <1>3 DEF LoopInv, Plain, Bought, Reading
<1>6. Issued' = Issued BY <1>3 DEF Issued, Pending
<1>7. CASE Opens
  <2>1. up' = <<>> /\ ~loaded' /\ torn' = comms_active BY <1>7 DEF Opens, HostOpen
  <2>2. ~Orderly' BY <1>3, <2>1 DEF Orderly, SameSession
  <2>3. Streamed' BY <2>1 DEF Streamed, Begins
  <2> QED BY <1>4, <1>5, <2>2, <2>3 DEF LoopInv, Plain
<1>8. ASSUME ~Opens, Streamed', down' = down, torn' = torn, active' = 1 => active = 1, plan' = plan
      PROVE  LoopInv'
  <2>1. Orderly' = Orderly BY <1>1, <1>3, <1>8 DEF Orderly, SameSession
  <2>2. ASSUME Straight PROVE Straight'
    <3>1. UNCHANGED <<loopVars, plan, answered, mem0, got, buffer, data, down>>
      BY <1>1, <1>3, <1>8 DEF loopVars
    <3> QED BY <1>6, <1>8, <2>2, <3>1, StraightKept
  <2> QED BY <1>4, <1>5, <1>8, <2>1, <2>2 DEF LoopInv, Plain
<1>9. ASSUME up' = up, loaded' = loaded, in_byte' = in_byte, plan' = plan PROVE Streamed'
  BY <1>9 DEF LoopInv, Plain, Streamed
<1>10. CASE Closes
  <2>1. /\ up' = up /\ loaded' = loaded /\ in_byte' = in_byte /\ plan' = plan /\ down' = down
        /\ torn' = torn /\ active' = 0
    BY <1>10 DEF Closes, HostClose, hostVars
  <2> QED BY <1>7, <1>8, <1>9, <2>1
<1>11. CASE Announces
  <2>1. /\ up' = up /\ loaded' = loaded /\ in_byte' = in_byte /\ plan' = plan /\ down' = down
        /\ torn' = torn /\ active' = active
    BY <1>11 DEF Announces, HostPending, hostVars
  <2> QED BY <1>7, <1>8, <1>9, <2>1
<1>12. CASE Loads
  <2>1. /\ up' = up /\ loaded' = TRUE /\ in_byte' = plan.stream[Len(up) + 1] /\ plan' = plan
        /\ down' = down /\ torn' = torn /\ active' = active /\ Len(up) < Len(plan.stream)
    BY <1>12 DEF Loads, HostLoad, Unsent
  <2>2. Streamed' BY <2>1 DEF LoopInv, Plain, Streamed
  <2> QED BY <1>7, <1>8, <2>1, <2>2
<1>13. CASE HostPost /\ UNCHANGED plan
  <2>1. /\ up' = Append(up, in_byte) /\ loaded /\ loaded' = FALSE /\ plan' = plan
        /\ down' = down /\ torn' = torn /\ active' = active
    BY <1>13 DEF HostPost
  <2>2. /\ up \in Seq(Bytes) /\ in_byte \in Bytes /\ plan.stream \in Seq(Bytes)
        /\ Begins(up, plan.stream) /\ Len(up) < Len(plan.stream)
        /\ in_byte = plan.stream[Len(up) + 1]
    BY <2>1 DEF LoopInv, Plain, Streamed, LinkInv, LinkTypeOK, LoopTypeOK, PlanTypeOK
  <2>3. /\ Len(up') = Len(up) + 1 /\ \A i \in 1 .. Len(up) : up'[i] = up[i]
        /\ up'[Len(up) + 1] = in_byte /\ Len(up) \in Nat
    BY <2>1, <2>2
  <2>4. Len(up') <= Len(plan.stream)
    <3>1. Len(plan.stream) \in Nat BY <2>2
    <3> QED BY <2>2, <2>3, <3>1
  <2>5. ASSUME NEW i \in 1 .. Len(up') PROVE plan.stream[i] = up'[i]
    <3>1. CASE i = Len(up) + 1 BY <2>2, <2>3, <3>1
    <3>2. CASE i # Len(up) + 1
      <4>1. i \in 1 .. Len(up) BY <2>3, <3>2
      <4> QED BY <2>2, <2>3, <4>1 DEF Begins
    <3> QED BY <3>1, <3>2
  <2>6. Begins(up', plan.stream) BY <2>4, <2>5 DEF Begins
  <2>7. Streamed' BY <2>1, <2>6 DEF Streamed
  <2> QED BY <1>7, <1>8, <2>1, <2>7
<1>14. CASE HostMagic /\ UNCHANGED plan
  <2>1. /\ up' = up /\ loaded' = loaded /\ in_byte' = in_byte /\ plan' = plan /\ down' = down
        /\ torn' = torn /\ active' = active
    BY <1>14 DEF HostMagic, hostVars
  <2> QED BY <1>7, <1>8, <1>9, <2>1
<1>15. CASE HostAck /\ UNCHANGED plan
  <2>1. /\ up' = up /\ loaded' = loaded /\ in_byte' = in_byte /\ plan' = plan /\ down' = down
        /\ torn' = torn /\ active' = active
    BY <1>15 DEF HostAck, hostVars
  <2> QED BY <1>7, <1>8, <1>9, <2>1
<1> QED BY <1>7, <1>10, <1>11, <1>12, <1>13, <1>14, <1>15 DEF Board, Serves

-----------------------------------------------------------------------------
(* A step of a call.  What every such step leaves alone: *)
CallFrame == UNCHANGED <<loopVars, plan, fn, up, loaded, in_byte, torn, active, maxlen, data>>

LEMMA FrameHolds ==
  ASSUME LoopInv, CallFrame, on' = comms_active', step \notin Calling => at' = "done", Bought'
  PROVE  Plain'
<1>1. UNCHANGED <<step, c, hdr, ofs, mem, plan, fn, up, loaded, in_byte, maxlen>>
  BY DEF CallFrame, loopVars
<1>2. InCall' BY <1>1 DEF LoopInv, Plain, InCall
<1>3. Room' /\ Busy' BY <1>1 DEF LoopInv, Plain, Room, Busy
<1>4. Streamed' BY <1>1 DEF LoopInv, Plain, Streamed
<1> QED BY <1>2, <1>3, <1>4 DEF Plain

(* A session that begins between two commands. *)
LEMMA BeginsStraight ==
  ASSUME LoopTypeOK, LoopTypeOK', LinkInv, LinkInv', LoopInv, Inside, Update,
         on', ~comms_active, clean'
  PROVE  Straight'
<1>1. UNCHANGED <<step, c, hdr, ofs, mem, plan>> BY DEF Inside, loopVars
<1>2. /\ clean' = (c.cmd = Codes.IDLE) /\ mem0' = mem /\ answered' = 0 /\ got' = <<>>
      /\ UNCHANGED <<fn, buffer, down, active>> /\ comms_active' /\ active = 1
  BY DEF Inside, Update, locals, hostVars, registers
<1>3. c.cmd = Codes.IDLE BY <1>2
<1>4. at = "update" BY DEF Update
<1>5. step \in {"polled", "fetch"}
  <2>1. step \in Calling BY <1>4 DEF LoopInv, Plain, InCall
  <2> QED BY <1>3, <2>1 DEF LoopInv, Plain, Busy, Calling
<1>6. ~Holding' BY <1>1, <1>3 DEF Holding
<1>7. /\ plan'.script \in Scripts /\ mem0' \in Memory /\ Len(plan'.script) \in Nat
  <2>1. plan'.script \in Scripts /\ mem0' \in Memory BY DEF LoopTypeOK, PlanTypeOK
  <2>2. plan'.script \in Seq(Commands) BY <2>1 DEF Scripts
  <2> QED BY <2>1, <2>2
<1>8. Base' = 0
  <2>1. Base' = Len(StreamUpTo(plan'.script, 0)) BY <1>2 DEF Base
  <2>2. StreamUpTo(plan'.script, 0) = <<>> BY <1>7, StreamIs
  <2> QED BY <2>1, <2>2
<1>9. Past' = Start(mem0')
  <2>1. Past' = Outcome(mem0', plan'.script, 0) BY <1>2 DEF Past, Meaning
  <2> QED BY <1>7, <2>1, OutcomeIs
<1>10. Past'.mem = mem0' /\ Past'.said = <<>> BY <1>9 DEF Start
<1>11. down' = <<>>
  <2>1. Unnoticed BY <1>2 DEF Unnoticed
  <2> QED BY <1>2, <2>1 DEF LinkInv, Fresh
<1>12. step = "fetch" => buffer' = <<>>
  BY <1>2, <1>4 DEF LoopInv, Plain, InCall, Bought, ReadSteps
<1>13. Counted' BY <1>1, <1>2, <1>5, <1>6, <1>7, <1>8, <1>12 DEF Counted
<1>14. HeaderRead' BY <1>1, <1>5 DEF HeaderRead
<1>15. Current' BY <1>6 DEF Current
<1>16. Carrying' BY <1>1, <1>2, <1>6, <1>10 DEF Carrying
<1>17. Offered' BY <1>1, <1>5 DEF Offered
<1>18. Heard'
  <2>1. Told' = 0 BY <1>1, <1>5, <1>6 DEF Told
  <2>2. Len(down') = 0 /\ Len(Past'.said) = 0 BY <1>10, <1>11
  <2>3. Begins(down', Final')
    <3>1. Final' \in Seq(Bytes)
      <4>1. Final' = Outcome(mem0', plan'.script, Len(plan'.script)).said BY DEF Final, Meaning
      <4> DEFINE s == plan'.script
                 m == mem0'
                 z == Final'
      <4>2. z = Outcome(m, s, Len(s)).said /\ s \in Scripts /\ m \in Memory /\ Len(s) \in 0 .. Len(s)
        BY <1>7, <4>1
      <4> HIDE DEF s, m, z
      <4>3. z \in Seq(Bytes) BY <4>2, OutcomeIs DEF Outcomes
      <4> QED BY <4>3 DEF z
    <3>2. Len(Final') \in Nat BY <3>1
    <3> QED BY <2>2, <3>2 DEF Begins
  <2> QED BY <2>1, <2>2, <2>3 DEF Heard
<1> QED BY <1>13, <1>14, <1>15, <1>16, <1>17, <1>18 DEF Straight

LEMMA UpdateHolds ==
  ASSUME LoopTypeOK, LoopTypeOK', LinkInv, LinkInv', LoopInv, Inside, Update
  PROVE  LoopInv'
<1>1. CallFrame
  BY DEF Inside, Update, CallFrame, locals, hostVars, registers
<1>2. on' = comms_active' /\ at = "update" /\ UNCHANGED <<fn, buffer, maxlen, data, sent, down>>
      /\ at' \in {"done", "active", "next"}
  <2>1. fn \in {"update", "read", "write"} BY DEF LinkInv, LinkTypeOK
  <2> QED BY <2>1 DEF Update, locals, hostVars
<1>3. step \in Calling BY <1>2 DEF LoopInv, Plain, InCall
<1>4. Bought'
  <2> SUFFICES ASSUME fn' = "read"
               PROVE  /\ Len(buffer') <= maxlen' /\ Len(buffer') < maxlen' /\ Len(buffer') <= Len(got')
                      /\ \A i \in 1 .. Len(buffer') : got'[Len(got') - Len(buffer') + i] = buffer'[i]
    BY <1>2 DEF Bought
  <2>1. buffer' = <<>> BY <1>2 DEF LoopInv, Plain, Bought
  <2>2. maxlen' \in Nat \ {0} /\ Len(got') \in Nat BY DEF LinkInv, LinkTypeOK
  <2> QED BY <2>1, <2>2
<1>5. Plain' BY <1>1, <1>2, <1>3, <1>4, FrameHolds
<1>6. ASSUME Orderly' PROVE Straight'
  <2>1. clean' /\ comms_active' /\ ~torn' BY <1>6 DEF Orderly, SameSession
  <2>2. CASE ~comms_active BY <1>2, <2>1, <2>2, BeginsStraight
  <2>3. CASE comms_active
    <3>1. UNCHANGED <<got, clean, mem0, answered, torn>>
      BY <2>3, <1>1 DEF Inside, Update, pastVars, CallFrame
    <3>2. Straight BY <2>1, <2>3, <3>1 DEF Orderly, SameSession, LoopInv
    <3>3. Issued' = Issued BY <1>2 DEF Issued, Pending
    <3>4. UNCHANGED <<loopVars, plan, answered, mem0, got, buffer, data, down>> /\ active' = active
      BY <1>1, <1>2, <3>1 DEF CallFrame
    <3> QED BY <3>2, <3>3, <3>4, StraightKept
  <2> QED BY <2>2, <2>3
<1> QED BY <1>5, <1>6 DEF LoopInv

(* Steps that only go on. *)
LEMMA OnHolds ==
  ASSUME LoopTypeOK, LinkInv, LoopInv, CallFrame, step \in Calling,
         UNCHANGED <<pastVars, on, comms_active, got, buffer, down>>,
         at # "update", at' # "update", Issued' = Issued, Reading' => Reading
  PROVE  LoopInv'
<1>1. fn' = fn /\ maxlen' = maxlen BY DEF CallFrame
<1>2. Bought' BY <1>1 DEF LoopInv, Plain, Bought
<1>3. on' = comms_active' BY DEF LoopInv, Plain, InCall
<1>4. Plain' BY <1>2, <1>3, FrameHolds
<1>5. ASSUME Orderly' PROVE Straight'
  <2>1. Orderly BY <1>5 DEF Orderly, SameSession, CallFrame, pastVars
  <2>2. UNCHANGED <<loopVars, plan, answered, mem0, got, buffer, data, down>> /\ active' = active
    BY DEF CallFrame, pastVars
  <2> QED BY <2>1, <2>2, StraightKept DEF LoopInv
<1> QED BY <1>4, <1>5 DEF LoopInv

(* A byte is taken: it is the next of the stream. *)
LEMMA TakeHolds ==
  ASSUME LoopTypeOK, LinkInv, LinkInv', LoopInv, CallFrame, step \in Calling, TakeByte,
         UNCHANGED pastVars
  PROVE  LoopInv'
<1>1. /\ at = "byte" /\ buffer' = Append(buffer, in_byte) /\ got' = Append(got, in_byte)
      /\ at' = (IF Len(buffer') = maxlen THEN "done" ELSE "active")
      /\ UNCHANGED <<comms_active, fn, on, maxlen, data, sent, down>>
  BY DEF TakeByte
<1>2. fn = "read" /\ step \in ReadSteps
  <2>1. fn = "read" BY <1>1 DEF LinkInv, Placed, Reading
  <2> QED BY <2>1 DEF LoopInv, Plain, InCall, Calling, ReadSteps, WriteSteps
<1>3. buffer \in Seq(Bytes) /\ got \in Seq(Bytes) /\ in_byte \in Bytes /\ maxlen \in Nat
  BY DEF LinkInv, LinkTypeOK
<1>4. /\ Len(buffer') = Len(buffer) + 1 /\ Len(got') = Len(got) + 1
      /\ Len(buffer) \in Nat /\ Len(got) \in Nat
      /\ \A i \in 1 .. Len(buffer) : buffer'[i] = buffer[i]
      /\ \A i \in 1 .. Len(got) : got'[i] = got[i]
      /\ buffer'[Len(buffer) + 1] = in_byte /\ got'[Len(got) + 1] = in_byte
  BY <1>1, <1>3
<1>5. /\ Len(buffer) < maxlen /\ Len(buffer) <= Len(got)
      /\ \A i \in 1 .. Len(buffer) : got[Len(got) - Len(buffer) + i] = buffer[i]
  BY <1>1, <1>2 DEF LoopInv, Plain, Bought, Reading
<1>6. Bought'
  <2> DEFINE b == Len(buffer)
             g == Len(got)
  <2>1. b \in Nat /\ g \in Nat /\ b <= g /\ b < maxlen BY <1>4, <1>5
  <2>2. \A i \in 1 .. b + 1 : got'[(g + 1) - (b + 1) + i] = buffer'[i]
    <3> SUFFICES ASSUME NEW i \in 1 .. b + 1 PROVE got'[(g + 1) - (b + 1) + i] = buffer'[i] OBVIOUS
    <3>1. (g + 1) - (b + 1) + i = g - b + i BY <2>1
    <3>2. CASE i = b + 1
      <4>1. g - b + i = g + 1 BY <2>1, <3>2
      <4> QED BY <1>4, <3>1, <3>2, <4>1
    <3>3. CASE i # b + 1
      <4>1. i \in 1 .. b /\ g - b + i \in 1 .. g BY <2>1, <3>3
      <4> QED BY <1>4, <1>5, <3>1, <4>1
    <3> QED BY <3>2, <3>3
  <2>3. Len(buffer') = b + 1 /\ Len(got') = g + 1 /\ maxlen' = maxlen BY <1>1, <1>4
  <2>4. b + 1 <= maxlen /\ (Reading' => b + 1 < maxlen)
    BY <1>1, <1>3, <2>1, <2>3 DEF Reading
  <2>5. at' # "update" BY <1>1
  <2> HIDE DEF b, g
  <2> QED BY <2>1, <2>2, <2>3, <2>4, <2>5 DEF Bought
<1>7. Plain' BY <1>1, <1>6, FrameHolds DEF LoopInv, Plain, InCall
<1>8. ASSUME Orderly' PROVE Straight'
  <2>1. Straight BY <1>1, <1>8 DEF Orderly, SameSession, CallFrame, pastVars, LoopInv
  <2>2. UNCHANGED <<step, c, hdr, ofs, mem, plan, answered, mem0, data, down, active>>
        /\ Issued' = Issued
    BY <1>1 DEF CallFrame, loopVars, pastVars, Issued, Pending
  <2>3. UNCHANGED Standing BY <2>2 DEF Standing
  <2> USE <2>3, Stands
  <2>4. Holding' = Holding /\ Done' = Done /\ Told' = Told BY <2>2 DEF Holding, Done, Told
  <2>5. Counted'
    <3>1. Base \in Nat /\ Len(hdr) \in Nat /\ c.total_bytes_read \in Nat
      BY <2>1, SessionIs DEF Straight, Counted, LoopTypeOK, CmdOK, Cmds
    <3> DEFINE x == c.total_bytes_read
               l == Len(hdr)
               g == Len(got)
               b == Len(buffer)
    <3>2. x' = x /\ l' = l /\ g' = g + 1 /\ b' = b + 1 BY <1>4, <2>2
    <3>3. x \in Nat /\ l \in Nat /\ g \in Nat /\ b \in Nat /\ Base \in Nat BY <1>4, <3>1
    <3>4. answered' <= Len(plan'.script) BY <2>1, <2>2 DEF Straight, Counted
    <3>5. CASE step = "fetch"
      <4>1. ~Holding BY <3>5 DEF Holding, LoopInv, Plain, Busy
      <4>2. g = Base + b BY <2>1, <3>5 DEF Straight, Counted
      <4> HIDE DEF g, b
      <4>3. g' = Base' + b' BY <2>3, <3>2, <3>3, <4>2
      <4> QED BY <2>2, <2>4, <3>4, <3>5, <4>1, <4>3 DEF Counted, g, b
    <3>6. CASE step = "header"
      <4>1. ~Holding BY <3>6 DEF Holding
      <4>2. g = Base + 1 + l + b BY <2>1, <3>6 DEF Straight, Counted
      <4> HIDE DEF g, b, l
      <4>3. g' = Base' + 1 + l' + b' BY <2>3, <3>2, <3>3, <4>2
      <4> QED BY <2>2, <2>4, <3>4, <3>6, <4>1, <4>3 DEF Counted, g, b, l
    <3>7. CASE step = "payload"
      <4>1. Holding BY <3>7 DEF Holding, LoopInv, Plain, Busy
      <4>2. g = Base + 11 + x + b BY <2>1, <3>7, <4>1 DEF Straight, Counted
      <4> HIDE DEF g, b, x
      <4>3. g' = Base' + 11 + x' + b' BY <2>3, <3>2, <3>3, <4>2
      <4> QED BY <2>2, <2>4, <3>4, <3>7, <4>1, <4>3 DEF Counted, g, b, x
    <3> QED BY <1>2, <3>5, <3>6, <3>7 DEF ReadSteps
  <2>6. HeaderRead' BY <2>1, <2>2 DEF Straight, HeaderRead
  <2>7. Current' BY <2>1, <2>2, <2>4 DEF Straight, Current
  <2>8. Carrying' BY <2>1, <2>2, <2>4 DEF Straight, Carrying
  <2>9. Offered' BY <2>1, <2>2 DEF Straight, Offered, Offers
  <2>10. Heard' BY <2>1, <2>2, <2>4 DEF Straight, Heard
  <2> QED BY <2>5, <2>6, <2>7, <2>8, <2>9, <2>10 DEF Straight
<1> QED BY <1>7, <1>8 DEF LoopInv

-----------------------------------------------------------------------------
(* The reply a write call is about. *)
First == IF step = "answer" THEN DataLen ELSE IF step = "sent" THEN 0 ELSE 2 * (ofs - 1)
LEMMA ReplyUnderWay ==
  ASSUME LoopTypeOK, LinkInv, LoopInv, Straight, step \in WriteSteps
  PROVE  /\ answered < Len(plan.script) /\ Holding
         /\ First \in Nat /\ Issued \in Nat /\ Told = First + Issued /\ Offers(First)
<1>1. Holding BY DEF LoopInv, Plain, Busy, WriteSteps, Holding
<1>2. answered < Len(plan.script) BY <1>1 DEF Straight, Current
<1>3. DataLen \in Nat BY <1>2, ThisIs
<1>4. step = "words" => ofs \in Nat /\ ofs >= 1
  BY DEF Straight, Offered, LoopTypeOK, CmdOK, Cmds
<1>5. First \in Nat BY <1>3, <1>4 DEF First, WriteSteps
<1>6. Issued \in Nat BY DEF LinkInv, LinkTypeOK, Issued
<1>7. Told = First + Issued BY <1>6 DEF Told, First, WriteSteps
<1>8. Offers(First) BY DEF Straight, Offered, First, WriteSteps
<1> QED BY <1>1, <1>2, <1>5, <1>6, <1>7, <1>8

LEMMA BeginsAppend ==
  ASSUME NEW s \in Seq(Bytes), NEW z, NEW b \in Bytes, Begins(s, z), Len(s) + 1 <= Len(z), z[Len(s) + 1] = b
  PROVE  Begins(Append(s, b), z)
<1> DEFINE t == Append(s, b)
<1>1. /\ Len(t) = Len(s) + 1 /\ \A i \in 1 .. Len(s) : t[i] = s[i]
      /\ t[Len(s) + 1] = b /\ Len(s) \in Nat
  OBVIOUS
<1> HIDE DEF t
<1>2. Len(t) <= Len(z) BY <1>1
<1>3. ASSUME NEW i \in 1 .. Len(t) PROVE z[i] = t[i]
  <2>1. CASE i = Len(s) + 1 BY <1>1, <2>1
  <2>2. CASE i # Len(s) + 1
    <3>1. i \in 1 .. Len(s) BY <1>1, <2>2
    <3> QED BY <1>1, <3>1 DEF Begins
  <2> QED BY <2>1, <2>2
<1>4. Begins(t, z) BY <1>2, <1>3 DEF Begins
<1> QED BY <1>4 DEF t

(* A byte is sent: it is the next of the replies. *)
LEMMA SendHolds ==
  ASSUME LoopTypeOK, LinkInv, LinkInv', LoopInv, CallFrame, step \in Calling, SendByte,
         UNCHANGED pastVars
  PROVE  LoopInv'
<1>1. /\ at = "next" /\ at' = "wait" /\ sent < Len(data)
      /\ down' = (IF active = 1 THEN Append(down, data[sent + 1]) ELSE down)
      /\ UNCHANGED <<comms_active, fn, on, maxlen, buffer, data, sent, got>>
  BY DEF SendByte, locals
<1>2. fn = "write" /\ step \in WriteSteps
  <2>1. fn = "write" BY <1>1 DEF LinkInv, Placed, Writing
  <2> QED BY <2>1 DEF LoopInv, Plain, InCall, Calling, ReadSteps, WriteSteps
<1>3. Bought' BY <1>1, <1>2 DEF Bought
<1>4. Plain' BY <1>1, <1>3, FrameHolds DEF LoopInv, Plain, InCall
<1>5. ASSUME Orderly' PROVE Straight'
  <2>1. Straight BY <1>1, <1>5 DEF Orderly, SameSession, CallFrame, pastVars, LoopInv
  <2>2. UNCHANGED <<step, c, hdr, ofs, mem, plan, answered, mem0, data, active, got, buffer>>
    BY <1>1 DEF CallFrame, loopVars, pastVars
  <2>3. UNCHANGED Standing BY <2>2 DEF Standing
  <2> USE <2>3, Stands
  <2>4. Holding' = Holding /\ Done' = Done BY <2>2 DEF Holding, Done
  <2>5. Counted' BY <2>1, <2>2, <2>4 DEF Straight, Counted
  <2>6. HeaderRead' BY <2>1, <2>2 DEF Straight, HeaderRead
  <2>7. Current' BY <2>1, <2>2, <2>4 DEF Straight, Current
  <2>8. Carrying' BY <2>1, <2>2, <2>4 DEF Straight, Carrying
  <2>9. Offered' BY <2>1, <2>2 DEF Straight, Offered, Offers
  <2>10. Heard'
    <3>1. /\ answered < Len(plan.script)
          /\ First \in Nat /\ Issued \in Nat /\ Told = First + Issued /\ Offers(First)
      BY <1>2, <2>1, ReplyUnderWay
    <3>2. First' = First BY <2>2 DEF First
    <3>3. Issued = sent /\ Issued' = sent + 1 BY <1>1 DEF Issued, Pending
    <3>4. Told' = First' + Issued'
      BY <1>2, <2>2, <3>1, <3>2, <3>3 DEF Told, First, WriteSteps
    <3>5. Told' = Told + 1
      <4> HIDE DEF First, Told, Issued
      <4> QED BY <3>1, <3>2, <3>3, <3>4
    <3>6. /\ Past.said \in Seq(Bytes) /\ Replies \in Seq(Bytes)
          /\ Len(Past.said) + Len(Replies) <= Len(Final)
          /\ \A j \in 1 .. Len(Replies) : Final[Len(Past.said) + j] = Replies[j]
      BY <3>1, ThisIs
    <3>7. Final \in Seq(Bytes)
      <4>1. answered <= Len(plan.script) BY <2>1 DEF Straight, Counted
      <4> QED BY <4>1, SessionIs
    <3> DEFINE p == Len(Past.said)
               r == Len(Replies)
               f == Len(Final)
               d == Len(down)
    <3>8. p \in Nat /\ r \in Nat /\ f \in Nat /\ d \in Nat /\ Told \in Nat
      <4>1. d \in Nat BY DEF LinkInv, LinkTypeOK
      <4>2. Told \in Nat BY <3>1
      <4> QED BY <3>6, <3>7, <4>1, <4>2
    <3>9. CASE active = 1
      <4>1. d = p + Told /\ Begins(down, Final) BY <2>1, <3>9 DEF Straight, Heard
      <4>2. down' = Append(down, data[sent + 1]) BY <1>1, <3>9
      <4>3. sent + 1 \in 1 .. Len(data) /\ data[sent + 1] \in Bytes /\ down \in Seq(Bytes)
        <5>1. data \in Seq(Bytes) /\ sent \in Nat /\ down \in Seq(Bytes) BY DEF LinkInv, LinkTypeOK
        <5> QED BY <1>1, <5>1
      <4> DEFINE j == sent + 1
                 b == data[j]
                 x == First
      <4>4. x + j <= r /\ Replies[x + j] = b BY <3>1, <4>3 DEF Offers
      <4>5. sent \in Nat BY DEF LinkInv, LinkTypeOK
      <4>6. x + j \in 1 .. r /\ d + 1 = p + (x + j) /\ d + 1 <= f
        <5>1. x \in Nat /\ Told = x + sent /\ sent \in Nat BY <3>1, <3>3, <4>5
        <5>2. p + r <= f BY <3>6
        <5> HIDE DEF x, p, r, f, d
        <5> QED BY <3>8, <4>1, <4>4, <5>1, <5>2
      <4>7. Final[d + 1] = b
        <5>1. Final[p + (x + j)] = Replies[x + j] BY <3>6, <4>6
        <5> QED BY <4>4, <4>6, <5>1
      <4>8. Begins(Append(down, b), Final) BY <4>1, <4>3, <4>6, <4>7, BeginsAppend
      <4>9. Len(down') = d + 1 BY <4>2, <4>3
      <4>10. Len(down') = Len(Past.said) + Told'
        <5> HIDE DEF p
        <5>1. Len(down') = p + Told' BY <3>5, <3>8, <4>1, <4>9
        <5> QED BY <5>1 DEF p
      <4>11. Len(down') <= Len(Past.said) + Told' BY <3>8, <4>9, <4>10
      <4> QED BY <4>2, <4>8, <4>10, <4>11 DEF Heard
    <3>10. CASE active # 1
      <4>1. down' = down /\ active' # 1 BY <1>1, <2>2, <3>10
      <4>2. d <= p + Told /\ Begins(down, Final) BY <2>1 DEF Straight, Heard
      <4>3. Len(down') <= Len(Past.said) + Told'
        <5> HIDE DEF p, d
        <5>1. d <= p + Told' BY <3>5, <3>8, <4>2
        <5> QED BY <4>1, <5>1 DEF p, d
      <4> QED BY <4>1, <4>2, <4>3 DEF Heard
    <3> QED BY <3>9, <3>10
  <2> QED BY <2>5, <2>6, <2>7, <2>8, <2>9, <2>10 DEF Straight
<1> QED BY <1>4, <1>5 DEF LoopInv

LEMMA InsideHolds ==
  ASSUME LoopTypeOK, LoopTypeOK', LinkInv, LinkInv', LoopInv, Inside
  PROVE  LoopInv'
<1>1. CASE Update BY <1>1, UpdateHolds
<1>2. ASSUME ~Update, UNCHANGED <<comms_active, at>> \/ comms_active' = comms_active PROVE UNCHANGED pastVars
  BY <1>2 DEF Inside
<1>3. at # "done" => step \in Calling BY DEF LoopInv, Plain, InCall
<1>4. ASSUME NEW here, NEW there, GoTo(here, there), here # "done", here # "update", there # "update",
             Reading' => Reading, here \notin {"wait", "gone"} \/ there \in {"wait", "gone"},
             there \in {"wait", "gone"} => here \in {"wait", "gone"}
      PROVE  LoopInv'
  <2>1. /\ at = here /\ at' = there
        /\ UNCHANGED <<registers, statics, fn, on, locals, hostVars, got>>
    BY <1>4 DEF GoTo
  <2>2. CallFrame /\ UNCHANGED <<on, comms_active, got, buffer, down, sent>>
    BY <2>1 DEF CallFrame, Inside, registers, statics, locals, hostVars
  <2>3. UNCHANGED pastVars BY <2>2 DEF Inside
  <2>4. Issued' = Issued BY <1>4, <2>1, <2>2 DEF Issued, Pending
  <2> QED BY <1>3, <1>4, <2>1, <2>2, <2>3, <2>4, OnHolds
<1>5. CASE ReadActive
  <2>1. GoTo("active", IF active = 1 THEN "seq" ELSE "done") BY <1>5 DEF ReadActive
  <2>2. at = "active" BY <2>1 DEF GoTo
  <2> QED BY <1>4, <2>1, <2>2 DEF Reading
<1>6. CASE ReadSeq
  <2>1. GoTo("seq", IF comms_in_seq # in_seq THEN "again" ELSE "pending") BY <1>6 DEF ReadSeq
  <2>2. at = "seq" BY <2>1 DEF GoTo
  <2> QED BY <1>4, <2>1, <2>2 DEF Reading
<1>7. CASE ReadPending
  <2>1. GoTo("pending", IF pending THEN "again" ELSE "done") BY <1>7 DEF ReadPending
  <2>2. at = "pending" BY <2>1 DEF GoTo
  <2> QED BY <1>4, <2>1, <2>2 DEF Reading
<1>8. CASE ReadAgain
  <2>1. GoTo("again", IF comms_in_seq # in_seq THEN "byte" ELSE "active") BY <1>8 DEF ReadAgain
  <2>2. at = "again" BY <2>1 DEF GoTo
  <2> QED BY <1>4, <2>1, <2>2 DEF Reading
<1>9. CASE TakeByte
  <2>1. at = "byte" /\ comms_active' = comms_active BY <1>9 DEF TakeByte
  <2>2. CallFrame BY <1>9 DEF TakeByte, CallFrame, Inside, registers
  <2>3. UNCHANGED pastVars BY <2>1 DEF Inside
  <2> QED BY <1>3, <1>9, <2>1, <2>2, <2>3, TakeHolds
<1>10. CASE SendByte
  <2>1. at = "next" /\ comms_active' = comms_active BY <1>10 DEF SendByte
  <2>2. CallFrame BY <1>10 DEF SendByte, CallFrame, Inside, registers, locals
  <2>3. UNCHANGED pastVars BY <2>1 DEF Inside
  <2> QED BY <1>3, <1>10, <2>1, <2>2, <2>3, SendHolds
<1>11. CASE AllSent
  <2>1. GoTo("next", "done") BY <1>11 DEF AllSent
  <2>2. at' = "done" BY <2>1 DEF GoTo
  <2> QED BY <1>4, <2>1, <2>2 DEF Reading
<1>12. ASSUME NEW here \in {"wait", "gone"}, NextByte(here) PROVE LoopInv'
  <2>1. /\ at = here /\ at' = "next" /\ sent' = sent + 1
        /\ UNCHANGED <<registers, statics, fn, on, buffer, maxlen, data, hostVars, got>>
    BY <1>12 DEF NextByte
  <2>2. CallFrame /\ UNCHANGED <<on, comms_active, got, buffer, down>>
    BY <2>1 DEF CallFrame, Inside, registers, statics, hostVars
  <2>3. UNCHANGED pastVars BY <2>2 DEF Inside
  <2>4. Issued' = Issued BY <1>12, <2>1 DEF Issued, Pending
  <2>5. ~Reading' BY <2>1 DEF Reading
  <2> QED BY <1>3, <1>12, <2>1, <2>2, <2>3, <2>4, <2>5, OnHolds
<1>13. CASE WaitSeq
  <2>1. NextByte("wait") \/ GoTo("wait", "gone") BY <1>13 DEF WaitSeq
  <2>2. ASSUME GoTo("wait", "gone") PROVE LoopInv'
    <3>1. at' = "gone" BY <2>2 DEF GoTo
    <3> QED BY <1>4, <2>2, <3>1 DEF Reading
  <2> QED BY <1>12, <2>1, <2>2
<1>14. CASE WaitActive
  <2>1. NextByte("gone") \/ GoTo("gone", "wait") BY <1>14 DEF WaitActive
  <2>2. ASSUME GoTo("gone", "wait") PROVE LoopInv'
    <3>1. at' = "wait" BY <2>2 DEF GoTo
    <3> QED BY <1>4, <2>2, <3>1 DEF Reading
  <2> QED BY <1>12, <2>1, <2>2
<1> QED BY <1>1, <1>5, <1>6, <1>7, <1>8, <1>9, <1>10, <1>11, <1>13, <1>14 DEF Inside, Running

-----------------------------------------------------------------------------
(* A step of the loop: what it leaves alone of the link. *)
AskFrame == UNCHANGED <<active, in_byte, comms_active, on, loaded, up, down, torn, got>>

LEMMA AskedHolds ==
  ASSUME LoopTypeOK, LinkInv, LoopInv, Asks, UNCHANGED plan
  PROVE  AskFrame /\ Bought' /\ Streamed' /\ on' = comms_active'
<1>1. CASE UNCHANGED commsVars
  <2>1. AskFrame /\ UNCHANGED <<fn, at, buffer, maxlen>>
    BY <1>1 DEF commsVars, registers, statics, locals, hostVars, AskFrame
  <2>2. Bought' BY <2>1 DEF AskFrame, LoopInv, Plain, Bought, Reading
  <2>3. Streamed' BY <2>1 DEF AskFrame, LoopInv, Plain, Streamed
  <2>4. on' = comms_active' BY <2>1 DEF AskFrame, LoopInv, Plain, InCall
  <2> QED BY <2>1, <2>2, <2>3, <2>4
<1>2. CASE Caller
  <2>1. CallKeeps BY <1>2 DEF Caller, CallUpdate, CallRead, CallWrite
  <2>2. AskFrame BY <2>1 DEF CallKeeps, registers, statics, hostVars, AskFrame
  <2>3. Streamed' BY <2>2 DEF AskFrame, LoopInv, Plain, Streamed
  <2>4. on' = comms_active' BY <2>2 DEF AskFrame, LoopInv, Plain, InCall
  <2>5. Bought'
    <3>1. CASE \E n \in Nat \ {0} : CallRead(n)
      <4>1. PICK n \in Nat \ {0} : CallRead(n) BY <3>1
      <4>2. at' = "update" /\ buffer' = <<>> /\ maxlen' = n BY <4>1 DEF CallRead, Call
      <4>3. Len(buffer') = 0 /\ Len(buffer') <= maxlen' /\ Len(buffer') < maxlen' BY <4>2
      <4> QED BY <4>2, <4>3 DEF Bought
    <3>2. CASE CallUpdate \/ (\E d \in Seq(Bytes) : CallWrite(d))
      <4>1. fn' # "read" BY <3>2 DEF CallUpdate, CallWrite, Call
      <4> QED BY <4>1 DEF Bought
    <3> QED BY <1>2, <3>1, <3>2 DEF Caller
  <2> QED BY <2>2, <2>3, <2>4, <2>5
<1> QED BY <1>1, <1>2 DEF Asks

Called ==
  /\ step = "polled" => fn = "update"
  /\ step \in ReadSteps => fn = "read"
  /\ step \in WriteSteps => fn = "write"
  /\ step \notin Calling => at = "done"

(* So a step of the loop keeps the invariant when it keeps these parts. *)
LEMMA AskedInv ==
  ASSUME LoopTypeOK, LinkInv, LoopInv, Asks, UNCHANGED <<plan, clean>>,
         Called', Room', Busy', Orderly /\ Straight => Straight'
  PROVE  LoopInv'
<1>1. AskFrame /\ Bought' /\ Streamed' /\ on' = comms_active' BY AskedHolds
<1>2. InCall' BY <1>1 DEF InCall, Called
<1>3. Orderly' = Orderly BY <1>1 DEF AskFrame, Orderly, SameSession
<1> QED BY <1>1, <1>2, <1>3 DEF LoopInv, Plain

(* Where the places between the calls follow one another. *)
Quiet == {"poll", "polled", "shift", "wait"}
LEMMA QuietHolds ==
  ASSUME LoopTypeOK, LinkInv, LoopInv, Asks,
         UNCHANGED <<c, hdr, mem, plan, clean, mem0, answered>>,
         step \in Quiet \cup {"sent", "words", "process"}, step' \in Quiet,
         step' = "polled" => fn' = "update", step' # "polled" => at' = "done",
         Orderly /\ Straight => Told' = Told
  PROVE  LoopInv'
<1>1. AskFrame BY AskedHolds
<1>2. Called' /\ Room' /\ Busy' BY DEF Called, Room, Busy, Quiet, ReadSteps, WriteSteps, Calling
<1>3. ASSUME Orderly, Straight PROVE Straight'
  <2>1. UNCHANGED Standing BY DEF Standing
  <2> USE <2>1, Stands
  <2>2. Holding' = Holding /\ Done' = Done BY DEF Holding, Done, Quiet
  <2>3. Told' = Told BY <1>3
  <2>4. Counted' BY <1>1, <1>3, <2>2 DEF Straight, Counted, Quiet, AskFrame
  <2>5. HeaderRead' BY DEF HeaderRead, Quiet
  <2>6. Current' BY <1>3, <2>2 DEF Straight, Current
  <2>7. Carrying' BY <1>3, <2>2 DEF Straight, Carrying
  <2>8. Offered' BY DEF Offered, Quiet
  <2>9. Heard' BY <1>1, <1>3, <2>3 DEF Straight, Heard, AskFrame
  <2> QED BY <2>4, <2>5, <2>6, <2>7, <2>8, <2>9 DEF Straight
<1> QED BY <1>2, <1>3, AskedInv

(* main *)
LEMMA PlacesHold ==
  ASSUME LoopTypeOK, LinkInv, LoopInv, Poll \/ Polled \/ Sent \/ Wait
  PROVE  LoopInv'
<1>1. Asks BY PlaceSteps
<1>2. UNCHANGED <<c, hdr, ofs, mem, plan, clean, mem0, answered>>
  BY DEF Poll, Polled, Sent, Wait, LocalStep, LoopKeepsPast, pastVars
<1>3. UNCHANGED Standing BY <1>2 DEF Standing
<1>4. DataLen' = DataLen BY <1>3, Stands
<1>5. CASE Poll
  <2>1. step = "poll" /\ step' = "polled" /\ fn' = "update" BY <1>5 DEF Poll, CallUpdate, Call
  <2>2. Told' = Told BY <1>2, <1>4, <2>1 DEF Told, Holding
  <2> QED BY <1>1, <1>2, <2>1, <2>2, QuietHolds DEF Quiet
<1>6. CASE Polled
  <2>1. step = "polled" /\ step' \in {"shift", "wait"} /\ at' = "done"
    BY <1>6 DEF Polled, LocalStep, commsVars
  <2>2. Told' = Told BY <1>2, <1>4, <2>1 DEF Told, Holding
  <2> QED BY <1>1, <1>2, <2>1, <2>2, QuietHolds DEF Quiet
<1>7. CASE Wait
  <2>1. step = "wait" /\ step' = "poll" /\ at' = at BY <1>7 DEF Wait, LocalStep, commsVars
  <2>2. at' = "done" BY <2>1 DEF LoopInv, Plain, InCall, Calling
  <2>3. Told' = Told BY <1>2, <1>4, <2>1 DEF Told, Holding
  <2> QED BY <1>1, <1>2, <2>1, <2>2, <2>3, QuietHolds DEF Quiet
<1>8. CASE Sent
  <2>1. step = "sent" /\ step' = "wait" /\ at = "done" /\ at' = at
    BY <1>8 DEF Sent, LocalStep, commsVars
  <2>2. ASSUME Orderly, Straight PROVE Told' = Told
    <3>1. fn = "write" /\ on
      BY <2>1, <2>2 DEF LoopInv, Plain, InCall, WriteSteps, Orderly, SameSession
    <3>2. sent = Len(data) BY <2>1, <3>1 DEF LinkInv, Placed
    <3>3. Len(data) = DataLen BY <2>1, <2>2 DEF Straight, Offered
    <3>4. Told = DataLen BY <2>1, <3>2, <3>3 DEF Told, Issued, Pending
    <3>5. Holding' BY <1>2, <2>1 DEF Holding, LoopInv, Plain, Busy
    <3>6. Told' = DataLen' BY <2>1, <3>5 DEF Told
    <3> QED BY <1>4, <3>4, <3>6
  <2> QED BY <1>1, <1>2, <2>1, <2>2, QuietHolds DEF Quiet
<1> QED BY <1>5, <1>6, <1>7, <1>8

-----------------------------------------------------------------------------
(* The bytes taken are those of the session's commands. *)
LEMMA GotStream ==
  ASSUME LoopTypeOK, LinkInv, LoopInv, Orderly
  PROVE  Begins(got, plan.stream)
<1>1. /\ Len(up) = (IF free THEN Len(got) ELSE Len(got) + 1)
      /\ \A i \in 1 .. Len(got) : got[i] = up[i]
  BY DEF LinkInv, Taken, Orderly
<1>2. Begins(up, plan.stream) BY DEF LoopInv, Plain, Streamed
<1>3. Len(got) \in Nat /\ Len(up) \in Nat /\ Len(plan.stream) \in Nat
  BY DEF LinkInv, LinkTypeOK, LoopTypeOK, PlanTypeOK
<1>4. Len(got) <= Len(up) BY <1>1, <1>3
<1>5. Len(got) <= Len(plan.stream) BY <1>2, <1>3, <1>4 DEF Begins
<1>6. ASSUME NEW i \in 1 .. Len(got) PROVE plan.stream[i] = got[i]
  <2>1. i \in 1 .. Len(up) BY <1>3, <1>4
  <2> QED BY <1>1, <1>2, <2>1 DEF Begins
<1> QED BY <1>5, <1>6 DEF Begins

(* What a read call that is done has read is the last of it. *)
Reads(x) ==
  /\ x \in Nat /\ Len(got) = x + Len(buffer) /\ x + Len(buffer) <= Len(plan.stream)
  /\ \A j \in 1 .. Len(buffer) : buffer[j] = plan.stream[x + j]
LEMMA ReadIs ==
  ASSUME LoopTypeOK, LinkInv, LoopInv, Orderly, fn = "read", at = "done",
         NEW x, x \in Nat, Len(got) = x + Len(buffer)
  PROVE  Reads(x)
<1>1. Begins(got, plan.stream) BY GotStream
<1>2. Len(got) \in Nat /\ Len(buffer) \in Nat BY DEF LinkInv, LinkTypeOK
<1>3. /\ Len(buffer) <= Len(got)
      /\ \A i \in 1 .. Len(buffer) : got[Len(got) - Len(buffer) + i] = buffer[i]
  BY DEF LoopInv, Plain, Bought
<1> DEFINE g == Len(got)
           b == Len(buffer)
<1>4. g = x + b /\ b \in Nat /\ g \in Nat BY <1>2
<1>5. ASSUME NEW j \in 1 .. b PROVE buffer[j] = plan.stream[x + j]
  <2>1. got[g - b + j] = buffer[j] BY <1>3
  <2>2. g <= Len(plan.stream) /\ \A i \in 1 .. g : plan.stream[i] = got[i] BY <1>1 DEF Begins
  <2> HIDE DEF g, b
  <2>3. g - b + j = x + j /\ x + j \in 1 .. g BY <1>4
  <2> QED BY <2>1, <2>2, <2>3
<1>6. g <= Len(plan.stream) BY <1>1 DEF Begins
<1> QED BY <1>4, <1>5, <1>6 DEF Reads

(* Only the commands that read are answered with more than their code. *)
LEMMA OneByteReply ==
  ASSUME LoopTypeOK, answered < Len(plan.script), This.cmd \notin {Codes.READ_BYTES, Codes.READ_WORDS}
  PROVE  DataLen = 0
<1>1. This \in Commands /\ Past.mem \in Memory BY ThisIs
<1>2. Len(Replies) = 1 BY <1>1, ReplyType DEF Replies
<1> QED BY <1>2 DEF DataLen
LEMMA ReadsWhole ==
  ASSUME LoopTypeOK, answered < Len(plan.script), This.cmd \in {Codes.READ_BYTES, Codes.READ_WORDS}
  PROVE  Len(This.payload) = 0
<1>1. Proper(This) BY ThisIs
<1>2. This.payload = <<>> BY <1>1 DEF Proper
<1> QED BY <1>2

(* The end of update_cmd. *)
LEMMA PayloadHolds ==
  ASSUME LoopTypeOK, LoopTypeOK', LinkInv, LoopInv, Payload(c'), at = "done",
         UNCHANGED <<plan, clean, mem0, answered>>,
         c'.cmd # Codes.IDLE, c'.bytes_consumed = 0,
         Orderly /\ Straight => /\ Len(got) = Base + 11 + c'.total_bytes_read
                                /\ (step' # "header" => Current' /\ Carrying')
                                /\ Told = 0
  PROVE  LoopInv'
<1>1. Asks /\ step' \in {"payload", "process"} BY PayloadAsks DEF LoopTypeOK
<1>2. AskFrame BY <1>1, AskedHolds
<1>3. /\ c' \in Cmds /\ c'.total_bytes \in Nat /\ c'.total_bytes_read \in Nat
      /\ c'.bytes_avail \in Nat
  BY DEF LoopTypeOK, CmdOK, Cmds
<1>4. step' = "payload" =>
        /\ fn' = "read" /\ buffer' = <<>> /\ c'.total_bytes_read + maxlen' <= c'.total_bytes
  <2> SUFFICES ASSUME step' = "payload"
               PROVE  /\ fn' = "read" /\ buffer' = <<>>
                      /\ c'.total_bytes_read + maxlen' <= c'.total_bytes
    OBVIOUS
  <2>1. c'.total_bytes_read < c'.total_bytes /\ c'.bytes_avail < BufferSize
        /\ CallRead(Least(Space(c'), Remaining(c')))
    BY DEF Payload
  <2>2. fn' = "read" /\ buffer' = <<>> /\ maxlen' = Least(Space(c'), Remaining(c'))
    BY <2>1 DEF CallRead, Call
  <2>3. maxlen' <= c'.total_bytes - c'.total_bytes_read /\ maxlen' \in Int
    BY <1>3, <2>2, LoopAssumption DEF Least, Space, Remaining
  <2> DEFINE x == c'.total_bytes
             y == c'.total_bytes_read
             z == maxlen'
  <2>4. x \in Nat /\ y \in Nat /\ z \in Int /\ z <= x - y BY <1>3, <2>3
  <2> HIDE DEF x, y, z
  <2>5. y + z <= x BY <2>4
  <2> QED BY <2>2, <2>5 DEF x, y, z
<1>5. step' = "process" => at' = "done"
  <2> SUFFICES ASSUME step' = "process" PROVE at' = "done" OBVIOUS
  <2>1. UNCHANGED commsVars BY DEF Payload
  <2> QED BY <2>1 DEF commsVars
<1>6. Called' BY <1>1, <1>4, <1>5 DEF Called, ReadSteps, WriteSteps, Calling
<1>7. Room' BY <1>1, <1>4 DEF Room
<1>8. Busy' BY <1>1 DEF Busy
<1>9. ASSUME Orderly, Straight PROVE Straight'
  <2>1. UNCHANGED Standing BY DEF Standing
  <2> USE <2>1, Stands
  <2>2. Holding' BY <1>1 DEF Holding
  <2>3. Current' /\ Carrying' /\ Told = 0 /\ Len(got) = Base + 11 + c'.total_bytes_read
    BY <1>1, <1>9
  <2>4. Counted'
    <3>1. answered' <= Len(plan'.script) BY <1>9 DEF Straight, Counted
    <3> DEFINE x == Base + 11 + c'.total_bytes_read
               b == IF step' = "payload" THEN Len(buffer') ELSE 0
    <3>2. b = 0 BY <1>4
    <3>3. x \in Nat
      <4>1. Base \in Nat BY <1>9, SessionIs DEF Straight, Counted
      <4> QED BY <1>3, <4>1
    <3>4. Len(got') = x BY <1>2, <2>3 DEF AskFrame
    <3> HIDE DEF x, b
    <3>5. Len(got') = x + b BY <3>2, <3>3, <3>4
    <3> QED BY <1>1, <2>2, <3>1, <3>5 DEF Counted, x, b
  <2>5. HeaderRead' BY <1>1 DEF HeaderRead
  <2>6. Offered' BY <1>1 DEF Offered
  <2>7. Told' = 0 BY <1>1 DEF Told
  <2>8. Heard' BY <1>2, <1>9, <2>3, <2>7 DEF Straight, Heard, AskFrame
  <2> QED BY <2>3, <2>4, <2>5, <2>6, <2>8 DEF Straight
<1> QED BY <1>1, <1>6, <1>7, <1>8, <1>9, AskedInv

-----------------------------------------------------------------------------
(* What was consumed leaves the buffer. *)
LEMMA ShiftedIs ==
  ASSUME CmdOK(c), c' = Shifted
  PROVE  /\ c'.cmd = c.cmd /\ c'.arg0 = c.arg0 /\ c'.arg1 = c.arg1 /\ c'.bytes_consumed = 0
         /\ c'.total_bytes = c.total_bytes /\ c'.total_bytes_read = c.total_bytes_read
         /\ c'.total_bytes_consumed = c.total_bytes_consumed + c.bytes_consumed
         /\ c'.bytes_avail = c.bytes_avail - c.bytes_consumed
         /\ \A i \in 1 .. c'.bytes_avail : c'.buffer[i] = c.buffer[c.bytes_consumed + i]
<1>1. c \in Cmds /\ Len(c.buffer) = c.bytes_avail /\ c.bytes_consumed <= c.bytes_avail BY DEF CmdOK
<1>2. /\ c.buffer \in Seq(Bytes) /\ c.bytes_avail \in Nat /\ c.bytes_consumed \in Nat
      /\ c.total_bytes_consumed \in Nat
  BY <1>1 DEF Cmds
<1>3. CASE c.bytes_consumed = 0
  <2>1. c' = c BY <1>3 DEF Shifted
  <2> DEFINE x == c.bytes_consumed
             a == c.bytes_avail
             t == c.total_bytes_consumed
  <2>2. x = 0 /\ a \in Nat /\ t \in Nat BY <1>2, <1>3
  <2> HIDE DEF x, a, t
  <2>3. t = t + x /\ a = a - x /\ \A i \in 1 .. a : x + i = i BY <2>2
  <2>4. \A i \in 1 .. a : c'.buffer[i] = c.buffer[x + i] BY <2>1, <2>3
  <2> QED BY <1>3, <2>1, <2>3, <2>4 DEF x, a, t
<1>4. CASE c.bytes_consumed # 0
  <2> DEFINE rest == SubSeq(c.buffer, c.bytes_consumed + 1, c.bytes_avail)
             avail == c.bytes_avail - c.bytes_consumed
             total == c.total_bytes_consumed + c.bytes_consumed
  <2>1. c' = [c EXCEPT !.buffer = rest, !.bytes_avail = avail,
                       !.total_bytes_consumed = total, !.bytes_consumed = 0]
    BY <1>4 DEF Shifted
  <2>2. avail \in Nat /\ \A i \in 1 .. avail : rest[i] = c.buffer[c.bytes_consumed + i]
    <3> DEFINE f == c.bytes_consumed + 1
               a == c.bytes_avail
               s == c.buffer
               x == c.bytes_consumed
    <3>1. s \in Seq(Bytes) /\ f \in 1 .. Len(s) + 1 /\ a \in Nat /\ x \in Nat /\ x <= a /\ f = x + 1
          /\ a = Len(s)
      BY <1>1, <1>2
    <3> HIDE DEF f, a, s, x
    <3>2. f \in 1 .. Len(s) + 1 /\ a \in f - 1 .. Len(s) BY <3>1
    <3>3. \A i \in 1 .. a - f + 1 : SubSeq(s, f, a)[i] = s[f + i - 1] BY <3>1, <3>2, SubSeqProperties
    <3>4. a - x \in Nat /\ a - f + 1 = a - x /\ \A i \in 1 .. a - x : f + i - 1 = x + i BY <3>1
    <3>5. \A i \in 1 .. a - x : SubSeq(s, f, a)[i] = s[x + i] BY <3>3, <3>4
    <3> QED BY <3>4, <3>5 DEF f, a, s, x
  <2> HIDE DEF rest, avail, total
  <2>3. /\ c'.cmd = c.cmd /\ c'.arg0 = c.arg0 /\ c'.arg1 = c.arg1 /\ c'.bytes_consumed = 0
        /\ c'.total_bytes = c.total_bytes /\ c'.total_bytes_read = c.total_bytes_read
        /\ c'.total_bytes_consumed = total /\ c'.bytes_avail = avail /\ c'.buffer = rest
    BY <1>1, <2>1 DEF Cmds
  <2> QED BY <2>2, <2>3 DEF avail, total
<1> QED BY <1>3, <1>4

(* update_cmd *)
LEMMA ShiftHolds ==
  ASSUME LoopTypeOK, LoopTypeOK', LinkInv, LoopInv, Shift
  PROVE  LoopInv'
<1>1. Asks BY ShiftStep
<1>2. /\ step = "shift" /\ c' = Shifted /\ UNCHANGED <<hdr, ofs, mem, plan, clean, mem0, answered>>
  BY DEF Shift, LoopKeepsPast, pastVars
<1>3. CmdOK(c) /\ c \in Cmds BY DEF LoopTypeOK, CmdOK
<1>4. /\ c'.cmd = c.cmd /\ c'.arg0 = c.arg0 /\ c'.arg1 = c.arg1 /\ c'.bytes_consumed = 0
      /\ c'.total_bytes = c.total_bytes /\ c'.total_bytes_read = c.total_bytes_read
      /\ c'.total_bytes_consumed = c.total_bytes_consumed + c.bytes_consumed
      /\ c'.bytes_avail = c.bytes_avail - c.bytes_consumed
      /\ \A i \in 1 .. c'.bytes_avail : c'.buffer[i] = c.buffer[c.bytes_consumed + i]
  BY <1>2, <1>3, ShiftedIs
<1>5. at = "done" BY <1>2 DEF LoopInv, Plain, InCall, Calling
<1>6. AskFrame BY <1>1, <1>2, AskedHolds
<1>7. UNCHANGED Standing BY <1>2 DEF Standing
<1> USE <1>7, Stands
<1> DEFINE u == c.total_bytes_consumed
           x == c.bytes_consumed
           a == c.bytes_avail
           r == c.total_bytes_read
           t == c.total_bytes
<1>8. u \in Nat /\ x \in Nat /\ a \in Nat /\ r \in Nat /\ t \in Nat /\ x <= a
  BY <1>3 DEF Cmds, CmdOK
<1>9. c'.total_bytes_consumed = u + x /\ c'.bytes_avail = a - x BY <1>4
<1>10. Done' = Done
  <2>1. Done = u + x BY DEF Done
  <2>2. Done' = (u + x) + 0 BY <1>4 DEF Done
  <2> HIDE DEF u, x
  <2> QED BY <1>8, <2>1, <2>2
<1>11. ASSUME Orderly, Straight, Holding, Holding' PROVE Current' /\ Carrying'
  <2>1. /\ answered < Len(plan.script)
        /\ c.cmd = This.cmd /\ c.arg0 = This.arg0 /\ c.arg1 = This.arg1
        /\ t = Len(This.payload) /\ r = u + a /\ r <= t
        /\ \A i \in 1 .. a : c.buffer[i] = This.payload[u + i]
    BY <1>11 DEF Straight, Current
  <2>2. r = (u + x) + (a - x)
    <3> HIDE DEF u, x, a, r
    <3> QED BY <1>8, <2>1
  <2>3. ASSUME NEW i \in 1 .. a - x PROVE c'.buffer[i] = This.payload[(u + x) + i]
    <3>1. c'.buffer[i] = c.buffer[x + i] BY <1>4
    <3>2. x + i \in 1 .. a /\ u + (x + i) = (u + x) + i
      <4>1. i \in 1 .. a - x OBVIOUS
      <4> HIDE DEF u, x, a
      <4> QED BY <1>8, <4>1
    <3>3. c.buffer[x + i] = This.payload[u + (x + i)] BY <2>1, <3>2
    <3> QED BY <3>1, <3>2, <3>3
  <2>4. Current' BY <1>2, <1>4, <2>1, <2>2, <2>3 DEF Current
  <2>5. mem = Partial(Past.mem, This, Done) /\ (c.cmd \in Fills => Done \in {0, t})
    BY <1>11 DEF Straight, Carrying
  <2>6. Carrying' BY <1>2, <1>4, <1>10, <1>11, <2>5 DEF Carrying
  <2> QED BY <2>4, <2>6
<1>12. CASE c'.cmd # Codes.IDLE /\ c'.total_bytes_consumed = c'.total_bytes
  <2>1. CallWrite(<<c'.cmd>>) /\ step' = "answer" BY <1>12 DEF Shift
  <2>2. fn' = "write" /\ data' = <<c.cmd>> /\ sent' = 0 /\ at' = "update"
    BY <1>4, <2>1 DEF CallWrite, Call
  <2>3. Called' BY <2>1, <2>2 DEF Called, ReadSteps, WriteSteps, Calling
  <2>4. Room' BY <2>1 DEF Room
  <2>5. Busy' BY <1>4, <1>12, <2>1 DEF Busy
  <2>6. ASSUME Orderly, Straight PROVE Straight'
    <3>1. Holding /\ Holding' BY <1>2, <1>4, <1>12, <2>1 DEF Holding
    <3>2. Current' /\ Carrying' BY <1>11, <2>6, <3>1
    <3>3. Counted'
      <4>1. /\ answered <= Len(plan.script)
            /\ Len(got) = Base + 11 + c.total_bytes_read + (IF step = "payload" THEN Len(buffer) ELSE 0)
        BY <2>6, <3>1 DEF Straight, Counted
      <4> DEFINE y == Base + 11 + c.total_bytes_read
                 z == IF step = "payload" THEN Len(buffer) ELSE 0
                 w == IF step' = "payload" THEN Len(buffer') ELSE 0
      <4>2. z = 0 /\ w = 0 BY <1>2, <2>1
      <4>3. Len(got) = y + z BY <4>1
      <4> HIDE DEF z, w
      <4>4. Len(got') = y + w BY <1>6, <4>2, <4>3 DEF AskFrame
      <4> QED BY <1>2, <1>4, <2>1, <3>1, <4>1, <4>4 DEF Counted, w
    <3>4. HeaderRead' BY <2>1 DEF HeaderRead
    <3>5. answered < Len(plan.script) /\ c.cmd = This.cmd BY <2>6, <3>1 DEF Straight, Current
    <3>6. /\ DataLen \in Nat /\ Replies[DataLen + 1] = This.cmd /\ Replies \in Seq(Bytes)
      BY <3>5, ThisIs
    <3>7. Offered'
      <4>1. Len(data') = 1 /\ data'[1] = c.cmd BY <2>2
      <4>2. DataLen + 1 <= Len(Replies)
        <5>1. DataLen = Len(Replies) - 1 BY DEF DataLen
        <5>2. Len(Replies) \in Nat BY <3>6
        <5> QED BY <5>1, <5>2
      <4>3. \A j \in 1 .. Len(data') : DataLen + j <= Len(Replies) /\ Replies[DataLen + j] = data'[j]
        BY <3>5, <3>6, <4>1, <4>2
      <4> QED BY <2>1, <4>1, <4>3 DEF Offered, Offers
    <3>8. Told' = Told
      <4>1. Issued' = 0 BY <2>2 DEF Issued, Pending
      <4>2. Told' = DataLen + 0 BY <2>1, <4>1 DEF Told
      <4>3. Told = DataLen BY <1>2, <3>1 DEF Told
      <4> HIDE DEF Told, DataLen
      <4> QED BY <3>6, <4>2, <4>3
    <3>9. Heard' BY <1>6, <2>6, <3>8 DEF Straight, Heard, AskFrame
    <3> QED BY <3>2, <3>3, <3>4, <3>7, <3>9 DEF Straight
  <2> QED BY <1>1, <1>2, <2>3, <2>4, <2>5, <2>6, AskedInv
<1>13. CASE c'.cmd = Codes.IDLE
  <2>1. CallRead(1) /\ step' = "fetch" BY <1>13 DEF Shift
  <2>2. fn' = "read" /\ maxlen' = 1 /\ buffer' = <<>> /\ at' = "update" BY <2>1 DEF CallRead, Call
  <2>3. Called' BY <2>1, <2>2 DEF Called, ReadSteps, WriteSteps, Calling
  <2>4. Room' BY <2>1, <2>2 DEF Room
  <2>5. Busy' BY <1>13, <2>1 DEF Busy
  <2>6. ASSUME Orderly, Straight PROVE Straight'
    <3>1. ~Holding /\ ~Holding' BY <1>4, <1>13 DEF Holding
    <3>2. Counted'
      <4>1. answered <= Len(plan.script) /\ Len(got) = Base
        BY <1>2, <2>6, <3>1 DEF Straight, Counted
      <4>2. Base \in Nat BY <4>1, SessionIs
      <4>3. Len(got') = Base + Len(buffer') BY <1>6, <2>2, <4>1, <4>2 DEF AskFrame
      <4> QED BY <1>2, <2>1, <3>1, <4>1, <4>3 DEF Counted
    <3>3. HeaderRead' /\ Current' /\ Offered' BY <2>1, <3>1 DEF HeaderRead, Current, Offered
    <3>4. Carrying' BY <1>2, <2>6, <3>1 DEF Straight, Carrying
    <3>5. Told' = Told BY <1>2, <2>1, <3>1 DEF Told
    <3>6. Heard' BY <1>6, <2>6, <3>5 DEF Straight, Heard, AskFrame
    <3> QED BY <3>2, <3>3, <3>4, <3>6 DEF Straight
  <2> QED BY <1>1, <1>2, <2>3, <2>4, <2>5, <2>6, AskedInv
<1>14. CASE c'.cmd # Codes.IDLE /\ c'.total_bytes_consumed # c'.total_bytes
  <2>1. Payload(c') BY <1>14 DEF Shift
  <2>2. ASSUME Orderly, Straight
        PROVE  /\ Len(got) = Base + 11 + c'.total_bytes_read
               /\ (step' # "header" => Current' /\ Carrying')
               /\ Told = 0
    <3>1. Holding BY <1>2, <1>4, <1>14 DEF Holding
    <3>2. step' # "header" => Holding' BY <1>14 DEF Holding
    <3>3. /\ answered < Len(plan.script) /\ c.cmd = This.cmd /\ t = Len(This.payload)
          /\ r = u + a /\ r <= t
      BY <2>2, <3>1 DEF Straight, Current
    <3>4. This.cmd \notin {Codes.READ_BYTES, Codes.READ_WORDS}
      <4>1. u + x # t BY <1>4, <1>14
      <4>2. ASSUME This.cmd \in {Codes.READ_BYTES, Codes.READ_WORDS} PROVE FALSE
        <5>1. t = 0 BY <3>3, <4>2, ReadsWhole
        <5>2. r = u + a /\ r <= t BY <3>3
        <5> HIDE DEF u, x, a, r, t
        <5> QED BY <1>8, <4>1, <5>1, <5>2
      <4> QED BY <4>2
    <3>5. DataLen = 0 BY <3>3, <3>4, OneByteReply
    <3>6. Told = 0 BY <1>2, <3>1, <3>5 DEF Told
    <3>7. Len(got) = Base + 11 + c.total_bytes_read
      <4>1. /\ answered <= Len(plan.script)
            /\ Len(got) = Base + 11 + c.total_bytes_read + (IF step = "payload" THEN Len(buffer) ELSE 0)
        BY <2>2, <3>1 DEF Straight, Counted
      <4>2. Base \in Nat BY <4>1, SessionIs
      <4> DEFINE y == Base + 11 + c.total_bytes_read
                 z == IF step = "payload" THEN Len(buffer) ELSE 0
      <4>3. z = 0 /\ Len(got) = y + z BY <1>2, <4>1
      <4>4. y \in Nat BY <1>8, <4>2
      <4> HIDE DEF y, z
      <4>5. Len(got) = y BY <4>3, <4>4
      <4> QED BY <4>5 DEF y
    <3> QED BY <1>4, <1>11, <2>2, <3>1, <3>2, <3>6, <3>7
  <2> QED BY <1>2, <1>4, <1>5, <1>14, <2>1, <2>2, PayloadHolds
<1> QED BY <1>12, <1>13, <1>14

-----------------------------------------------------------------------------
(* A command is answered: what it does is done, and all was said of it. *)
LEMMA AnswerHolds ==
  ASSUME LoopTypeOK, LoopTypeOK', LinkInv, LoopInv, Answer
  PROVE  LoopInv'
<1>1. Asks BY AnswerStep
<1>2. /\ step = "answer" /\ at = "done" /\ UNCHANGED <<hdr, ofs, mem, plan, clean, mem0>>
      /\ c' = [c EXCEPT !.cmd = Codes.IDLE] /\ answered' = answered + 1
      /\ CallRead(1) /\ step' = "fetch"
  BY DEF Answer
<1>3. c'.cmd = Codes.IDLE BY <1>2 DEF LoopTypeOK, CmdOK, Cmds
<1>4. fn' = "read" /\ maxlen' = 1 /\ buffer' = <<>> /\ at' = "update" BY <1>2 DEF CallRead, Call
<1>5. Called' BY <1>2, <1>4 DEF Called, ReadSteps, WriteSteps, Calling
<1>6. Room' BY <1>2, <1>4 DEF Room
<1>7. Busy' BY <1>2, <1>3 DEF Busy
<1>8. AskFrame BY <1>1, <1>2, AskedHolds
<1>9. ASSUME Orderly, Straight PROVE Straight'
  <2>1. Holding BY <1>2 DEF Holding, LoopInv, Plain, Busy
  <2>2. /\ answered < Len(plan.script) /\ c.total_bytes = Len(This.payload)
        /\ c.total_bytes_read = c.total_bytes_consumed + c.bytes_avail
        /\ c.total_bytes_read <= c.total_bytes
    BY <1>9, <2>1 DEF Straight, Current
  <2>3. /\ This \in Commands /\ Proper(This) /\ DataLen \in Nat /\ Replies \in Seq(Bytes)
        /\ Base \in Nat /\ Past.mem \in Memory /\ Past.said \in Seq(Bytes)
        /\ Len(StreamUpTo(plan.script, answered + 1)) = Base + 11 + Len(This.payload)
        /\ Meaning(answered + 1) = Then(Past, This)
        /\ Len(Meaning(answered + 1).said) = Len(Past.said) + Len(Replies)
    BY <2>2, ThisIs
  <2>4. /\ Base' = Base + 11 + Len(This.payload) /\ Past' = Then(Past, This)
        /\ Len(Past'.said) = Len(Past.said) + Len(Replies) /\ Final' = Final
    <3>1. Base' = Len(StreamUpTo(plan.script, answered + 1)) BY <1>2 DEF Base
    <3>2. Past' = Meaning(answered + 1) BY <1>2 DEF Past, Meaning
    <3>3. Final' = Final BY <1>2 DEF Final, Meaning
    <3> QED BY <2>3, <3>1, <3>2, <3>3
  <2> DEFINE r == c.total_bytes_read
             u == c.total_bytes_consumed
             a == c.bytes_avail
             t == c.total_bytes
  <2>5. u = t /\ c.bytes_consumed = 0
    BY <1>2, <2>1 DEF LoopInv, Plain, Busy, Holding
  <2>6. r = t /\ r \in Nat
    <3>1. r \in Nat /\ u \in Nat /\ a \in Nat /\ t \in Nat BY DEF LoopTypeOK, CmdOK, Cmds
    <3>2. r = u + a /\ r <= t BY <2>2
    <3> HIDE DEF r, u, a, t
    <3> QED BY <2>5, <3>1, <3>2
  <2>7. ~Holding' BY <1>3 DEF Holding
  <2>8. Counted'
    <3>1. Len(got) = Base + 11 + c.total_bytes_read + (IF step = "payload" THEN Len(buffer) ELSE 0)
      BY <1>9, <2>1 DEF Straight, Counted
    <3> DEFINE y == Base + 11 + c.total_bytes_read
               z == IF step = "payload" THEN Len(buffer) ELSE 0
               w == Len(buffer')
    <3>2. z = 0 /\ w = 0 /\ Len(got) = y + z BY <1>2, <1>4, <3>1
    <3>3. y \in Nat BY <2>3, <2>6
    <3>4. y = Base' BY <2>2, <2>4, <2>6
    <3> HIDE DEF y, z, w
    <3>5. Len(got') = y + w BY <1>8, <3>2, <3>3 DEF AskFrame
    <3>6. answered' <= Len(plan'.script)
      <4>1. answered \in Nat /\ Len(plan.script) \in Nat
        BY DEF LoopTypeOK, PlanTypeOK, Scripts
      <4> QED BY <1>2, <2>2, <4>1
    <3> QED BY <1>2, <2>7, <3>4, <3>5, <3>6 DEF Counted, w
  <2>9. HeaderRead' /\ Current' /\ Offered' BY <1>2, <2>7 DEF HeaderRead, Current, Offered
  <2>10. Carrying'
    <3>1. mem = Partial(Past.mem, This, Done) BY <1>9, <2>1 DEF Straight, Carrying
    <3>2. Done = Len(This.payload)
      <4>1. Done = u + c.bytes_consumed BY DEF Done
      <4>2. u \in Nat BY <2>5, <2>6
      <4>3. Done = u BY <2>5, <4>1, <4>2
      <4> QED BY <2>2, <2>5, <4>3
    <3>3. mem = Effects(Past.mem, This) BY <2>3, <3>1, <3>2, PartialAll
    <3>4. Past'.mem = Effects(Past.mem, This) BY <2>4, ThenIs
    <3> QED BY <1>2, <2>7, <3>3, <3>4 DEF Carrying
  <2>11. Heard'
    <3>1. Told' = 0 BY <1>2, <2>7 DEF Told
    <3>2. Offers(DataLen) /\ Len(data) = 1 BY <1>2, <1>9 DEF Straight, Offered
    <3>3. sent = 1
      <4>1. fn = "write" /\ on
        BY <1>2, <1>9 DEF LoopInv, Plain, InCall, WriteSteps, Orderly, SameSession
      <4> QED BY <1>2, <3>2, <4>1 DEF LinkInv, Placed
    <3>4. Issued = 1 BY <1>2, <3>3 DEF Issued, Pending
    <3>5. Told = DataLen + 1 BY <1>2, <3>4 DEF Told
    <3>6. Told = Len(Replies) /\ Len(Replies) \in Nat
      <4>1. DataLen = Len(Replies) - 1 BY DEF DataLen
      <4>2. Len(Replies) \in Nat BY <2>3
      <4> HIDE DEF DataLen, Told
      <4> QED BY <3>5, <4>1, <4>2
    <3>7. /\ Len(down) <= Len(Past.said) + Told /\ Begins(down, Final)
          /\ active = 1 => Len(down) = Len(Past.said) + Told
      BY <1>9 DEF Straight, Heard
    <3> DEFINE p == Len(Past'.said)
               q == Len(Past.said)
    <3>8. p = q + Told /\ p \in Nat BY <2>3, <2>4, <3>6
    <3>9. Len(down) <= q + Told /\ (active = 1 => Len(down) = q + Told) BY <3>7
    <3> HIDE DEF p, q, Told
    <3>10. Len(down) <= p + Told' /\ (active = 1 => Len(down) = p + Told') BY <3>1, <3>8, <3>9
    <3> QED BY <1>8, <2>4, <3>7, <3>10 DEF Heard, AskFrame, p
  <2> QED BY <2>8, <2>9, <2>10, <2>11 DEF Straight
<1> QED BY <1>1, <1>2, <1>5, <1>6, <1>7, <1>9, AskedInv

(* A byte that was read between two commands is the code of the next one. *)
LEMMA NextCommand ==
  ASSUME LoopTypeOK, LinkInv, LoopInv, Orderly, Straight, step = "fetch", at = "done",
         buffer # <<>>
  PROVE  /\ answered < Len(plan.script) /\ buffer[1] = This.cmd /\ buffer[1] # Codes.IDLE
         /\ Len(got) = Base + 1
<1>1. /\ buffer \in Seq(Bytes) /\ Len(buffer) <= 1
  <2>1. fn = "read" /\ maxlen = 1 BY DEF LoopInv, Plain, InCall, Room, ReadSteps
  <2> QED BY <2>1 DEF LoopInv, Plain, Bought, LinkInv, LinkTypeOK
<1>2. Len(buffer) = 1
  <2>1. Len(buffer) # 0 BY <1>1, EmptySeq
  <2>2. Len(buffer) \in Nat /\ Len(buffer) <= 1 BY <1>1
  <2> DEFINE b == Len(buffer)
  <2> HIDE DEF b
  <2>3. b = 1 BY <2>1, <2>2 DEF b
  <2> QED BY <2>3 DEF b
<1>3. Len(got) = Base + Len(buffer) /\ answered <= Len(plan.script) BY DEF Straight, Counted
<1>4. Base \in Nat BY <1>3, SessionIs
<1>5. Reads(Base)
  <2>1. fn = "read" BY DEF LoopInv, Plain, InCall, ReadSteps
  <2> DEFINE x == Base
  <2>2. x \in Nat /\ Len(got) = x + Len(buffer) BY <1>3, <1>4
  <2> HIDE DEF x
  <2>3. Reads(x) BY <2>1, <2>2, ReadIs
  <2> QED BY <2>3 DEF x
<1>6. answered < Len(plan.script)
  <2>1. answered \in Nat /\ Len(plan.script) \in Nat BY DEF LoopTypeOK, PlanTypeOK, Scripts
  <2>2. ASSUME answered = Len(plan.script) PROVE FALSE
    <3>1. Base = Len(plan.stream) BY <2>2 DEF Base, LoopTypeOK, PlanTypeOK, Stream
    <3>2. Base + 1 <= Len(plan.stream) BY <1>2, <1>5 DEF Reads
    <3> HIDE DEF Base
    <3> QED BY <1>4, <3>1, <3>2
  <2> QED BY <1>3, <2>1, <2>2
<1>7. /\ This \in Commands /\ Len(Flat(This)) = 11 + Len(This.payload)
      /\ \A i \in 1 .. Len(Flat(This)) : plan.stream[Base + i] = Flat(This)[i]
  BY <1>6, ThisIs
<1>8. Flat(This)[1] = This.cmd BY <1>7, FlatIs
<1>9. 1 \in 1 .. Len(Flat(This))
  <2>1. Len(This.payload) \in Nat BY <1>7 DEF Commands
  <2> QED BY <1>7, <2>1
<1>10. buffer[1] = plan.stream[Base + 1] BY <1>2, <1>5 DEF Reads
<1>11. buffer[1] = This.cmd BY <1>7, <1>8, <1>9, <1>10
<1>12. This.cmd # Codes.IDLE BY <1>7 DEF Commands
<1> QED BY <1>2, <1>3, <1>6, <1>11, <1>12

LEMMA FetchHolds ==
  ASSUME LoopTypeOK, LoopTypeOK', LinkInv, LoopInv, Fetch
  PROVE  LoopInv'
<1>1. Asks BY FetchStep DEF LinkInv
<1>2. /\ step = "fetch" /\ at = "done" /\ UNCHANGED <<ofs, mem, plan, clean, mem0, answered>>
      /\ c' = [c EXCEPT !.cmd = IF buffer = <<>> THEN @ ELSE buffer[1]]
  BY DEF Fetch, LoopKeepsPast, pastVars
<1>3. c \in Cmds /\ c.cmd = Codes.IDLE BY <1>2 DEF LoopTypeOK, CmdOK, LoopInv, Plain, Busy
<1>4. AskFrame BY <1>1, <1>2, AskedHolds
<1>5. UNCHANGED Standing BY <1>2 DEF Standing
<1> USE <1>5, Stands
<1>6. ~Holding BY <1>3 DEF Holding
<1>7. Told = 0 BY <1>2, <1>6 DEF Told
<1>8. CASE c'.cmd = Codes.IDLE
  <2>1. UNCHANGED commsVars /\ step' = "process" /\ UNCHANGED hdr BY <1>8 DEF Fetch
  <2>2. at' = "done" BY <1>2, <2>1 DEF commsVars
  <2>3. Called' BY <2>1, <2>2 DEF Called, ReadSteps, WriteSteps, Calling
  <2>4. Room' BY <2>1 DEF Room
  <2>5. Busy' BY <1>8, <2>1 DEF Busy
  <2>6. ASSUME Orderly, Straight PROVE Straight'
    <3>1. buffer = <<>>
      <4>1. ASSUME buffer # <<>> PROVE FALSE
        <5>1. buffer[1] # Codes.IDLE BY <1>2, <2>6, <4>1, NextCommand
        <5>2. c'.cmd = buffer[1] BY <1>2, <1>3, <4>1 DEF Cmds
        <5> QED BY <1>8, <5>1, <5>2
      <4> QED BY <4>1
    <3>2. answered <= Len(plan.script) /\ Len(got) = Base + Len(buffer)
      BY <1>2, <2>6 DEF Straight, Counted
    <3>3. Base \in Nat BY <3>2, SessionIs
    <3>4. Len(got) = Base BY <3>1, <3>2, <3>3
    <3>5. ~Holding' BY <1>8 DEF Holding
    <3>6. Counted' BY <1>2, <1>4, <2>1, <3>2, <3>4, <3>5 DEF Counted, AskFrame
    <3>7. HeaderRead' /\ Current' /\ Offered' BY <2>1, <3>5 DEF HeaderRead, Current, Offered
    <3>8. Carrying' BY <1>2, <1>6, <2>6, <3>5 DEF Straight, Carrying
    <3>9. Told' = Told BY <1>7, <2>1, <3>5 DEF Told
    <3>10. Heard' BY <1>4, <2>6, <3>9 DEF Straight, Heard, AskFrame
    <3> QED BY <3>6, <3>7, <3>8, <3>10 DEF Straight
  <2> QED BY <1>1, <1>2, <2>3, <2>4, <2>5, <2>6, AskedInv
<1>9. CASE c'.cmd # Codes.IDLE
  <2>1. CallRead(HeaderSize) /\ step' = "header" /\ hdr' = <<>> BY <1>9 DEF Fetch
  <2>2. fn' = "read" /\ maxlen' = HeaderSize /\ buffer' = <<>> BY <2>1 DEF CallRead, Call
  <2>3. Called' BY <2>1, <2>2 DEF Called, ReadSteps, WriteSteps, Calling
  <2>4. Room' BY <2>1, <2>2 DEF Room, HeaderSize
  <2>5. Busy' BY <1>9, <2>1 DEF Busy
  <2>6. ASSUME Orderly, Straight PROVE Straight'
    <3>1. buffer # <<>>
      <4>1. ASSUME buffer = <<>> PROVE FALSE
        <5>1. c'.cmd = c.cmd BY <1>2, <1>3, <4>1 DEF Cmds
        <5> QED BY <1>3, <1>9, <5>1
      <4> QED BY <4>1
    <3>2. /\ answered < Len(plan.script) /\ buffer[1] = This.cmd
          /\ Len(got) = Base + 1
      BY <1>2, <2>6, <3>1, NextCommand
    <3>3. c'.cmd = This.cmd BY <1>2, <1>3, <3>1, <3>2 DEF Cmds
    <3>4. ~Holding' BY <2>1 DEF Holding
    <3>5. answered <= Len(plan.script) BY <2>6 DEF Straight, Counted
    <3>6. Base \in Nat BY <3>5, SessionIs
    <3>7. Counted'
      <4>1. Len(hdr') = 0 /\ Len(buffer') = 0 BY <2>1, <2>2
      <4> DEFINE h == Len(hdr')
                 b == Len(buffer')
                 z == Base
      <4>2. h = 0 /\ b = 0 /\ z \in Nat /\ Len(got) = z + 1 BY <3>2, <3>6, <4>1
      <4> HIDE DEF h, b, z
      <4>3. Len(got') = z + 1 + h + b BY <1>4, <4>2 DEF AskFrame
      <4> QED BY <1>2, <2>1, <3>4, <3>5, <4>3 DEF Counted, h, b, z
    <3>8. HeaderRead' BY <1>2, <2>1, <3>2, <3>3 DEF HeaderRead
    <3>9. Current' /\ Offered' BY <2>1, <3>4 DEF Current, Offered
    <3>10. Carrying' BY <1>2, <1>6, <2>6, <3>4 DEF Straight, Carrying
    <3>11. Told' = Told BY <1>7, <2>1, <3>4 DEF Told
    <3>12. Heard' BY <1>4, <2>6, <3>11 DEF Straight, Heard, AskFrame
    <3> QED BY <3>7, <3>8, <3>9, <3>10, <3>12 DEF Straight
  <2> QED BY <1>1, <1>2, <2>3, <2>4, <2>5, <2>6, AskedInv
<1> QED BY <1>8, <1>9

-----------------------------------------------------------------------------
(* The header so far is the beginning of what the host sends. *)
HeaderIs(h) ==
  /\ h \in Seq(Bytes) /\ Len(h) <= HeaderSize
  /\ Orderly /\ Straight =>
       /\ Len(got) = Base + 1 + Len(h)
       /\ \A i \in 1 .. Len(h) : h[i] = plan.stream[Base + 1 + i]
LEMMA HeaderSoFar ==
  ASSUME LoopTypeOK, LinkInv, LoopInv, step = "header", at = "done"
  PROVE  HeaderIs(hdr \o buffer)
<1> DEFINE h == hdr \o buffer
           l == Len(hdr)
           b == Len(buffer)
<1>1. hdr \in Seq(Bytes) /\ buffer \in Seq(Bytes) BY DEF LoopTypeOK, LinkInv, LinkTypeOK
<1>2. h \in Seq(Bytes) /\ Joins(h, hdr, buffer) BY <1>1, Joined
<1>3. l \in Nat /\ b \in Nat BY <1>1
<1>4. fn = "read" /\ maxlen = HeaderSize - l BY DEF LoopInv, Plain, InCall, Room, ReadSteps
<1>5. b <= maxlen BY <1>4 DEF LoopInv, Plain, Bought
<1> HIDE DEF h
<1>6. Len(h) = l + b BY <1>2 DEF Joins
<1>7. Len(h) <= HeaderSize
  <2> HIDE DEF l, b
  <2> QED BY <1>3, <1>4, <1>5, <1>6 DEF HeaderSize
<1>8. ASSUME Orderly, Straight
      PROVE  /\ Len(got) = Base + 1 + Len(h)
             /\ \A i \in 1 .. Len(h) : h[i] = plan.stream[Base + 1 + i]
  <2>1. answered <= Len(plan.script) /\ Len(got) = Base + 1 + l + b BY <1>8 DEF Straight, Counted
  <2>2. Base \in Nat BY <2>1, SessionIs
  <2> DEFINE y == Base
             x == y + 1 + l
  <2>3. x \in Nat /\ Len(got) = x + Len(buffer) BY <1>3, <2>1, <2>2
  <2>4. \A i \in 1 .. l : hdr[i] = plan.stream[Base + 1 + i]
    BY <1>8 DEF Straight, HeaderRead
  <2> HIDE DEF x
  <2>5. Reads(x) BY <1>4, <1>8, <2>3, ReadIs
  <2>6. Len(got) = Base + 1 + Len(h)
    <3> HIDE DEF l, b, y
    <3>1. Len(got) = y + 1 + (l + b) BY <1>3, <2>1, <2>2 DEF y
    <3> QED BY <1>6, <3>1 DEF y
  <2>7. ASSUME NEW i \in 1 .. Len(h) PROVE h[i] = plan.stream[y + 1 + i]
    <3>1. CASE i <= l
      <4>1. i \in 1 .. l BY <1>3, <3>1
      <4> QED BY <1>2, <2>4, <4>1 DEF Joins
    <3>2. CASE ~(i <= l)
      <4> DEFINE j == i - l
      <4>1. j \in 1 .. b /\ l + j = i /\ x + j = y + 1 + i
        <5>1. i \in 1 .. l + b /\ y \in Nat BY <1>6, <2>2
        <5> HIDE DEF l, b, y
        <5> QED BY <1>3, <3>2, <5>1 DEF x
      <4> HIDE DEF j
      <4>2. h[l + j] = buffer[j] BY <1>2, <4>1 DEF Joins
      <4>3. buffer[j] = plan.stream[x + j] BY <2>5, <4>1 DEF Reads
      <4> QED BY <4>1, <4>2, <4>3
    <3> QED BY <3>1, <3>2
  <2> QED BY <2>6, <2>7
<1>9. HeaderIs(h) BY <1>2, <1>7, <1>8 DEF HeaderIs
<1> QED BY <1>9 DEF h

(* A header that is complete. *)
Decoded(h) ==
  [c EXCEPT !.arg0 = U32(h, 1), !.arg1 = U32(h, 5), !.total_bytes = U16(h, 9),
            !.total_bytes_read = 0, !.total_bytes_consumed = 0,
            !.bytes_avail = 0, !.bytes_consumed = 0, !.buffer = <<>>]
LEMMA DecodedIs ==
  ASSUME c \in Cmds, NEW h \in Seq(Bytes), Len(h) = HeaderSize, c' = Decoded(h)
  PROVE  /\ c'.cmd = c.cmd /\ c'.arg0 = U32(h, 1) /\ c'.arg1 = U32(h, 5)
         /\ c'.total_bytes = U16(h, 9) /\ c'.total_bytes_read = 0
         /\ c'.total_bytes_consumed = 0 /\ c'.bytes_avail = 0 /\ c'.bytes_consumed = 0
<1> DEFINE x == U32(h, 1)
           y == U32(h, 5)
           z == U16(h, 9)
           e == <<>>
<1>1. c' = [c EXCEPT !.arg0 = x, !.arg1 = y, !.total_bytes = z,
                     !.total_bytes_read = 0, !.total_bytes_consumed = 0,
                     !.bytes_avail = 0, !.bytes_consumed = 0, !.buffer = e]
  BY DEF Decoded
<1> HIDE DEF x, y, z, e
<1>2. /\ c'.cmd = c.cmd /\ c'.arg0 = x /\ c'.arg1 = y
      /\ c'.total_bytes = z /\ c'.total_bytes_read = 0
      /\ c'.total_bytes_consumed = 0 /\ c'.bytes_avail = 0 /\ c'.bytes_consumed = 0
  BY <1>1 DEF Cmds
<1> QED BY <1>2 DEF x, y, z

LEMMA HeaderHolds ==
  ASSUME LoopTypeOK, LoopTypeOK', LinkInv, LoopInv, Header
  PROVE  LoopInv'
<1> DEFINE h == hdr \o buffer
<1>1. Asks BY HeaderStep DEF LinkInv
<1>2. step = "header" /\ at = "done" /\ UNCHANGED <<ofs, mem, plan, clean, mem0, answered>>
  BY DEF Header, LoopKeepsPast, pastVars
<1>3. c.cmd # Codes.IDLE BY <1>2 DEF LoopInv, Plain, Busy
<1>4. AskFrame BY <1>1, <1>2, AskedHolds
<1>5. UNCHANGED Standing BY <1>2 DEF Standing
<1> USE <1>5, Stands
<1>6. HeaderIs(h) BY <1>2, HeaderSoFar
<1>7. ~Holding /\ Told = 0 BY <1>2 DEF Holding, Told
<1>8. CASE Len(h) < HeaderSize
  <2>1. hdr' = h /\ CallRead(HeaderSize - Len(h)) /\ UNCHANGED <<step, c>> BY <1>8 DEF Header, Kept
  <2>2. fn' = "read" /\ maxlen' = HeaderSize - Len(hdr') /\ buffer' = <<>>
    BY <2>1 DEF CallRead, Call
  <2>3. Called' BY <1>2, <2>1, <2>2 DEF Called, ReadSteps, WriteSteps, Calling
  <2>4. Room' BY <1>2, <2>1, <2>2 DEF Room
  <2>5. Busy' BY <1>2, <1>3, <2>1 DEF Busy
  <2>6. ASSUME Orderly, Straight PROVE Straight'
    <3>1. ~Holding' BY <1>2, <2>1 DEF Holding
    <3>2. /\ answered < Len(plan.script) /\ c.cmd = This.cmd
          /\ answered <= Len(plan.script)
      BY <1>2, <2>6 DEF Straight, HeaderRead, Counted
    <3>3. Base \in Nat BY <3>2, SessionIs
    <3>4. /\ h \in Seq(Bytes) /\ Len(got) = Base + 1 + Len(h)
          /\ \A i \in 1 .. Len(h) : h[i] = plan.stream[Base + 1 + i]
      BY <1>6, <2>6 DEF HeaderIs
    <3>5. Counted'
      <4> DEFINE l == Len(hdr')
                 b == Len(buffer')
                 z == Base
      <4>1. l \in Nat /\ b = 0 /\ z \in Nat /\ Len(got) = z + 1 + l BY <2>1, <2>2, <3>3, <3>4
      <4> HIDE DEF l, b, z
      <4>2. Len(got') = z + 1 + l + b BY <1>4, <4>1 DEF AskFrame
      <4> QED BY <1>2, <2>1, <3>1, <3>2, <4>2 DEF Counted, l, b, z
    <3>6. HeaderRead'
      <4> HIDE DEF h
      <4> QED BY <1>2, <2>1, <3>2, <3>4 DEF HeaderRead
    <3>7. Current' /\ Offered' BY <1>2, <2>1, <3>1 DEF Current, Offered
    <3>8. Carrying' BY <1>2, <1>7, <2>6, <3>1 DEF Straight, Carrying
    <3>9. Told' = Told BY <1>2, <1>7, <2>1, <3>1 DEF Told
    <3>10. Heard' BY <1>4, <2>6, <3>9 DEF Straight, Heard, AskFrame
    <3> QED BY <3>5, <3>6, <3>7, <3>8, <3>10 DEF Straight
  <2> QED BY <1>1, <1>2, <2>3, <2>4, <2>5, <2>6, AskedInv
<1>9. CASE ~(Len(h) < HeaderSize)
  <2>1. c' = Decoded(h) /\ hdr' = <<>> /\ Payload(c') BY <1>9 DEF Header, Decoded
  <2>2. h \in Seq(Bytes) /\ Len(h) = HeaderSize
    <3> HIDE DEF h
    <3>1. h \in Seq(Bytes) /\ Len(h) <= HeaderSize BY <1>6 DEF HeaderIs
    <3> DEFINE l == Len(h)
    <3>2. l \in Nat /\ l <= 10 /\ ~(l < 10) BY <1>9, <3>1 DEF HeaderSize
    <3> HIDE DEF l
    <3>3. l = HeaderSize BY <3>2 DEF HeaderSize
    <3> QED BY <3>1, <3>3 DEF l
  <2> HIDE DEF h
  <2>3. c \in Cmds BY DEF LoopTypeOK, CmdOK
  <2>4. /\ c'.cmd = c.cmd /\ c'.arg0 = U32(h, 1) /\ c'.arg1 = U32(h, 5)
        /\ c'.total_bytes = U16(h, 9) /\ c'.total_bytes_read = 0
        /\ c'.total_bytes_consumed = 0 /\ c'.bytes_avail = 0 /\ c'.bytes_consumed = 0
    BY <2>1, <2>2, <2>3, DecodedIs
  <2>5. ASSUME Orderly, Straight
        PROVE  /\ Len(got) = Base + 11 + c'.total_bytes_read
               /\ (step' # "header" => Current' /\ Carrying')
               /\ Told = 0
    <3>1. /\ answered < Len(plan.script) /\ c.cmd = This.cmd
          /\ answered <= Len(plan.script)
      BY <1>2, <2>5 DEF Straight, HeaderRead, Counted
    <3>2. /\ This \in Commands /\ Proper(This) /\ Base \in Nat /\ Past.mem \in Memory
          /\ Len(Flat(This)) = 11 + Len(This.payload)
          /\ \A i \in 1 .. Len(Flat(This)) : plan.stream[Base + i] = Flat(This)[i]
      BY <3>1, ThisIs
    <3>3. /\ Len(got) = Base + 1 + 10
          /\ \A i \in 1 .. 10 : h[i] = plan.stream[Base + 1 + i]
      BY <1>6, <2>2, <2>5 DEF HeaderIs, HeaderSize
    <3> DEFINE y == Base
               k == This
               f == Flat(k)
    <3>4. Len(got) = y + 11 + c'.total_bytes_read
      <4>1. y \in Nat /\ Len(got) = y + 1 + 10 BY <3>2, <3>3
      <4> HIDE DEF y
      <4> QED BY <2>4, <4>1
    <3>5. Len(k.payload) \in Nat BY <3>2 DEF Commands
    <3>6. ASSUME NEW i \in 1 .. 10 PROVE h[i] = f[1 + i]
      <4>1. 1 + i \in 1 .. Len(f)
        <5> DEFINE n == Len(k.payload)
                   m == Len(f)
        <5>1. n \in Nat /\ m = 11 + n BY <3>2, <3>5
        <5> HIDE DEF n, m
        <5>2. 1 + i \in 1 .. m BY <5>1
        <5> QED BY <5>2 DEF m
      <4>2. y + 1 + i = y + (1 + i)
        <5>1. y \in Nat BY <3>2
        <5> HIDE DEF y
        <5> QED BY <5>1
      <4>3. plan.stream[y + (1 + i)] = f[1 + i] BY <3>2, <4>1
      <4>4. h[i] = plan.stream[y + 1 + i] BY <3>3
      <4> QED BY <4>2, <4>3, <4>4
    <3>7. k \in Commands /\ Proper(k) /\ \A i \in 1 .. 10 : h[i] = Flat(k)[1 + i] BY <3>2, <3>6
    <3>8. U32(h, 1) = k.arg0 /\ U32(h, 5) = k.arg1 /\ U16(h, 9) = Len(k.payload)
      <4> HIDE DEF k
      <4> QED BY <2>2, <3>7, HeaderDecodes
    <3>9. ASSUME step' # "header" PROVE Current' /\ Carrying'
      <4>1. Holding' BY <1>3, <2>4, <3>9 DEF Holding
      <4>2. Len(This.payload) \in Nat BY <3>5
      <4>3. Current'
        <5>1. 0 = 0 + 0 /\ 0 <= Len(This.payload) /\ 1 .. 0 = {} BY <4>2
        <5> QED BY <1>2, <2>4, <3>1, <3>8, <5>1 DEF Current
      <4>4. Carrying'
        <5>1. Done' = 0 BY <2>4 DEF Done
        <5>2. mem' = Past.mem BY <1>2, <1>7, <2>5 DEF Straight, Carrying
        <5>3. mem' = Partial(Past.mem, This, 0) BY <3>2, <5>2, PartialNone
        <5> QED BY <4>1, <5>1, <5>3 DEF Carrying
      <4> QED BY <4>3, <4>4
    <3> QED BY <1>7, <3>4, <3>9
  <2> QED BY <1>2, <1>3, <2>1, <2>4, <2>5, PayloadHolds
<1> QED BY <1>8, <1>9

(* The next piece of the payload is behind the last. *)
LEMMA GotPayloadHolds ==
  ASSUME LoopTypeOK, LoopTypeOK', LinkInv, LoopInv, GotPayload
  PROVE  LoopInv'
<1> DEFINE n == Len(buffer)
           s == c.buffer \o buffer
           r == c.total_bytes_read
           u == c.total_bytes_consumed
           a == c.bytes_avail
           t == c.total_bytes
<1>1. /\ step = "payload" /\ at = "done" /\ step' = "process"
      /\ UNCHANGED <<hdr, ofs, mem, plan, clean, mem0, answered, commsVars>>
      /\ c' = [c EXCEPT !.buffer = @ \o buffer,
                        !.bytes_avail = @ + Len(buffer), !.total_bytes_read = @ + Len(buffer)]
  BY DEF GotPayload, LoopKeepsPast, pastVars, LocalStep
<1>2. Asks BY <1>1 DEF Asks
<1>3. c \in Cmds /\ Len(c.buffer) = a BY DEF LoopTypeOK, CmdOK
<1>4. /\ c.buffer \in Seq(Bytes) /\ buffer \in Seq(Bytes)
      /\ n \in Nat /\ r \in Nat /\ u \in Nat /\ a \in Nat /\ t \in Nat
  BY <1>3 DEF Cmds, LinkInv, LinkTypeOK
<1>5. Joins(s, c.buffer, buffer) BY <1>4, Joined
<1> HIDE DEF s
<1>6. /\ c'.cmd = c.cmd /\ c'.arg0 = c.arg0 /\ c'.arg1 = c.arg1 /\ c'.total_bytes = t
      /\ c'.bytes_consumed = c.bytes_consumed /\ c'.total_bytes_consumed = u
      /\ c'.buffer = s /\ c'.bytes_avail = a + n /\ c'.total_bytes_read = r + n
  <2> DEFINE x == a + n
             y == r + n
  <2>1. c' = [c EXCEPT !.buffer = s, !.bytes_avail = x, !.total_bytes_read = y]
    BY <1>1, <1>3 DEF Cmds, s
  <2> HIDE DEF x, y
  <2>2. /\ c'.cmd = c.cmd /\ c'.arg0 = c.arg0 /\ c'.arg1 = c.arg1 /\ c'.total_bytes = c.total_bytes
        /\ c'.bytes_consumed = c.bytes_consumed /\ c'.total_bytes_consumed = c.total_bytes_consumed
        /\ c'.buffer = s /\ c'.bytes_avail = x /\ c'.total_bytes_read = y
    BY <1>3, <2>1 DEF Cmds
  <2> QED BY <2>2 DEF x, y
<1>7. c.cmd # Codes.IDLE /\ c.bytes_consumed = 0 BY <1>1 DEF LoopInv, Plain, Busy
<1>8. Called'
  <2>1. at' = "done" BY <1>1 DEF commsVars
  <2> QED BY <1>1, <2>1 DEF Called, ReadSteps, WriteSteps, Calling
<1>9. Room' BY <1>1 DEF Room
<1>10. Busy' BY <1>1, <1>6, <1>7 DEF Busy
<1>11. fn = "read" /\ r + maxlen <= t /\ n <= maxlen /\ maxlen \in Nat
  <2>1. fn = "read" /\ r + maxlen <= t BY <1>1 DEF LoopInv, Plain, InCall, Room, ReadSteps
  <2> QED BY <2>1 DEF LoopInv, Plain, Bought, LinkInv, LinkTypeOK
<1>12. r + n <= t
  <2> HIDE DEF r, n, t
  <2> QED BY <1>4, <1>11
<1>13. AskFrame BY <1>1, <1>2, AskedHolds
<1>14. UNCHANGED Standing BY <1>1 DEF Standing
<1> USE <1>14, Stands
<1>15. ASSUME Orderly, Straight PROVE Straight'
  <2>1. Holding /\ Holding' BY <1>1, <1>6, <1>7 DEF Holding
  <2>2. /\ answered < Len(plan.script)
        /\ c.cmd = This.cmd /\ c.arg0 = This.arg0 /\ c.arg1 = This.arg1
        /\ t = Len(This.payload) /\ r = u + a
        /\ \A i \in 1 .. a : c.buffer[i] = This.payload[u + i]
    BY <1>15, <2>1 DEF Straight, Current
  <2>3. answered <= Len(plan.script) /\ Len(got) = Base + 11 + r + n
    BY <1>1, <1>15, <2>1 DEF Straight, Counted
  <2>4. /\ This \in Commands /\ Base \in Nat
        /\ Len(Flat(This)) = 11 + Len(This.payload)
        /\ \A i \in 1 .. Len(Flat(This)) : plan.stream[Base + i] = Flat(This)[i]
    BY <2>2, ThisIs
  <2> DEFINE z == Base
             x == z + 11 + r
             k == This
  <2>5. x \in Nat /\ Len(got) = x + Len(buffer) BY <1>4, <2>3, <2>4
  <2> HIDE DEF x
  <2>6. Reads(x) BY <1>1, <1>11, <1>15, <2>5, ReadIs
  <2>7. ASSUME NEW j \in 1 .. n PROVE buffer[j] = k.payload[r + j]
    <3>1. buffer[j] = plan.stream[x + j] BY <2>6 DEF Reads
    <3> DEFINE i == r + j
               m == Len(k.payload)
               q == Len(Flat(k))
    <3>2. i \in 1 .. m /\ 11 + i \in 1 .. q /\ x + j = z + (11 + i)
      <4>1. z \in Nat /\ m = t /\ q = 11 + m BY <2>2, <2>4
      <4>2. j \in 1 .. n OBVIOUS
      <4> HIDE DEF z, r, n, t, m, q
      <4> QED BY <1>4, <1>12, <4>1, <4>2 DEF x
    <3> HIDE DEF i
    <3>3. plan.stream[z + (11 + i)] = Flat(k)[11 + i] BY <2>4, <3>2
    <3>4. Flat(k)[11 + i] = k.payload[i] BY <2>4, <3>2, FlatIs
    <3>5. buffer[j] = k.payload[i] BY <3>1, <3>2, <3>3, <3>4
    <3> QED BY <3>5 DEF i
  <2>8. ASSUME NEW i \in 1 .. a + n PROVE s[i] = k.payload[u + i]
    <3>1. CASE i <= a
      <4>1. i \in 1 .. a BY <1>4, <3>1
      <4>2. s[i] = c.buffer[i] BY <1>3, <1>5, <4>1 DEF Joins
      <4> QED BY <2>2, <4>1, <4>2
    <3>2. CASE ~(i <= a)
      <4> DEFINE j == i - a
      <4>1. j \in 1 .. n /\ a + j = i /\ r + j = u + i
        <5>1. i \in 1 .. a + n /\ r = u + a BY <2>2
        <5> HIDE DEF a, n, r, u
        <5> QED BY <1>4, <3>2, <5>1
      <4> HIDE DEF j
      <4>2. s[a + j] = buffer[j] BY <1>3, <1>5, <4>1 DEF Joins
      <4>3. buffer[j] = k.payload[r + j] BY <2>7, <4>1
      <4> QED BY <4>1, <4>2, <4>3
    <3> QED BY <3>1, <3>2
  <2>9. r + n = u + (a + n)
    <3>1. r = u + a BY <2>2
    <3> HIDE DEF r, u, a, n
    <3> QED BY <1>4, <3>1
  <2>10. Current'
    <3> HIDE DEF s
    <3> QED BY <1>1, <1>6, <1>12, <2>2, <2>8, <2>9 DEF Current
  <2>11. Counted'
    <3> DEFINE w == r + n
    <3>1. Len(got) = z + 11 + w + 0
      <4>1. z \in Nat /\ Len(got) = z + 11 + r + n BY <2>3, <2>4
      <4> HIDE DEF z, r, n
      <4> QED BY <1>4, <4>1
    <3>2. c'.total_bytes_read = w BY <1>6
    <3> HIDE DEF w
    <3> QED BY <1>1, <1>13, <2>1, <2>3, <3>1, <3>2 DEF Counted, AskFrame
  <2>12. HeaderRead' /\ Offered' BY <1>1 DEF HeaderRead, Offered
  <2>13. Carrying'
    <3>1. Done' = Done BY <1>6 DEF Done
    <3> QED BY <1>1, <1>6, <1>15, <2>1, <3>1 DEF Straight, Carrying
  <2>14. Told' = Told BY <1>1 DEF Told
  <2>15. Heard' BY <1>13, <1>15, <2>14 DEF Straight, Heard, AskFrame
  <2> QED BY <2>10, <2>11, <2>12, <2>13, <2>15 DEF Straight
<1> QED BY <1>1, <1>2, <1>8, <1>9, <1>10, <1>15, AskedInv

-----------------------------------------------------------------------------
(* process_cmd: a piece is consumed. *)
Queries == {Codes.READ_BYTES, Codes.READ_WORDS}
LEMMA ConsumeIs ==
  ASSUME LoopTypeOK, NEW n \in Nat, Consume(n)
  PROVE  /\ c'.cmd = c.cmd /\ c'.arg0 = c.arg0 /\ c'.arg1 = c.arg1 /\ c'.bytes_consumed = n
         /\ c'.total_bytes = c.total_bytes /\ c'.total_bytes_read = c.total_bytes_read
         /\ c'.total_bytes_consumed = c.total_bytes_consumed
         /\ c'.bytes_avail = c.bytes_avail /\ c'.buffer = c.buffer
BY DEF LoopTypeOK, CmdOK, Cmds, Consume

LEMMA ConsumeHolds ==
  ASSUME LoopTypeOK, LoopTypeOK', LinkInv, LoopInv, step = "process", LocalStep("wait"),
         NEW n \in Nat, Consume(n), UNCHANGED <<hdr, clean, mem0, answered>>,
         c.cmd # Codes.IDLE, c.cmd \notin Queries,
         Orderly /\ Straight =>
           /\ mem' = Partial(Past.mem, This, c.total_bytes_consumed + n)
           /\ c.cmd \in Fills => c.total_bytes_consumed + n \in {0, c.total_bytes}
  PROVE  LoopInv'
<1>1. step' = "wait" /\ UNCHANGED <<commsVars, plan>> BY DEF LocalStep
<1>2. Asks BY <1>1 DEF Asks
<1>3. AskFrame BY <1>1, <1>2, AskedHolds
<1>4. /\ c'.cmd = c.cmd /\ c'.arg0 = c.arg0 /\ c'.arg1 = c.arg1 /\ c'.bytes_consumed = n
      /\ c'.total_bytes = c.total_bytes /\ c'.total_bytes_read = c.total_bytes_read
      /\ c'.total_bytes_consumed = c.total_bytes_consumed
      /\ c'.bytes_avail = c.bytes_avail /\ c'.buffer = c.buffer
  BY ConsumeIs
<1>5. at' = "done" BY <1>1 DEF LoopInv, Plain, InCall, Calling, commsVars
<1>6. Called' /\ Room' /\ Busy'
  BY <1>1, <1>5 DEF Called, Room, Busy, ReadSteps, WriteSteps, Calling
<1>7. UNCHANGED Standing BY <1>1 DEF Standing
<1> USE <1>7, Stands
<1>8. ASSUME Orderly, Straight PROVE Straight'
  <2>1. Holding /\ Holding' BY <1>1, <1>4 DEF Holding
  <2>2. answered < Len(plan.script) /\ c.cmd = This.cmd BY <1>8, <2>1 DEF Straight, Current
  <2>3. Counted' BY <1>1, <1>3, <1>4, <1>8, <2>1 DEF Straight, Counted, AskFrame
  <2>4. HeaderRead' /\ Offered' BY <1>1 DEF HeaderRead, Offered
  <2>5. Current' BY <1>1, <1>4, <1>8, <2>1 DEF Straight, Current
  <2>6. Carrying'
    <3>1. Done' = c.total_bytes_consumed + n BY <1>4 DEF Done
    <3>2. /\ mem' = Partial(Past.mem, This, c.total_bytes_consumed + n)
          /\ c.cmd \in Fills => c.total_bytes_consumed + n \in {0, c.total_bytes}
      BY <1>8
    <3> QED BY <1>4, <2>1, <3>1, <3>2 DEF Carrying
  <2>7. DataLen = 0 BY <2>2, OneByteReply DEF Queries
  <2>8. Told' = Told BY <1>1, <2>1, <2>7 DEF Told
  <2>9. Heard' BY <1>3, <1>8, <2>8 DEF Straight, Heard, AskFrame
  <2> QED BY <2>3, <2>4, <2>5, <2>6, <2>9 DEF Straight
<1> QED BY <1>1, <1>2, <1>6, <1>8, AskedInv

(* There was nothing to do. *)
LEMMA NothingHolds ==
  ASSUME LoopTypeOK, LinkInv, LoopInv, step = "process", LocalStep("wait"),
         UNCHANGED <<c, hdr, mem, clean, mem0, answered>>, c.cmd \notin Queries
  PROVE  LoopInv'
<1>1. step' = "wait" /\ UNCHANGED <<commsVars, plan>> BY DEF LocalStep
<1>2. Asks BY <1>1 DEF Asks
<1>3. at' = "done" BY <1>1 DEF LoopInv, Plain, InCall, Calling, commsVars
<1>4. UNCHANGED Standing BY <1>1 DEF Standing
<1>5. ASSUME Orderly, Straight PROVE Told' = Told
  <2>1. Told = 0 BY DEF Told
  <2>2. DataLen' = DataLen BY <1>4, Stands
  <2>3. CASE Holding
    <3>1. answered < Len(plan.script) /\ c.cmd = This.cmd BY <1>5, <2>3 DEF Straight, Current
    <3>2. DataLen = 0 BY <3>1, OneByteReply DEF Queries
    <3> QED BY <1>1, <2>1, <2>2, <3>2 DEF Told
  <2>4. CASE ~Holding
    <3>1. ~Holding' BY <1>1, <2>4 DEF Holding
    <3> QED BY <1>1, <2>1, <3>1 DEF Told
  <2> QED BY <2>3, <2>4
<1> QED BY <1>1, <1>2, <1>3, <1>5, QuietHolds DEF Quiet

(* A piece of a payload that is written. *)
LEMMA WriteHolds ==
  ASSUME LoopTypeOK, LoopTypeOK', LinkInv, LoopInv, step = "process",
         NEW n \in Nat, n <= c.bytes_avail, Consume(n), NEW b \in Seq(Bytes), Len(b) = n,
         \A i \in 1 .. n : b[i] = c.buffer[i], c.cmd \in Writes,
         Effect(c.arg0 + c.total_bytes_consumed, b),
         UNCHANGED <<hdr, clean, mem0, answered>>
  PROVE  LoopInv'
<1>1. c.cmd # Codes.IDLE /\ c.cmd \notin Queries /\ c.cmd \notin Fills
  BY CodesAre DEF Writes, Queries, Fills
<1>2. mem' = Copied(mem, c.arg0 + c.total_bytes_consumed, b) /\ LocalStep("wait") BY DEF Effect
<1> DEFINE u == c.total_bytes_consumed
           a == c.bytes_avail
           r == c.total_bytes_read
           t == c.total_bytes
<1>3. u \in Nat /\ a \in Nat /\ r \in Nat /\ t \in Nat BY DEF LoopTypeOK, CmdOK, Cmds
<1>4. ASSUME Orderly, Straight
      PROVE  mem' = Partial(Past.mem, This, u + n)
  <2>1. Holding BY <1>1 DEF Holding
  <2>2. /\ answered < Len(plan.script) /\ c.cmd = This.cmd /\ c.arg0 = This.arg0
        /\ t = Len(This.payload) /\ r = u + a /\ r <= t
        /\ \A i \in 1 .. a : c.buffer[i] = This.payload[u + i]
    BY <1>4, <2>1 DEF Straight, Current
  <2>3. This \in Commands /\ Proper(This) /\ Past.mem \in Memory BY <2>2, ThisIs
  <2>4. c.bytes_consumed = 0 BY <1>1 DEF LoopInv, Plain, Busy
  <2>5. Done = u
    <3>1. Done = u + c.bytes_consumed BY DEF Done
    <3> HIDE DEF u
    <3> QED BY <1>3, <2>4, <3>1
  <2>6. mem = Partial(Past.mem, This, u) BY <1>4, <2>1, <2>5 DEF Straight, Carrying
  <2>7. u + n <= Len(This.payload)
    <3>1. u + n <= t
      <4>1. n <= a /\ r = u + a /\ r <= t BY <2>2
      <4> HIDE DEF u, a, r, t
      <4> QED BY <1>3, <4>1
    <3> QED BY <2>2, <3>1
  <2>8. ASSUME NEW i \in 1 .. n PROVE b[i] = This.payload[u + i]
    <3>1. i \in 1 .. a
      <4> HIDE DEF a
      <4>1. n <= a BY DEF a
      <4> QED BY <1>3, <4>1
    <3> QED BY <2>2, <3>1
  <2> DEFINE m == Past.mem
             k == This
  <2>9. m \in Memory /\ k \in Commands /\ Proper(k) /\ k.cmd \in Writes /\ u + n <= Len(k.payload)
        /\ \A i \in 1 .. n : b[i] = k.payload[u + i]
    BY <2>2, <2>3, <2>7, <2>8
  <2> HIDE DEF m, k, u
  <2>10. Copied(Partial(m, k, u), k.arg0 + u, b) = Partial(m, k, u + n)
    BY <1>3, <2>9, PartialWrite, ZenonT(40)
  <2> QED BY <1>2, <2>2, <2>6, <2>10 DEF m, k, u
<1> QED BY <1>1, <1>2, <1>4, ConsumeHolds

(* What is filled with is there in one piece. *)
LEMMA FillHolds ==
  ASSUME LoopTypeOK, LoopTypeOK', LinkInv, LoopInv, step = "process",
         NEW n \in Nat \ {0}, n <= c.bytes_avail, Consume(c.bytes_avail), c.cmd \in Fills,
         Effect(c.arg0, Repeated(SubSeq(c.buffer, 1, n), AsSize(c.arg1))),
         answered < Len(plan.script) /\ c.cmd = This.cmd =>
           Len(This.payload) = n /\ This.arg1 < IntMod,
         UNCHANGED <<hdr, clean, mem0, answered>>
  PROVE  LoopInv'
<1>1. c.cmd # Codes.IDLE /\ c.cmd \notin Queries BY CodesAre DEF Queries, Fills
<1>2. /\ mem' = Copied(mem, c.arg0, Repeated(SubSeq(c.buffer, 1, n), AsSize(c.arg1)))
      /\ LocalStep("wait")
  BY DEF Effect
<1> DEFINE u == c.total_bytes_consumed
           a == c.bytes_avail
           r == c.total_bytes_read
           t == c.total_bytes
<1>3. u \in Nat /\ a \in Nat /\ r \in Nat /\ t \in Nat /\ c.buffer \in Seq(Bytes) /\ Len(c.buffer) = a
  BY DEF LoopTypeOK, CmdOK, Cmds
<1>4. ASSUME Orderly, Straight
      PROVE  mem' = Partial(Past.mem, This, u + a) /\ u + a = t
  <2>1. Holding BY <1>1 DEF Holding
  <2>2. /\ answered < Len(plan.script) /\ c.cmd = This.cmd /\ c.arg0 = This.arg0
        /\ c.arg1 = This.arg1 /\ t = Len(This.payload) /\ r = u + a /\ r <= t
        /\ \A i \in 1 .. a : c.buffer[i] = This.payload[u + i]
    BY <1>4, <2>1 DEF Straight, Current
  <2>3. This \in Commands /\ Proper(This) /\ Past.mem \in Memory BY <2>2, ThisIs
  <2>4. t = n /\ This.arg1 < IntMod BY <2>2
  <2>5. u = 0 /\ a = n /\ u + a = t
    <3>1. n <= a /\ r = u + a /\ r <= t /\ t = n BY <2>2, <2>4
    <3> HIDE DEF u, a, r, t
    <3> QED BY <1>3, <3>1
  <2>6. mem = Past.mem
    <3>1. c.bytes_consumed = 0 BY <1>1 DEF LoopInv, Plain, Busy
    <3>2. Done = 0 BY <2>5, <3>1 DEF Done
    <3>3. mem = Partial(Past.mem, This, 0) BY <1>4, <2>1, <3>2 DEF Straight, Carrying
    <3> QED BY <2>3, <3>3, PartialNone
  <2> DEFINE s == SubSeq(c.buffer, 1, n)
             p == This.payload
             k == This
             m == Past.mem
             w == c.arg1
  <2>7. s = p
    <3>1. p \in Seq(Bytes) /\ Len(p) = n BY <2>2, <2>3, <2>4 DEF Commands
    <3>2. \A i \in 1 .. n : c.buffer[i] = p[i]
      <4>1. \A i \in 1 .. n : u + i = i BY <2>5
      <4> QED BY <2>2, <2>5, <4>1
    <3>3. s = c.buffer
      <4> DEFINE z == c.buffer
      <4>1. z \in Seq(Bytes) /\ n = Len(z) BY <1>3, <2>5
      <4> HIDE DEF z
      <4>2. SubSeq(z, 1, n) = z BY <4>1, SubSeqFull
      <4> QED BY <4>2 DEF z
    <3> HIDE DEF s, p
    <3>4. s \in Seq(Bytes) /\ Len(s) = n BY <1>3, <2>5, <3>3
    <3>5. \A i \in 1 .. n : s[i] = p[i] BY <3>2, <3>3
    <3> QED BY <3>1, <3>4, <3>5, SeqEqual
  <2>8. AsSize(w) = w
    <3>1. w \in Nat /\ w < IntMod BY <2>2, <2>4 DEF LoopTypeOK, CmdOK, Cmds
    <3> HIDE DEF w
    <3>2. w \in 0 .. IntMod - 1 BY <3>1, LoopAssumption
    <3>3. w % IntMod = w BY <3>2, LoopAssumption, Within
    <3> QED BY <3>3 DEF AsSize
  <2>9. mem' = Copied(m, k.arg0, Repeated(k.payload, k.arg1)) BY <1>2, <2>2, <2>6, <2>7, <2>8
  <2>10. k.cmd \in Fills /\ u + a # 0 BY <2>2, <2>4, <2>5
  <2> DEFINE d == u + a
  <2> HIDE DEF m, k, d
  <2>11. Partial(m, k, d) = IF d = 0 THEN m ELSE Copied(m, k.arg0, Repeated(k.payload, k.arg1))
    BY <2>10, PartialKinds
  <2>12. mem' = Partial(m, k, d) BY <2>9, <2>10, <2>11 DEF d
  <2> QED BY <2>5, <2>12 DEF m, k, d
<1>5. Orderly /\ Straight =>
        /\ mem' = Partial(Past.mem, This, c.total_bytes_consumed + c.bytes_avail)
        /\ c.cmd \in Fills => c.total_bytes_consumed + c.bytes_avail \in {0, c.total_bytes}
  BY <1>4
<1> HIDE DEF a, u, r, t
<1>6. c.bytes_avail \in Nat BY <1>3 DEF a
<1> QED BY <1>1, <1>2, <1>5, <1>6, ConsumeHolds

-----------------------------------------------------------------------------
(* A command that sends data: nothing of it changes, but what is sent. *)
LEMMA CallHolds ==
  ASSUME LoopTypeOK, LinkInv, LoopInv, Asks, at' = "update", fn' = "write", sent' = 0,
         step \in {"process", "words"}, step' \in {"sent", "words"},
         UNCHANGED <<c, hdr, mem, plan, clean, mem0, answered>>,
         c.cmd # Codes.IDLE, Orderly /\ Straight => Offered' /\ Told' = Told
  PROVE  LoopInv'
<1>1. AskFrame BY AskedHolds
<1>2. UNCHANGED Standing BY DEF Standing
<1> USE <1>2, Stands
<1>3. Called' /\ Room' /\ Busy' BY DEF Called, Room, Busy, ReadSteps, WriteSteps, Calling
<1>4. ASSUME Orderly, Straight PROVE Straight'
  <2>1. Holding /\ Holding' /\ Done' = Done BY DEF Holding, Done
  <2>2. Counted' BY <1>1, <1>4, <2>1 DEF Straight, Counted, AskFrame
  <2>3. HeaderRead' BY DEF HeaderRead
  <2>4. Current' BY <1>4, <2>1 DEF Straight, Current
  <2>5. Carrying' BY <1>4, <2>1 DEF Straight, Carrying
  <2>6. Offered' /\ Told' = Told BY <1>4
  <2>7. Heard' BY <1>1, <1>4, <2>6 DEF Straight, Heard, AskFrame
  <2> QED BY <2>2, <2>3, <2>4, <2>5, <2>6, <2>7 DEF Straight
<1> QED BY <1>3, <1>4, AskedInv

(* What a command that reads has in hand. *)
LEMMA ReadingHolds ==
  ASSUME LoopTypeOK, LoopInv, Orderly, Straight, step \in {"process", "words"}, c.cmd \in Queries
  PROVE  /\ answered < Len(plan.script) /\ This \in Commands /\ Proper(This)
         /\ c.cmd = This.cmd /\ c.arg0 = This.arg0 /\ c.arg1 = This.arg1
         /\ Past.mem \in Memory /\ mem = Past.mem /\ DataLen \in Nat
<1>1. c.cmd # Codes.IDLE /\ c.cmd \notin Writes \cup Fills BY CodesAre DEF Queries, Writes, Fills
<1>2. Holding BY <1>1 DEF Holding
<1>3. /\ answered < Len(plan.script) /\ c.cmd = This.cmd /\ c.arg0 = This.arg0
      /\ c.arg1 = This.arg1
  BY <1>2 DEF Straight, Current
<1>4. This \in Commands /\ Proper(This) /\ Past.mem \in Memory /\ DataLen \in Nat BY <1>3, ThisIs
<1>5. mem = Partial(Past.mem, This, Done) BY <1>2 DEF Straight, Carrying
<1>6. mem = Past.mem BY <1>1, <1>3, <1>5, PartialKinds
<1> QED BY <1>3, <1>4, <1>6

LEMMA ReadBytesHolds ==
  ASSUME LoopTypeOK, LinkInv, LoopInv, step = "process", ReadBytes, Asks,
         UNCHANGED <<hdr, clean, mem0, answered>>
  PROVE  LoopInv'
<1> DEFINE d == IF AsInt(c.arg1) > 0 THEN MemAt(mem, c.arg0, AsInt(c.arg1)) ELSE <<>>
<1>1. c.cmd = Codes.READ_BYTES /\ CallWrite(d) /\ step' = "sent" /\ UNCHANGED <<c, mem, plan>>
  BY DEF ReadBytes
<1>2. at' = "update" /\ fn' = "write" /\ sent' = 0 /\ data' = d BY <1>1 DEF CallWrite, Call
<1>3. c.cmd # Codes.IDLE /\ c.cmd \in Queries BY <1>1, CodesAre DEF Queries
<1>4. UNCHANGED Standing BY <1>1 DEF Standing
<1> USE <1>4, Stands
<1>5. ASSUME Orderly, Straight PROVE Offered' /\ Told' = Told
  <2>1. /\ This \in Commands /\ Proper(This) /\ c.cmd = This.cmd /\ c.arg0 = This.arg0
        /\ c.arg1 = This.arg1 /\ Past.mem \in Memory /\ mem = Past.mem /\ DataLen \in Nat
    BY <1>3, <1>5, ReadingHolds
  <2> DEFINE m == Past.mem
             k == This
  <2>2. d = IF AsInt(k.arg1) > 0 THEN MemAt(m, k.arg0, AsInt(k.arg1)) ELSE <<>> BY <2>1
  <2>3. k.cmd = Codes.READ_BYTES BY <1>1, <2>1
  <2>4. Replies = Reply(m, k) BY DEF Replies
  <2> HIDE DEF m, k, d
  <2>5. m \in Memory /\ k \in Commands /\ Proper(k) BY <2>1 DEF m, k
  <2>6. d \in Seq(Bytes) /\ Len(d) = Len(Reply(m, k)) - 1
        /\ \A j \in 1 .. Len(d) : Reply(m, k)[j] = d[j]
    BY <2>2, <2>3, <2>5, ReadData, ZenonT(40)
  <2>7. Len(d) = DataLen BY <2>4, <2>6 DEF DataLen
  <2>8. \A j \in 1 .. Len(d) : 0 + j <= Len(Replies) /\ Replies[0 + j] = d[j]
    <3>1. Len(Replies) \in Nat BY <2>4, <2>5, ReplyType
    <3> SUFFICES ASSUME NEW j \in 1 .. Len(d)
                 PROVE  0 + j <= Len(Replies) /\ Replies[0 + j] = d[j]
      OBVIOUS
    <3> DEFINE l == Len(Replies)
               n == Len(d)
    <3>2. l \in Nat /\ n \in Nat /\ n = l - 1 /\ j \in 1 .. n BY <2>4, <2>6, <3>1
    <3> HIDE DEF l, n
    <3>3. 0 + j = j /\ j <= l BY <3>2
    <3> QED BY <2>4, <2>6, <3>3 DEF l
  <2>9. Offered' BY <1>1, <1>2, <2>7, <2>8 DEF Offered, Offers
  <2>10. Told' = Told
    <3>1. Issued' = 0 BY <1>2 DEF Issued, Pending
    <3>2. Told' = 0 BY <1>1, <3>1 DEF Told
    <3>3. Told = 0 BY DEF Told
    <3> QED BY <3>2, <3>3
  <2> QED BY <2>9, <2>10
<1> QED BY <1>1, <1>2, <1>3, <1>5, CallHolds

(* One word after the other. *)
LEMMA SendWordHolds ==
  ASSUME LoopTypeOK, LinkInv, LoopInv, Asks, UNCHANGED <<c, hdr, mem, clean, mem0, answered>>,
         NEW n \in Nat, SendWord(n), c.cmd # Codes.IDLE, at = "done", step \in {"process", "words"},
         Orderly /\ Straight => c.cmd = Codes.READ_WORDS /\ n <= c.arg1 /\ Told = 2 * n
  PROVE  LoopInv'
<1>1. CASE n < c.arg1
  <2>1. CallWrite(WordAt(n)) /\ step' = "words" /\ ofs' = n + 1 /\ UNCHANGED plan
    BY <1>1 DEF SendWord
  <2>2. at' = "update" /\ fn' = "write" /\ sent' = 0 /\ data' = WordAt(n)
    BY <2>1 DEF CallWrite, Call
  <2>3. UNCHANGED Standing BY <2>1 DEF Standing
  <2> USE <2>3, Stands
  <2>4. ASSUME Orderly, Straight PROVE Offered' /\ Told' = Told
    <3>1. c.cmd = Codes.READ_WORDS /\ Told = 2 * n BY <2>4
    <3>2. c.cmd \in Queries BY <3>1 DEF Queries
    <3>3. /\ This \in Commands /\ c.cmd = This.cmd /\ c.arg0 = This.arg0
          /\ c.arg1 = This.arg1 /\ Past.mem \in Memory /\ mem = Past.mem /\ DataLen \in Nat
      BY <2>4, <3>2, ReadingHolds
    <3> DEFINE m == Past.mem
               k == This
               d == WordAt(n)
               f == 2 * n
    <3>4. d = MemAt(m, FarPlus(k.arg0, 2 * n), 2) BY <3>3 DEF WordAt
    <3>5. m \in Memory /\ k \in Commands /\ k.cmd = Codes.READ_WORDS /\ n < k.arg1
      BY <1>1, <3>1, <3>3
    <3>6. Replies = Reply(m, k) BY DEF Replies
    <3> HIDE DEF m, k, d
    <3>7. /\ d \in Seq(Bytes) /\ Len(d) = 2 /\ 2 * n + 2 <= Len(Reply(m, k)) - 1
          /\ \A j \in 1 .. Len(d) : Reply(m, k)[2 * n + j] = d[j]
      BY <3>4, <3>5, WordData
    <3>8. 2 * ((n + 1) - 1) = f
      <4>1. (n + 1) - 1 = n OBVIOUS
      <4> QED BY <4>1
    <3>9. f \in Nat OBVIOUS
    <3>10. Len(Reply(m, k)) \in Nat BY <3>5, ReplyType
    <3>11. f + 2 <= Len(Replies) - 1 /\ \A j \in 1 .. 2 : Replies[f + j] = d[j]
      BY <3>6, <3>7
    <3>12. \A j \in 1 .. 2 : f + j <= Len(Replies) /\ Replies[f + j] = d[j]
      <4> DEFINE l == Len(Replies)
      <4>1. l \in Nat /\ f + 2 <= l - 1 BY <3>6, <3>10, <3>11
      <4> HIDE DEF f, l
      <4>2. \A j \in 1 .. 2 : f + j <= l BY <3>9, <4>1 DEF f
      <4> QED BY <3>11, <4>2 DEF l
    <3> DEFINE w == k.arg1
    <3>13. n + 1 \in 1 .. w
      <4>1. w \in Nat BY <3>5 DEF Commands
      <4>2. n < w BY <3>5
      <4> HIDE DEF w
      <4> QED BY <4>1, <4>2
    <3>14. ofs' \in 1 .. c'.arg1 /\ c'.cmd = Codes.READ_WORDS
      <4>1. c'.arg1 = w BY <3>3 DEF k
      <4> QED BY <2>1, <3>1, <3>13, <4>1
    <3>15. 2 * (ofs' - 1) = f BY <2>1, <3>8
    <3>16. Offered'
      <4>1. Len(data') = 2 /\ data' = d BY <2>2, <3>7 DEF d
      <4>2. \A j \in 1 .. Len(data') : f + j <= Len(Replies) /\ Replies[f + j] = data'[j]
        BY <3>12, <4>1
      <4>3. Offers(f)' BY <4>2 DEF Offers
      <4> HIDE DEF f
      <4> QED BY <2>1, <3>14, <3>15, <4>1, <4>2 DEF Offered, Offers
    <3>17. Told' = Told
      <4>1. Issued' = 0 BY <2>2 DEF Issued, Pending
      <4>2. Told' = f + 0 BY <2>1, <3>15, <4>1 DEF Told
      <4>3. Told = f BY <3>1
      <4> HIDE DEF f, Told
      <4> QED BY <3>9, <4>2, <4>3 DEF f
    <3> QED BY <3>16, <3>17
  <2> QED BY <2>1, <2>2, <2>4, CallHolds
<1>2. CASE ~(n < c.arg1)
  <2>1. step' = "wait" /\ UNCHANGED <<commsVars, plan>> BY <1>2 DEF SendWord, LocalStep
  <2>2. at' = "done" BY <2>1 DEF commsVars
  <2>3. UNCHANGED Standing BY <2>1 DEF Standing
  <2>4. ASSUME Orderly, Straight PROVE Told' = Told
    <3>1. c.cmd = Codes.READ_WORDS /\ n <= c.arg1 /\ Told = 2 * n BY <2>4
    <3>2. c.cmd \in Queries BY <3>1 DEF Queries
    <3>3. This \in Commands /\ c.cmd = This.cmd /\ c.arg1 = This.arg1 /\ Past.mem \in Memory
      BY <2>4, <3>2, ReadingHolds
    <3>4. c.arg1 = n
      <4> DEFINE w == c.arg1
      <4>1. w \in Nat /\ ~(n < w) /\ n <= w BY <1>2, <3>1 DEF LoopTypeOK, CmdOK, Cmds
      <4> HIDE DEF w
      <4>2. w = n BY <4>1
      <4> QED BY <4>2 DEF w
    <3>5. Len(Replies) = 2 * n + 1
      <4> DEFINE m == Past.mem
                 k == This
      <4>1. k.cmd = Codes.READ_WORDS /\ k.arg1 = n /\ m \in Memory /\ k \in Commands BY <3>1, <3>3, <3>4
      <4>2. Replies = Reply(m, k) BY DEF Replies
      <4> HIDE DEF m, k
      <4>3. Len(Reply(m, k)) = 2 * k.arg1 + 1 BY <4>1, ReplyType
      <4> QED BY <4>1, <4>2, <4>3
    <3>6. DataLen = 2 * n BY <3>5 DEF DataLen
    <3>7. Holding' BY <2>1 DEF Holding
    <3>8. Told' = DataLen' BY <2>1, <3>7 DEF Told
    <3>9. DataLen' = DataLen BY <2>3, Stands
    <3> QED BY <3>1, <3>6, <3>8, <3>9
  <2> QED BY <2>1, <2>2, <2>4, QuietHolds DEF Quiet
<1> QED BY <1>1, <1>2

LEMMA ReadWordsHold ==
  ASSUME LoopTypeOK, LinkInv, LoopInv, ReadWords
  PROVE  LoopInv'
<1>1. Asks /\ UNCHANGED plan BY ReadWordsStep DEF Carried
<1>2. UNCHANGED <<c, hdr, mem, clean, mem0, answered>> BY DEF ReadWords, LoopKeepsPast, pastVars
<1>3. CASE step = "process" /\ c.cmd = Codes.READ_WORDS /\ SendWord(0)
  <2>1. at = "done" BY <1>3 DEF LoopInv, Plain, InCall, Calling
  <2>2. c.cmd # Codes.IDLE BY <1>3, CodesAre
  <2>3. Told = 2 * 0 BY <1>3 DEF Told
  <2>4. 0 \in Nat /\ 0 <= c.arg1 BY DEF LoopTypeOK, CmdOK, Cmds
  <2> DEFINE zero == 0
  <2>5. zero \in Nat /\ zero <= c.arg1 /\ Told = 2 * zero /\ SendWord(zero) BY <1>3, <2>3, <2>4
  <2> HIDE DEF zero
  <2> QED BY <1>1, <1>2, <1>3, <2>1, <2>2, <2>5, SendWordHolds
<1>4. CASE step = "words" /\ at = "done" /\ SendWord(ofs)
  <2>1. c.cmd # Codes.IDLE BY <1>4 DEF LoopInv, Plain, Busy
  <2>2. ofs \in Nat BY DEF LoopTypeOK
  <2>3. ASSUME Orderly, Straight
        PROVE  c.cmd = Codes.READ_WORDS /\ ofs <= c.arg1 /\ Told = 2 * ofs
    <3>1. Len(data) = 2 /\ ofs \in 1 .. c.arg1 /\ c.cmd = Codes.READ_WORDS
      BY <1>4, <2>3 DEF Straight, Offered
    <3>2. fn = "write" /\ on
      BY <1>4, <2>3 DEF LoopInv, Plain, InCall, WriteSteps, Orderly, SameSession
    <3>3. sent = 2 BY <1>4, <3>1, <3>2 DEF LinkInv, Placed
    <3>4. Issued = 2 BY <1>4, <3>3 DEF Issued, Pending
    <3>5. Told = 2 * (ofs - 1) + 2 BY <1>4, <3>4 DEF Told
    <3>6. 2 * (ofs - 1) + 2 = 2 * ofs BY <2>2
    <3>7. ofs <= c.arg1 BY <3>1
    <3> QED BY <3>1, <3>5, <3>6, <3>7
  <2> QED BY <1>1, <1>2, <1>4, <2>1, <2>2, <2>3, SendWordHolds
<1> QED BY <1>3, <1>4 DEF ReadWords

(* process_cmd *)
LEMMA ProcessHolds ==
  ASSUME LoopTypeOK, LoopTypeOK', LinkInv, LoopInv, Process
  PROVE  LoopInv'
<1>1. Asks /\ UNCHANGED plan BY ProcessStep DEF Carried
<1>2. step = "process" /\ UNCHANGED <<hdr, ofs, clean, mem0, answered>>
  BY DEF Process, LoopKeepsPast, pastVars
<1>3. /\ c.bytes_avail \in Nat /\ c.buffer \in Seq(Bytes) /\ Len(c.buffer) = c.bytes_avail
      /\ c.bytes_avail <= c.bytes_avail
  BY DEF LoopTypeOK, CmdOK, Cmds
<1>4. /\ c.cmd = Codes.WRITE_BYTES \/ c.cmd = Codes.WRITE_WORDS => c.cmd \in Writes /\ c.cmd \notin Queries
      /\ c.cmd = Codes.FILL_BYTES \/ c.cmd = Codes.FILL_WORDS => c.cmd \in Fills /\ c.cmd \notin Queries
  BY CodesAre DEF Writes, Fills, Queries
<1>5. CASE WriteBytes
  <2>1. CASE c.bytes_avail > 0
    <3>1. /\ c.cmd = Codes.WRITE_BYTES /\ Consume(c.bytes_avail)
          /\ Effect(c.arg0 + c.total_bytes_consumed, c.buffer)
      BY <1>5, <2>1 DEF WriteBytes
    <3> QED BY <1>2, <1>3, <1>4, <3>1, WriteHolds
  <2>2. CASE ~(c.bytes_avail > 0)
    <3>1. c.cmd = Codes.WRITE_BYTES /\ LocalStep("wait") /\ UNCHANGED <<c, mem>>
      BY <1>5, <2>2 DEF WriteBytes
    <3> QED BY <1>2, <1>4, <3>1, NothingHolds
  <2> QED BY <2>1, <2>2
<1>6. CASE WriteWords
  <2> DEFINE even == c.bytes_avail - (c.bytes_avail % 2)
             b == SubSeq(c.buffer, 1, even)
  <2>1. even \in Nat /\ even <= c.bytes_avail BY <1>3
  <2>2. c.cmd = Codes.WRITE_WORDS /\ Consume(even) /\ Effect(c.arg0 + c.total_bytes_consumed, b)
    BY <1>6 DEF WriteWords
  <2> HIDE DEF even
  <2>3. b \in Seq(Bytes) /\ Len(b) = even /\ \A i \in 1 .. even : b[i] = c.buffer[i]
    <3> DEFINE s == c.buffer
               one == 1
    <3>1. s \in Seq(Bytes) /\ one \in 1 .. Len(s) + 1 /\ even \in one - 1 .. Len(s) /\ one = 1
      BY <1>3, <2>1
    <3> HIDE DEF s, one
    <3>2. /\ SubSeq(s, one, even) \in Seq(Bytes)
          /\ Len(SubSeq(s, one, even)) = IF one <= even THEN even - one + 1 ELSE 0
          /\ \A i \in 1 .. even - one + 1 : SubSeq(s, one, even)[i] = s[one + i - 1]
      BY <3>1, SubSeqProperties
    <3>3. Len(SubSeq(s, one, even)) = even BY <2>1, <3>1, <3>2
    <3>4. even - one + 1 = even /\ \A i \in 1 .. even : one + i - 1 = i BY <2>1, <3>1
    <3>5. \A i \in 1 .. even : SubSeq(s, one, even)[i] = s[i] BY <3>2, <3>4
    <3> QED BY <3>2, <3>3, <3>5 DEF s, one
  <2> HIDE DEF b
  <2> QED BY <1>2, <1>4, <2>1, <2>2, <2>3, WriteHolds
<1>7. CASE FillBytes
  <2>1. CASE c.bytes_avail > 0
    <3> DEFINE n == 1
    <3>1. /\ c.cmd = Codes.FILL_BYTES /\ Consume(c.bytes_avail)
          /\ Effect(c.arg0, Repeated(SubSeq(c.buffer, 1, n), AsSize(c.arg1)))
      BY <1>7, <2>1 DEF FillBytes
    <3>2. n \in Nat \ {0} /\ n <= c.bytes_avail BY <1>3, <2>1
    <3>3. ASSUME answered < Len(plan.script), c.cmd = This.cmd
          PROVE  Len(This.payload) = n /\ This.arg1 < IntMod
      <4>1. Proper(This) BY <3>3, ThisIs
      <4> QED BY <3>1, <3>3, <4>1 DEF Proper
    <3> HIDE DEF n
    <3> QED BY <1>2, <1>4, <3>1, <3>2, <3>3, FillHolds
  <2>2. CASE ~(c.bytes_avail > 0)
    <3>1. c.cmd = Codes.FILL_BYTES /\ LocalStep("wait") /\ UNCHANGED <<c, mem>>
      BY <1>7, <2>2 DEF FillBytes
    <3> QED BY <1>2, <1>4, <3>1, NothingHolds
  <2> QED BY <2>1, <2>2
<1>8. CASE FillWords
  <2>1. CASE c.bytes_avail > 1
    <3> DEFINE n == 2
    <3>1. /\ c.cmd = Codes.FILL_WORDS /\ Consume(c.bytes_avail)
          /\ Effect(c.arg0, Repeated(SubSeq(c.buffer, 1, n), AsSize(c.arg1)))
      BY <1>8, <2>1 DEF FillWords
    <3>2. n \in Nat \ {0} /\ n <= c.bytes_avail BY <1>3, <2>1
    <3>3. ASSUME answered < Len(plan.script), c.cmd = This.cmd
          PROVE  Len(This.payload) = n /\ This.arg1 < IntMod
      <4>1. Proper(This) BY <3>3, ThisIs
      <4> QED BY <3>1, <3>3, <4>1 DEF Proper
    <3> HIDE DEF n
    <3> QED BY <1>2, <1>4, <3>1, <3>2, <3>3, FillHolds
  <2>2. CASE ~(c.bytes_avail > 1)
    <3>1. c.cmd = Codes.FILL_WORDS /\ LocalStep("wait") /\ UNCHANGED <<c, mem>>
      BY <1>8, <2>2 DEF FillWords
    <3> QED BY <1>2, <1>4, <3>1, NothingHolds
  <2> QED BY <2>1, <2>2
<1>9. CASE ReadBytes BY <1>1, <1>2, <1>9, ReadBytesHolds
<1>10. CASE NoCommand
  <2>1. c.cmd = Codes.IDLE /\ LocalStep("wait") /\ UNCHANGED <<c, mem>> BY <1>10 DEF NoCommand
  <2>2. c.cmd \notin Queries BY <2>1, CodesAre DEF Queries
  <2> QED BY <1>2, <2>1, <2>2, NothingHolds
<1>11. CASE OtherCommand
  <2>1. Consume(c.bytes_avail) /\ LocalStep("wait") /\ UNCHANGED mem BY <1>11 DEF OtherCommand
  <2>2. c.cmd # Codes.IDLE /\ c.cmd \notin Queries /\ c.cmd \notin Writes \cup Fills
    <3>1. c.cmd \notin {Codes[k] : k \in DOMAIN Codes} BY <1>11 DEF OtherCommand
    <3>2. DOMAIN Codes = {"IDLE", "WRITE_BYTES", "WRITE_WORDS", "READ_BYTES", "READ_WORDS",
                          "FILL_BYTES", "FILL_WORDS"}
      BY DEF Codes
    <3> QED BY <3>1, <3>2 DEF Queries, Writes, Fills
  <2>3. ASSUME Orderly, Straight
        PROVE  mem' = Partial(Past.mem, This, c.total_bytes_consumed + c.bytes_avail)
    <3>1. Holding BY <1>2, <2>2 DEF Holding
    <3>2. c.cmd = This.cmd /\ mem = Partial(Past.mem, This, Done)
      BY <2>3, <3>1 DEF Straight, Current, Carrying
    <3> DEFINE m == Past.mem
               k == This
               d == c.total_bytes_consumed + c.bytes_avail
               e == Done
    <3>3. k.cmd \notin Writes \cup Fills /\ mem = Partial(m, k, e) BY <2>2, <3>2
    <3> HIDE DEF m, k, d, e
    <3>4. Partial(m, k, e) = m /\ Partial(m, k, d) = m BY <3>3, PartialKinds
    <3>5. mem' = Partial(m, k, d) BY <2>1, <3>3, <3>4
    <3> QED BY <3>5 DEF m, k, d
  <2> QED BY <1>2, <1>3, <2>1, <2>2, <2>3, ConsumeHolds
<1> QED BY <1>5, <1>6, <1>7, <1>8, <1>9, <1>10, <1>11 DEF Process

-----------------------------------------------------------------------------
LEMMA StutterHolds == ASSUME LoopInv, UNCHANGED vars PROVE LoopInv'
<1>1. UNCHANGED <<commsVars, loopVars, plan, clean, mem0, answered>> BY DEF vars, pastVars
<1>2. /\ UNCHANGED <<active, in_byte, comms_active, fn, at, on, buffer, maxlen, data, sent,
                    loaded, up, down, torn, got>>
      /\ UNCHANGED <<step, c, hdr, ofs, mem>>
  BY <1>1 DEF commsVars, registers, statics, locals, hostVars, loopVars
<1>3. Plain'
  BY <1>1, <1>2 DEF LoopInv, Plain, InCall, Room, Busy, Bought, Reading, Streamed
<1>4. ASSUME Orderly' PROVE Straight'
  <2>1. Straight BY <1>1, <1>2, <1>4 DEF LoopInv, Orderly, SameSession
  <2>2. Issued' = Issued BY <1>2 DEF Issued, Pending
  <2> QED BY <1>1, <1>2, <2>1, <2>2, StraightKept
<1> QED BY <1>3, <1>4 DEF LoopInv

LEMMA LoopInvStep ==
  ASSUME LoopTypeOK, LoopTypeOK', LinkInv, LinkInv', LoopInv, [Next]_vars
  PROVE  LoopInv'
<1>1. CASE Board BY <1>1, BoardHolds
<1>2. CASE Inside BY <1>2, InsideHolds
<1>3. CASE Poll \/ Polled \/ Sent \/ Wait BY <1>3, PlacesHold
<1>4. CASE Shift BY <1>4, ShiftHolds
<1>5. CASE Answer BY <1>5, AnswerHolds
<1>6. CASE Fetch BY <1>6, FetchHolds
<1>7. CASE Header BY <1>7, HeaderHolds
<1>8. CASE GotPayload BY <1>8, GotPayloadHolds
<1>9. CASE Process BY <1>9, ProcessHolds
<1>10. CASE ReadWords BY <1>10, ReadWordsHold
<1>11. CASE UNCHANGED vars BY <1>11, StutterHolds
<1> QED BY <1>1, <1>2, <1>3, <1>4, <1>5, <1>6, <1>7, <1>8, <1>9, <1>10, <1>11 DEF Next, Target

LEMMA LoopInvInit == Init => LoopInv
<1> SUFFICES ASSUME Init PROVE LoopInv OBVIOUS
<1>1. LoopTypeOK /\ CommsInit BY LoopInit
<1>2. /\ step = "poll" /\ c = NoCommandYet /\ clean = TRUE /\ mem0 = mem /\ answered = 0
  BY DEF Init
<1>3. /\ comms_active = FALSE /\ fn = "update" /\ at = "done" /\ on = FALSE /\ up = <<>>
      /\ loaded = FALSE
  BY Zenon DEF Init, CommsInit
<1>4. InCall BY <1>2, <1>3 DEF InCall, ReadSteps, WriteSteps
<1>5. Room /\ Busy BY <1>2 DEF Room, Busy
<1>6. Bought BY <1>3 DEF Bought
<1>7. Streamed
  <2>1. plan.stream \in Seq(Bytes) BY <1>1 DEF LoopTypeOK, PlanTypeOK
  <2>2. Begins(up, plan.stream) BY <1>3, <2>1 DEF Begins
  <2> QED BY <1>3, <2>2 DEF Streamed
<1>8. ~Orderly BY <1>3 DEF Orderly, SameSession
<1> QED BY <1>4, <1>5, <1>6, <1>7, <1>8 DEF LoopInv, Plain

LEMMA LoopInvAlways == Spec => []LoopInv
<1>1. Init => LoopInv BY LoopInvInit
<1>2. (LoopTypeOK /\ LinkInv) /\ (LoopTypeOK /\ LinkInv)' /\ LoopInv /\ [Next]_vars => LoopInv'
  BY LoopInvStep
<1> QED BY <1>1, <1>2, LoopAlways, PTL DEF Spec

(* In a session that begins between two commands the host sees the replies  *)
(* to its commands and nothing else, whatever commands it sends, however    *)
(* its bytes and its closing fall between the program's reads, and into     *)
(* whatever pieces the payload is cut: main.c:57 and 109 to 181.            *)
THEOREM Replied == Spec => []RepliesInOrder
<1>1. LoopInv => RepliesInOrder
  BY DEF LoopInv, Straight, Heard, Begins, Final, RepliesInOrder
<1> QED BY <1>1, LoopInvAlways, PTL

(* When a command is answered, memory is what the commands of the session   *)
(* so far make of it, each carried out in one piece: main.c:109 to 181.     *)
THEOREM MemoryKept == Spec => []MemoryDone
<1>1. LoopTypeOK /\ LoopInv => MemoryDone
  <2> SUFFICES ASSUME LoopTypeOK, LoopInv, Orderly, step = "answer"
               PROVE  mem = Meaning(answered + 1).mem
    BY DEF MemoryDone
  <2>1. Straight BY DEF LoopInv
  <2>2. Holding BY DEF LoopInv, Plain, Busy, Holding
  <2>3. answered < Len(plan.script) /\ c.total_bytes = Len(This.payload)
    BY <2>1, <2>2 DEF Straight, Current
  <2>4. /\ This \in Commands /\ Proper(This) /\ Past.mem \in Memory
        /\ Meaning(answered + 1) = Then(Past, This)
    BY <2>3, ThisIs
  <2>5. c.total_bytes_consumed = c.total_bytes /\ c.bytes_consumed = 0
    BY <2>2 DEF LoopInv, Plain, Busy, Holding
  <2>6. Done = Len(This.payload)
    <3>1. c.total_bytes \in Nat BY DEF LoopTypeOK, CmdOK, Cmds
    <3>2. c.total_bytes + 0 = c.total_bytes BY <3>1
    <3> QED BY <2>3, <2>5, <3>2 DEF Done
  <2>7. mem = Partial(Past.mem, This, Done) BY <2>1, <2>2 DEF Straight, Carrying
  <2>8. mem = Effects(Past.mem, This) BY <2>4, <2>6, <2>7, PartialAll
  <2>9. Meaning(answered + 1).mem = Effects(Past.mem, This) BY <2>4, ThenIs
  <2> QED BY <2>8, <2>9
<1>2. LoopTypeOK /\ LinkInv => LoopTypeOK OBVIOUS
<1> QED BY <1>1, <1>2, LoopAlways, LoopInvAlways, PTL
==============================================================================
