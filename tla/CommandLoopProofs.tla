------------------------- MODULE CommandLoopProofs -------------------------
(* The byte link and the loop that uses it.  First the link: for every      *)
(* width of the sequence numbers, every alphabet and calls of every length, *)
(* bytes cross it in order in both directions whatever the host does        *)
(* between two reads.  Then the loop, which uses the link as its            *)
(* specification allows, for all commands and memories; and lemmas about    *)
(* what commands mean, for SessionProofs.                                   *)
EXTENDS CommandLoop, Induction, SequenceTheorems, TLAPS

(* Where a call stands says what it is, and that a session is known.        *)
Reading == at \in {"active", "seq", "pending", "again", "byte"}
Writing == at \in {"next", "wait", "gone"}
Placed ==
  /\ Reading => fn = "read" /\ comms_active
  /\ Writing => fn = "write" /\ on /\ comms_active
  /\ comms_active => magic_valid
  /\ at \in {"wait", "gone"} => sent < Len(data)
  /\ at = "update" /\ fn = "write" => sent = 0
  /\ at = "done" /\ fn = "write" /\ on => sent = Len(data)

(* A session the program has not noticed yet: one byte may wait in it.      *)
Unnoticed == active = 1 /\ ~comms_active
Fresh ==
  Unnoticed => /\ free => up = <<>>
               /\ ~free => Len(up) = 1
               /\ down = <<>> /\ out_seq = 0

(* The host's side: its number counts what it posted, and the byte in place *)
(* is the last one until it was read.                                       *)
Posted ==
  SameSession \/ Unnoticed =>
    /\ in_seq = Len(up) % SeqValues
    /\ loaded => free
    /\ ~free => Len(up) >= 1 /\ in_byte = up[Len(up)]

(* The program's side: what it took is what was posted, but for the byte    *)
(* that waits.                                                              *)
Taken ==
  SameSession =>
    /\ comms_in_seq = Len(got) % SeqValues
    /\ Len(up) = IF free THEN Len(got) ELSE Len(got) + 1
    /\ \A i \in 1 .. Len(got) : got[i] = up[i]
    /\ at = "byte" => ~free

(* The other way: the number of the bytes shown, acknowledged but for the   *)
(* one that is waited for.                                                  *)
Open == SameSession /\ active = 1
Pending == at \in {"wait", "gone"}
Numbered ==
  Open => /\ comms_out_seq = Len(down) % SeqValues
          /\ ~Pending => out_seq = comms_out_seq

(* The bytes a call has shown so far are the last the host saw.             *)
Issued == IF Pending THEN sent + 1 ELSE sent
LastShown ==
  Open /\ fn = "write" /\ on /\ at # "update" =>
    /\ Issued <= Len(down)
    /\ \A i \in 1 .. Issued : down[Len(down) - Issued + i] = data[i]

LinkInv == LinkTypeOK /\ Placed /\ Fresh /\ Posted /\ Taken /\ Numbered /\ LastShown
-----------------------------------------------------------------------------
(* Two ways to write a number as a multiple and a rest have the same rest.  *)
LEMMA SameRest ==
  ASSUME NEW s \in Nat, NEW p \in Nat, NEW q \in Nat, NEW t \in 0 .. s - 1, NEW r \in 0 .. s - 1,
         s * p + t = s * q + r
  PROVE  t = r
<1>1. ASSUME NEW k \in Nat, NEW m \in Nat
      PROVE  s * (m + 1 + k) >= s * m + s
  <2>1. s * (m + 1 + k) = s * m + s + s * k
    OBVIOUS
  <2>2. s * k \in Nat /\ s * m \in Nat
    OBVIOUS
  <2> QED BY <2>1, <2>2
<1>2. CASE p > q
  <2>1. p = q + 1 + (p - q - 1) /\ p - q - 1 \in Nat
    BY <1>2
  <2>2. s * p >= s * q + s
    BY <1>1, <2>1
  <2>3. s * p \in Nat /\ s * q \in Nat
    OBVIOUS
  <2> QED BY <2>2, <2>3
<1>3. CASE p < q
  <2>1. q = p + 1 + (q - p - 1) /\ q - p - 1 \in Nat
    BY <1>3
  <2>2. s * q >= s * p + s
    BY <1>1, <2>1
  <2>3. s * p \in Nat /\ s * q \in Nat
    OBVIOUS
  <2> QED BY <2>2, <2>3
<1>4. CASE p = q
  <2>1. s * p \in Nat /\ s * q = s * p
    BY <1>4
  <2> QED BY <2>1
<1> QED BY <1>2, <1>3, <1>4

(* A sequence number that counts n bytes and advances counts n + 1.         *)
LEMMA AdvanceCounts ==
  ASSUME NEW n \in Nat, NEW s \in Nat, s >= 2
  PROVE  ((n % s) + 1) % s = (n + 1) % s
<1> DEFINE r == n % s
           t == (n + 1) % s
           q == n \div s
           p == (n + 1) \div s
<1>1. n = s * q + r /\ q \in Nat
  OBVIOUS
<1>2. n + 1 = s * p + t /\ p \in Nat
  OBVIOUS
<1>3. r \in 0 .. s - 1 /\ t \in 0 .. s - 1
  OBVIOUS
<1> HIDE DEF r, t, p, q
<1>4. s * q \in Nat /\ s * p \in Nat
  BY <1>1, <1>2
<1>5. CASE r + 1 < s
  <2>1. r + 1 \in 0 .. s - 1 /\ s * p + t = s * q + (r + 1)
    BY <1>1, <1>2, <1>3, <1>4, <1>5
  <2>2. t = r + 1
    BY <1>1, <1>2, <1>3, <2>1, SameRest
  <2>3. (r + 1) % s = r + 1
    BY <2>1
  <2> QED BY <2>2, <2>3 DEF r, t
<1>6. CASE r + 1 = s
  <2>1. s * (q + 1) = s * q + s
    BY <1>1
  <2>2. s * p + t = s * (q + 1) + 0 /\ 0 \in 0 .. s - 1 /\ q + 1 \in Nat
    BY <1>1, <1>2, <1>3, <1>4, <1>6, <2>1
  <2>3. t = 0
    BY <1>1, <1>2, <1>3, <2>2, SameRest
  <2>4. (r + 1) % s = 0
    BY <1>6
  <2> QED BY <2>3, <2>4 DEF r, t
<1> QED BY <1>3, <1>5, <1>6

(* A sequence that ends in the first k elements of d ends in the first      *)
(* k + 1 when the next one is appended.                                     *)
LEMMA OneMore ==
  ASSUME NEW s \in Seq(Bytes), NEW d \in Seq(Bytes), NEW b \in Bytes, NEW k \in Nat, k <= Len(s),
         \A i \in 1 .. k : s[Len(s) - k + i] = d[i], b = d[k + 1]
  PROVE  /\ k + 1 <= Len(Append(s, b))
         /\ \A i \in 1 .. k + 1 : Append(s, b)[Len(Append(s, b)) - (k + 1) + i] = d[i]
<1>1. /\ Len(Append(s, b)) = Len(s) + 1 /\ Len(s) \in Nat /\ Append(s, b)[Len(s) + 1] = b
      /\ \A j \in 1 .. Len(s) : Append(s, b)[j] = s[j]
  OBVIOUS
<1>2. ASSUME NEW i \in 1 .. k
      PROVE  Append(s, b)[Len(s) - k + i] = d[i]
  <2>1. Len(s) - k + i \in 1 .. Len(s)
    BY <1>1
  <2> QED BY <1>1, <2>1
<1>3. Len(s) - k + (k + 1) = Len(s) + 1 /\ Len(s) + 1 - (k + 1) = Len(s) - k
  BY <1>1
<1>4. ASSUME NEW i \in 1 .. k + 1
      PROVE  Append(s, b)[Len(s) - k + i] = d[i]
  <2>1. CASE i = k + 1
    BY <1>1, <1>3, <2>1
  <2>2. CASE i \in 1 .. k
    BY <1>2, <2>2
  <2>3. i = k + 1 \/ i \in 1 .. k
    OBVIOUS
  <2> QED BY <2>1, <2>2, <2>3, Zenon
<1>5. Len(Append(s, b)) - (k + 1) = Len(s) - k /\ k + 1 <= Len(Append(s, b))
  BY <1>1
<1> QED BY <1>4, <1>5, Zenon

LEMMA AdvanceType == \A n \in Nat : Advance(n) \in 0 .. SeqValues - 1
  BY LinkAssumption DEF Advance

LEMMA AdvanceLen ==
  ASSUME NEW n \in Nat
  PROVE  Advance(n % SeqValues) = (n + 1) % SeqValues
  BY AdvanceCounts, LinkAssumption DEF Advance

LEMMA CountType == \A n \in Nat : n % SeqValues \in 0 .. SeqValues - 1
  BY LinkAssumption

LEMMA CountNone == 0 % SeqValues = 0
  BY LinkAssumption
-----------------------------------------------------------------------------
LEMMA LinkInit == CommsInit => LinkInv
<1> SUFFICES ASSUME CommsInit
             PROVE  LinkInv
  OBVIOUS
<1>1. 0 \in 0 .. SeqValues - 1
  BY LinkAssumption
<1>2. LinkTypeOK
  <2>1. <<>> \in Seq(Bytes) /\ Len(<<>>) = 0
    OBVIOUS
  <2>2. /\ magic \in BOOLEAN /\ pending \in BOOLEAN /\ magic_valid \in BOOLEAN
        /\ comms_active \in BOOLEAN /\ on \in BOOLEAN /\ loaded \in BOOLEAN /\ free \in BOOLEAN
        /\ torn \in BOOLEAN
    BY Zenon DEF CommsInit
  <2>3. /\ buffer = <<>> /\ maxlen = 1 /\ data = <<>> /\ sent = 0
        /\ up = <<>> /\ got = <<>> /\ down = <<>> /\ in_byte \in Bytes
        /\ active = 0 /\ in_seq = 0 /\ out_seq = 0 /\ comms_in_seq = 0 /\ comms_out_seq = 0
        /\ fn = "update" /\ at = "done"
    BY Zenon DEF CommsInit
  <2> HIDE DEF CommsInit
  <2> QED BY <1>1, <2>1, <2>2, <2>3 DEF LinkTypeOK, Places
<1> QED BY <1>2, CountNone
  DEF CommsInit, LinkInv, Placed, Reading, Writing, Fresh, Unnoticed, Posted, SameSession,
      Taken, Numbered, Open, LastShown
-----------------------------------------------------------------------------
(* A call begins, or a read of it changes nothing but the place in it.      *)
LEMMA CallInv ==
  ASSUME LinkInv, CallUpdate \/ (\E n \in Nat \ {0} : CallRead(n)) \/ (\E d \in Seq(Bytes) : CallWrite(d))
  PROVE  LinkInv'
<1>1. PICK f \in {"update", "read", "write"} :
        /\ Call(f) /\ CallKeeps /\ (f = "write" => sent' = 0)
        /\ buffer' \in Seq(Bytes) /\ maxlen' \in Nat \ {0} /\ data' \in Seq(Bytes)
        /\ sent' \in 0 .. Len(data')
  <2>1. /\ buffer \in Seq(Bytes) /\ maxlen \in Nat \ {0} /\ data \in Seq(Bytes)
        /\ sent \in 0 .. Len(data)
    BY DEF LinkInv, LinkTypeOK
  <2>2. CASE CallUpdate
    BY <2>1, <2>2 DEF CallUpdate, locals
  <2>3. ASSUME NEW n \in Nat \ {0}, CallRead(n)
        PROVE  /\ Call("read") /\ CallKeeps
               /\ buffer' \in Seq(Bytes) /\ maxlen' \in Nat \ {0} /\ data' \in Seq(Bytes)
               /\ sent' \in 0 .. Len(data')
    BY <2>1, <2>3 DEF CallRead
  <2>4. ASSUME NEW d \in Seq(Bytes), CallWrite(d)
        PROVE  /\ Call("write") /\ CallKeeps /\ sent' = 0
               /\ buffer' \in Seq(Bytes) /\ maxlen' \in Nat \ {0} /\ data' \in Seq(Bytes)
               /\ sent' \in 0 .. Len(data')
    BY <2>1, <2>4 DEF CallWrite
  <2> QED BY <2>2, <2>3, <2>4
<1>2. LinkTypeOK'
  BY <1>1 DEF Call, CallKeeps, LinkInv, LinkTypeOK, Places, registers, statics, hostVars
<1>3. Placed'
  BY <1>1 DEF Call, CallKeeps, LinkInv, Placed, Reading, Writing, statics
<1>4. Fresh' /\ Posted' /\ Taken' /\ Numbered' /\ LastShown'
  BY <1>1 DEF Call, CallKeeps, LinkInv, Fresh, Unnoticed, Posted, Taken, SameSession, Numbered,
     Open, Pending, LastShown, registers, statics, hostVars
<1> QED BY <1>2, <1>3, <1>4 DEF LinkInv

(* comms_update: a session it notices starts with both numbers at 0, and no *)
(* byte of it was taken or shown.                                           *)
LEMMA UpdateInv ==
  ASSUME LinkInv, Update
  PROVE  LinkInv'
<1>1. /\ LinkTypeOK /\ Placed /\ Fresh /\ Posted /\ Taken /\ Numbered /\ LastShown
  BY DEF LinkInv
<1>2. /\ at = "update" /\ comms_active' = on' /\ on' = (active = 1 /\ CheckMagic)
      /\ magic_valid' = (IF active = 1 THEN CheckMagic ELSE magic_valid)
      /\ at' = CASE ~on' \/ fn = "update" -> "done"
                 [] on' /\ fn = "read"    -> "active"
                 [] on' /\ fn = "write"   -> "next"
      /\ magic' = magic /\ active' = active /\ pending' = pending /\ in_byte' = in_byte
      /\ in_seq' = in_seq /\ out_seq' = out_seq /\ fn' = fn /\ buffer' = buffer
      /\ maxlen' = maxlen /\ data' = data /\ sent' = sent /\ loaded' = loaded /\ free' = free
      /\ up' = up /\ down' = down /\ torn' = torn
  BY DEF Update, registers, locals, hostVars
<1>3. /\ on' /\ ~comms_active => comms_in_seq' = 0 /\ comms_out_seq' = 0 /\ got' = <<>>
      /\ ~(on' /\ ~comms_active) => /\ comms_in_seq' = comms_in_seq
                                    /\ comms_out_seq' = comms_out_seq /\ got' = got
  BY DEF Update
<1>4. /\ magic_valid' \in BOOLEAN /\ comms_active' \in BOOLEAN /\ on' \in BOOLEAN
  <2>1. CheckMagic \in BOOLEAN /\ (active = 1 /\ CheckMagic) \in BOOLEAN
    BY DEF CheckMagic
  <2>2. magic_valid \in BOOLEAN
    BY <1>1 DEF LinkTypeOK
  <2> QED BY <1>2, <2>1, <2>2, Zenon
<1>5. /\ on' => active = 1 /\ magic_valid'
      /\ ~on' => active # 1 \/ ~magic_valid
      /\ magic_valid => magic_valid'
  BY <1>2 DEF CheckMagic
<1>6. at' \in {"done", "active", "next"} /\ (at' # "done" => on')
      /\ (at' = "active" => fn = "read") /\ (at' = "next" => fn = "write")
      /\ (fn = "write" /\ on' => at' = "next")
  <2>1. fn \in {"update", "read", "write"}
    BY <1>1 DEF LinkTypeOK
  <2> QED BY <1>2, <1>4, <2>1
<1>7. on' => (comms_active \/ Unnoticed)
  BY <1>5 DEF Unnoticed
<1>8. ~on' => active # 1 \/ ~comms_active
  BY <1>1, <1>5 DEF Placed
<1> HIDE DEF Update
<1>9. LinkTypeOK'
  <2>1. /\ comms_in_seq' \in 0 .. SeqValues - 1 /\ comms_out_seq' \in 0 .. SeqValues - 1
        /\ got' \in Seq(Bytes)
    <3>1. 0 \in 0 .. SeqValues - 1 /\ <<>> \in Seq(Bytes)
      BY LinkAssumption
    <3>2. /\ comms_in_seq \in 0 .. SeqValues - 1 /\ comms_out_seq \in 0 .. SeqValues - 1
          /\ got \in Seq(Bytes)
      BY <1>1 DEF LinkTypeOK
    <3> QED BY <1>3, <3>1, <3>2, Zenon
  <2>2. at' \in Places
    BY <1>6 DEF Places
  <2> QED BY <1>1, <1>2, <1>4, <2>1, <2>2 DEF LinkTypeOK
<1>10. Placed'
  BY <1>1, <1>2, <1>4, <1>5, <1>6 DEF Placed, Reading, Writing
<1>11. Fresh'
  BY <1>1, <1>2, <1>8 DEF Fresh, Unnoticed
<1>12. Posted'
  BY <1>1, <1>2, <1>7, <1>8 DEF Posted, SameSession, Unnoticed
<1>13. CASE on' /\ ~comms_active
  <2>1. Unnoticed /\ Len(got') = 0 /\ got' = <<>> /\ comms_in_seq' = 0 /\ comms_out_seq' = 0
    BY <1>3, <1>7, <1>13
  <2>2. Len(up) = (IF free THEN 0 ELSE 1) /\ Len(down) = 0 /\ out_seq = 0
    BY <1>1, <2>1 DEF Fresh
  <2>3. Taken'
    <3>1. comms_in_seq' = Len(got') % SeqValues
      BY <2>1, CountNone
    <3>2. Len(up') = IF free' THEN Len(got') ELSE Len(got') + 1
      BY <1>2, <2>1, <2>2
    <3>3. \A i \in 1 .. Len(got') : got'[i] = up'[i]
      BY <2>1
    <3>4. at' # "byte"
      BY <1>6
    <3> QED BY <3>1, <3>2, <3>3, <3>4 DEF Taken
  <2>4. Numbered'
    BY <1>2, <2>1, <2>2, CountNone DEF Numbered
  <2>5. LastShown'
    BY <1>1, <1>2, <1>6, <2>2 DEF LastShown, Issued, Pending, Placed
  <2> QED BY <1>9, <1>10, <1>11, <1>12, <2>3, <2>4, <2>5 DEF LinkInv
<1>14. CASE ~(on' /\ ~comms_active)
  <2>1. (SameSession' => SameSession) /\ (Open' => Open)
    BY <1>2, <1>14 DEF SameSession, Open
  <2>2. comms_in_seq' = comms_in_seq /\ comms_out_seq' = comms_out_seq /\ got' = got
    BY <1>3, <1>14
  <2>3. Taken'
    BY <1>1, <1>2, <1>6, <2>1, <2>2 DEF Taken
  <2>4. Numbered'
    BY <1>1, <1>2, <2>1, <2>2 DEF Numbered, Pending
  <2>5. LastShown'
    <3>1. fn = "write" => sent = 0
      BY <1>1, <1>2 DEF Placed
    <3>2. fn = "write" /\ on' => Issued' = 0
      BY <1>2, <1>6, <3>1 DEF Issued, Pending
    <3>3. Len(down') \in Nat
      BY <1>1, <1>2 DEF LinkTypeOK
    <3> QED BY <1>2, <3>2, <3>3 DEF LastShown
  <2> QED BY <1>9, <1>10, <1>11, <1>12, <2>3, <2>4, <2>5 DEF LinkInv
<1> QED BY <1>13, <1>14

(* A read of comms_read or comms_write's loop that only moves on.           *)
LEMMA ReadInv ==
  ASSUME LinkInv, ReadActive \/ ReadSeq \/ ReadPending \/ ReadAgain
  PROVE  LinkInv'
<1>1. PICK here \in {"active", "seq", "pending", "again"},
           there \in {"active", "seq", "pending", "again", "byte", "done"} :
        GoTo(here, there) /\ (there = "byte" => comms_in_seq # in_seq)
  BY DEF ReadActive, ReadSeq, ReadPending, ReadAgain
<1> USE DEF GoTo, registers, statics, locals, hostVars, LinkInv
<1>2. LinkTypeOK'
  BY <1>1 DEF LinkTypeOK, Places
<1>3. Placed'
  BY <1>1 DEF Placed, Reading, Writing
<1>4. Taken'
  BY <1>1 DEF Taken, SameSession, Posted
<1>5. Fresh' /\ Posted' /\ Numbered' /\ LastShown'
  BY <1>1 DEF Fresh, Unnoticed, Posted, SameSession, Numbered, Open, Pending, LastShown,
     Placed, Reading
<1> QED BY <1>2, <1>3, <1>4, <1>5

(* comms_read takes the byte that waits. *)
LEMMA TakeByteInv ==
  ASSUME LinkInv, TakeByte
  PROVE  LinkInv'
<1> USE DEF TakeByte, registers, LinkInv
<1>1. LinkTypeOK'
  BY AdvanceType DEF LinkTypeOK, Places
<1>2. Placed'
  BY DEF Placed, Reading, Writing
<1>3. Taken'
  <2> SUFFICES ASSUME SameSession'
               PROVE  /\ comms_in_seq' = Len(got') % SeqValues
                      /\ Len(up') = IF free' THEN Len(got') ELSE Len(got') + 1
                      /\ \A i \in 1 .. Len(got') : got'[i] = up'[i]
                      /\ at' = "byte" => ~free'
    BY DEF Taken
  <2>1. /\ SameSession /\ ~free /\ got \in Seq(Bytes) /\ up \in Seq(Bytes) /\ in_byte \in Bytes
        /\ comms_in_seq = Len(got) % SeqValues /\ Len(up) = Len(got) + 1
        /\ in_byte = up[Len(up)] /\ \A i \in 1 .. Len(got) : got[i] = up[i]
    BY DEF SameSession, Taken, Posted, LinkTypeOK
  <2>2. got' = Append(got, in_byte) /\ up' = up /\ free' = TRUE /\ Len(got') = Len(got) + 1
    BY <2>1
  <2>3. comms_in_seq' = Len(got') % SeqValues
    BY <2>1, <2>2, AdvanceLen
  <2> QED BY <2>1, <2>2, <2>3
<1>4. Fresh' /\ Posted'
  BY DEF Fresh, Unnoticed, Posted, SameSession, Placed, Reading
<1>5. Numbered' /\ LastShown'
  BY DEF Numbered, LastShown, Open, SameSession, Pending, Placed, Reading
<1> QED BY <1>1, <1>2, <1>3, <1>4, <1>5

(* comms_write shows the next byte. *)
LEMMA SendByteInv ==
  ASSUME LinkInv, SendByte
  PROVE  LinkInv'
<1> USE DEF SendByte, registers, locals, LinkInv
<1>1. data[sent + 1] \in Bytes /\ down' \in Seq(Bytes)
  BY DEF LinkTypeOK
<1>2. LinkTypeOK'
  BY <1>1, AdvanceType DEF LinkTypeOK, Places
<1>3. Placed'
  BY DEF Placed, Reading, Writing
<1>4. Fresh' /\ Posted' /\ Taken'
  BY DEF Fresh, Unnoticed, Posted, Taken, SameSession, Placed, Writing
<1>5. ASSUME Open'
      PROVE  /\ Open /\ down \in Seq(Bytes) /\ down' = Append(down, data[sent + 1])
             /\ Len(down') = Len(down) + 1 /\ comms_out_seq = Len(down) % SeqValues
  BY <1>1, <1>5 DEF Open, SameSession, Numbered, LinkTypeOK
<1>6. Numbered'
  BY <1>5, AdvanceLen DEF Numbered, Pending
<1>7. LastShown'
  <2> SUFFICES ASSUME Open'
               PROVE  /\ Issued' <= Len(down')
                      /\ \A i \in 1 .. Issued' : down'[Len(down') - Issued' + i] = data'[i]
    BY DEF LastShown
  <2>1. Issued = sent /\ Issued' = sent + 1 /\ sent \in Nat
    BY DEF Issued, Pending, LinkTypeOK
  <2>2. sent <= Len(down) /\ \A i \in 1 .. sent : down[Len(down) - sent + i] = data[i]
    BY <1>5, <2>1 DEF LastShown, Placed, Writing
  <2>3. data' = data /\ down \in Seq(Bytes)
    BY <1>5
  <2> DEFINE b == data[sent + 1]
  <2>4. b \in Bytes /\ b = data[sent + 1] /\ down' = Append(down, b) /\ sent \in Nat
        /\ data \in Seq(Bytes)
    BY <1>1, <1>5, <2>1 DEF LinkTypeOK
  <2> HIDE DEF b
  <2>5. /\ sent + 1 <= Len(Append(down, b))
        /\ \A i \in 1 .. sent + 1 :
             Append(down, b)[Len(Append(down, b)) - (sent + 1) + i] = data[i]
    BY ONLY <2>2, <2>3, <2>4, OneMore, ZenonT(30)
  <2> QED BY <2>1, <2>3, <2>4, <2>5, Zenon
<1> QED BY <1>2, <1>3, <1>4, <1>6, <1>7

(* comms_write stops waiting, for the acknowledgement or for a host that    *)
(* left; or waits on; or has shown all.                                     *)
LEMMA WriteInv ==
  ASSUME LinkInv, WaitSeq \/ WaitActive \/ AllSent
  PROVE  LinkInv'
<1> USE DEF registers, statics, locals, hostVars, LinkInv
<1>1. CASE AllSent
  <2>1. at = "next" /\ at' = "done" /\ sent = Len(data)
    BY <1>1 DEF AllSent, GoTo
  <2>2. LinkTypeOK' /\ Placed'
    BY <1>1, <2>1 DEF AllSent, GoTo, LinkTypeOK, Places, Placed, Reading, Writing
  <2>3. Fresh' /\ Posted' /\ Taken' /\ Numbered' /\ LastShown'
    BY <1>1, <2>1 DEF AllSent, GoTo, Fresh, Unnoticed, Posted, Taken, SameSession, Numbered,
       Open, Pending, LastShown, Issued
  <2> QED BY <2>2, <2>3
<1>2. ASSUME NEW here \in {"wait", "gone"}, NEW there \in {"wait", "gone"}, GoTo(here, there)
      PROVE  LinkInv'
  <2>1. LinkTypeOK' /\ Placed'
    BY <1>2 DEF GoTo, LinkTypeOK, Places, Placed, Reading, Writing
  <2>2. Fresh' /\ Posted' /\ Taken' /\ Numbered' /\ LastShown'
    BY <1>2 DEF GoTo, Fresh, Unnoticed, Posted, Taken, SameSession, Numbered, Open, Pending,
       LastShown, Issued
  <2> QED BY <2>1, <2>2
<1>3. ASSUME NEW here \in {"wait", "gone"}, NextByte(here),
             active = 0 \/ out_seq = comms_out_seq
      PROVE  LinkInv'
  <2>1. LinkTypeOK' /\ Placed'
    BY <1>3 DEF NextByte, LinkTypeOK, Places, Placed, Reading, Writing
  <2>2. Fresh' /\ Posted' /\ Taken' /\ Numbered'
    BY <1>3 DEF NextByte, Fresh, Unnoticed, Posted, Taken, SameSession, Numbered, Open, Pending
  <2>3. Issued' = Issued /\ (Open' => Open)
    BY <1>3 DEF NextByte, Issued, Pending, Open, SameSession
  <2>4. LastShown'
    BY <1>3, <2>3 DEF NextByte, LastShown
  <2> QED BY <2>1, <2>2, <2>4
<1>4. CASE WaitSeq
  BY <1>2, <1>3, <1>4 DEF WaitSeq
<1>5. CASE WaitActive
  BY <1>2, <1>3, <1>5 DEF WaitActive
<1> QED BY <1>1, <1>4, <1>5
-----------------------------------------------------------------------------
(* The host opens a session: the program has not noticed it, or the session *)
(* is torn.                                                                 *)
LEMMA HostOpenInv ==
  ASSUME LinkInv, HostOpen
  PROVE  LinkInv'
<1> USE DEF HostOpen, TargetKeeps, statics, locals, LinkInv
<1>1. LinkTypeOK'
  <2>1. /\ pending' \in BOOLEAN /\ loaded' \in BOOLEAN /\ free' \in BOOLEAN /\ torn' \in BOOLEAN
    BY DEF LinkTypeOK
  <2>2. /\ active' = 1 /\ in_seq' = 0 /\ out_seq' = 0 /\ 0 \in 0 .. SeqValues - 1
        /\ up' \in Seq(Bytes) /\ down' \in Seq(Bytes)
    BY LinkAssumption
  <2> QED BY <2>1, <2>2 DEF LinkTypeOK
<1>2. Placed' /\ ~SameSession'
  BY DEF Placed, Reading, Writing, SameSession
<1>3. Fresh' /\ Posted' /\ Taken' /\ Numbered' /\ LastShown'
  BY <1>2, CountNone DEF Fresh, Posted, Taken, Numbered, Open, LastShown, LinkTypeOK
<1> QED BY <1>1, <1>2, <1>3

(* The host counts the byte in place. *)
LEMMA HostPostInv ==
  ASSUME LinkInv, HostPost
  PROVE  LinkInv'
<1> USE DEF HostPost, TargetKeeps, statics, locals, LinkInv
<1>1. up \in Seq(Bytes) /\ in_byte \in Bytes /\ Len(up) \in Nat
      /\ up' = Append(up, in_byte) /\ Len(up') = Len(up) + 1 /\ up'[Len(up) + 1] = in_byte
      /\ \A i \in 1 .. Len(up) : up'[i] = up[i]
  BY DEF LinkTypeOK
<1>2. LinkTypeOK'
  <2>1. loaded' \in BOOLEAN /\ free' \in BOOLEAN
    OBVIOUS
  <2>2. in_seq \in Nat /\ in_seq' = Advance(in_seq)
    BY LinkAssumption DEF LinkTypeOK
  <2>3. in_seq' \in 0 .. SeqValues - 1
    BY <2>2, AdvanceType
  <2>4. up' \in Seq(Bytes)
    BY <1>1
  <2> QED BY <2>1, <2>3, <2>4 DEF LinkTypeOK
<1>3. Placed' /\ Numbered' /\ LastShown'
  BY DEF Placed, Reading, Writing, Numbered, LastShown, Open, SameSession, Pending, Issued
<1>4. ASSUME SameSession \/ Unnoticed
      PROVE  in_seq' = Len(up') % SeqValues /\ free /\ ~loaded' /\ ~free'
  BY <1>1, <1>4, AdvanceLen DEF Posted
<1>5. Posted'
  BY <1>1, <1>4 DEF Posted, SameSession, Unnoticed
<1>6. Fresh'
  BY <1>1, <1>4 DEF Fresh, Unnoticed, LinkTypeOK
<1>7. Taken'
  BY <1>1, <1>4 DEF Taken, SameSession, LinkTypeOK
<1> QED BY <1>2, <1>3, <1>5, <1>6, <1>7

(* What else the host writes. *)
LEMMA HostInv ==
  ASSUME LinkInv, Host
  PROVE  LinkInv'
<1> USE DEF TargetKeeps, statics, locals, LinkInv
<1>1. CASE HostOpen
  BY <1>1, HostOpenInv
<1>2. CASE HostPost
  BY <1>2, HostPostInv
<1>3. CASE HostMagic \/ HostClose \/ HostPending
  <2>3. magic' \in BOOLEAN /\ active' \in {0, 1} /\ pending' \in BOOLEAN
    BY <1>3, Zenon DEF HostMagic, HostClose, HostPending, LinkTypeOK
  <2>1. LinkTypeOK' /\ Placed'
    BY <1>3, <2>3, SMTT(20) DEF HostMagic, HostClose, HostPending, hostVars, LinkTypeOK, Placed, Reading,
       Writing
  <2>2. Fresh' /\ Posted' /\ Taken' /\ Numbered' /\ LastShown'
    BY <1>3 DEF HostMagic, HostClose, HostPending, hostVars, Fresh, Unnoticed, Posted, Taken,
       SameSession, Numbered, Open, Pending, LastShown, Issued
  <2> QED BY <2>1, <2>2
<1>4. ASSUME NEW b \in Bytes, HostLoad(b)
      PROVE  LinkInv'
  <2>1. LinkTypeOK' /\ Placed'
    BY <1>4 DEF HostLoad, LinkTypeOK, Placed, Reading, Writing
  <2>2. Fresh' /\ Posted' /\ Taken' /\ Numbered' /\ LastShown'
    BY <1>4 DEF HostLoad, Fresh, Unnoticed, Posted, Taken, SameSession, Numbered, Open,
       Pending, LastShown, Issued
  <2> QED BY <2>1, <2>2
<1>5. CASE HostAck
  <2>1. Len(down) % SeqValues \in 0 .. SeqValues - 1
    BY CountType DEF LinkTypeOK
  <2>2. LinkTypeOK' /\ Placed'
    BY <1>5, <2>1 DEF HostAck, hostVars, LinkTypeOK, Placed, Reading, Writing
  <2>3. Fresh' /\ Posted' /\ Taken' /\ Numbered' /\ LastShown'
    BY <1>5, CountNone DEF HostAck, hostVars, Fresh, Unnoticed, Posted, Taken, SameSession,
       Numbered, Open, Pending, LastShown, Issued
  <2> QED BY <2>2, <2>3
<1> QED BY <1>1, <1>2, <1>3, <1>4, <1>5 DEF Host

LEMMA LinkStep == LinkInv /\ [CommsNext]_commsVars => LinkInv'
<1> SUFFICES ASSUME LinkInv, [CommsNext]_commsVars
             PROVE  LinkInv'
  OBVIOUS
<1>1. CASE Running
  BY <1>1, UpdateInv, ReadInv, TakeByteInv, SendByteInv, WriteInv DEF Running
<1>2. CASE Host
  BY <1>2, HostInv
<1>3. CASE Caller
  BY <1>3, CallInv DEF Caller
<1>4. CASE UNCHANGED commsVars
  BY <1>4 DEF commsVars, registers, statics, locals, hostVars, LinkInv, LinkTypeOK, Placed,
     Reading, Writing, Fresh, Unnoticed, Posted, Taken, SameSession, Numbered, Open, Pending,
     LastShown, Issued
<1> QED BY <1>1, <1>2, <1>3, <1>4 DEF CommsNext

LEMMA LinkAlways == CommsSpec => []LinkInv
  BY LinkInit, LinkStep, PTL DEF CommsSpec
-----------------------------------------------------------------------------
(* The registers, the program's numbers and the place in a call keep their  *)
(* types: comms.c:22 to 44.                                                 *)
THEOREM LinkTypes == CommsSpec => []LinkTypeOK
<1>1. LinkInv => LinkTypeOK
  BY DEF LinkInv
<1> QED BY <1>1, LinkAlways, PTL

(* The bytes comms_read takes are those the host posted, in order, none     *)
(* twice and none left out: comms.c:89 to 109.                              *)
THEOREM BytesInOrder == CommsSpec => []InOrder
<1>1. LinkInv => InOrder
  BY DEF LinkInv, LinkTypeOK, Taken, InOrder
<1> QED BY <1>1, LinkAlways, PTL

(* What comms_write counts as sent to a host that stayed is the last it saw *)
(* and was acknowledged: comms.c:111 to 135.                                *)
THEOREM WritesDelivered == CommsSpec => []WriteDelivered
<1>1. LinkInv => WriteDelivered
  BY DEF LinkInv, LinkTypeOK, Placed, LastShown, Numbered, Open, Pending, Issued, WriteDelivered
<1> QED BY <1>1, LinkAlways, PTL
-----------------------------------------------------------------------------
(* The command loop. *)
Calling == {"polled", "answer", "fetch", "header", "payload", "sent", "words"}
Steps == Calling \cup {"poll", "shift", "process", "wait"}

Memory == [0 .. MemSize - 1 -> Bytes]

Cmds == [cmd : Bytes, arg0 : Nat, arg1 : Nat, total_bytes : Nat, total_bytes_read : Nat,
         total_bytes_consumed : Nat, bytes_avail : Nat, bytes_consumed : Nat,
         buffer : Seq(Bytes)]
CmdOK(k) ==
  /\ k \in Cmds /\ Len(k.buffer) = k.bytes_avail /\ k.bytes_consumed <= k.bytes_avail

PlanTypeOK ==
  /\ plan \in [later : Seq(Scripts), patient : BOOLEAN, script : Scripts, stream : Seq(Bytes)]
  /\ plan.stream = Stream(plan.script)

LoopTypeOK ==
  /\ step \in Steps /\ CmdOK(c)
  /\ hdr \in Seq(Bytes) /\ Len(hdr) < HeaderSize /\ ofs \in Nat
  /\ mem \in Memory /\ mem0 \in Memory
  /\ PlanTypeOK /\ clean \in BOOLEAN /\ answered \in Nat

-----------------------------------------------------------------------------
(* The largest of some indices. *)
LEMMA LatestIs ==
  ASSUME NEW n \in Nat, NEW I, I \subseteq 1 .. n, I # {}
  PROVE  Latest(I) \in I /\ \A j \in I : j <= Latest(I)
<1> DEFINE T == {n - i : i \in I}
<1>1. T \subseteq Nat /\ T # {}
  <2>1. \A i \in I : n - i \in Nat OBVIOUS
  <2> QED BY <2>1, Zenon
<1>2. PICK t \in T : \A u \in T : t <= u
  <2> HIDE DEF T
  <2> QED BY <1>1, LeastNumber
<1>3. PICK i \in I : t = n - i BY <1>2
<1>4. \A j \in I : j <= i
  <2> SUFFICES ASSUME NEW j \in I PROVE j <= i OBVIOUS
  <2>1. n - j \in T OBVIOUS
  <2>2. t <= n - j BY <1>2, <2>1
  <2>3. i \in Int /\ j \in Int OBVIOUS
  <2> QED BY <1>3, <2>2, <2>3
<1>5. \E k \in I : \A j \in I : j <= k BY <1>4
<1> QED BY <1>5, Zenon DEF Latest

LEMMA BehindType == ASSUME NEW far \in Nat, NEW n \in Nat PROVE Behind(far, n) \in 0 .. MemSize - 1
<1> DEFINE p == FarPlus(far, n)
<1>1. FarPlus(far, n) \in Nat
  <2>1. far \div OffMod \in Nat /\ ((far % OffMod) + n) % OffMod \in Nat BY LoopAssumption
  <2>2. (far \div OffMod) * OffMod \in Nat BY <2>1, LoopAssumption
  <2> QED BY <2>1, <2>2 DEF FarPlus
<1>2. p \in Nat BY <1>1
<1> HIDE DEF p
<1>3. p \div OffMod \in Nat /\ p % OffMod \in Nat BY <1>2, LoopAssumption
<1>4. (p \div OffMod) * Para \in Nat BY <1>3, LoopAssumption
<1>5. ((p \div OffMod) * Para + (p % OffMod)) % MemSize \in 0 .. MemSize - 1
  BY <1>3, <1>4, LoopAssumption
<1> QED BY <1>5 DEF Behind, p

LEMMA CopiedType ==
  ASSUME NEW m \in Memory, NEW far, NEW s \in Seq(Bytes)
  PROVE  Copied(m, far, s) \in Memory
<1> SUFFICES ASSUME NEW a \in 0 .. MemSize - 1, Hits(far, s, a) # {}
             PROVE  s[Latest(Hits(far, s, a))] \in Bytes
  BY DEF Copied, Memory
<1>1. Hits(far, s, a) \subseteq 1 .. Len(s) BY DEF Hits
<1>2. Latest(Hits(far, s, a)) \in 1 .. Len(s) BY <1>1, LatestIs
<1> QED BY <1>2

LEMMA MemAtType ==
  ASSUME NEW m \in Memory, NEW far \in Nat, NEW n \in Nat
  PROVE  MemAt(m, far, n) \in Seq(Bytes) /\ Len(MemAt(m, far, n)) = n
<1>1. ASSUME NEW i \in 1 .. n PROVE m[Behind(far, i - 1)] \in Bytes
  <2>1. i - 1 \in Nat OBVIOUS
  <2>2. Behind(far, i - 1) \in 0 .. MemSize - 1 BY <2>1, BehindType
  <2> QED BY <2>2 DEF Memory
<1> QED BY <1>1 DEF MemAt

LEMMA RepeatedType ==
  ASSUME NEW s \in Seq(Bytes), NEW n \in Nat
  PROVE  Repeated(s, n) \in Seq(Bytes) /\ Len(Repeated(s, n)) = n * Len(s)
<1>1. n * Len(s) \in Nat OBVIOUS
<1>2. ASSUME NEW i \in 1 .. n * Len(s) PROVE ((i - 1) % Len(s)) + 1 \in 1 .. Len(s)
  <2>1. Len(s) # 0
    <3>1. n * 0 = 0 OBVIOUS
    <3> QED BY <1>1, <3>1
  <2>2. (i - 1) % Len(s) \in 0 .. Len(s) - 1 BY <1>1, <2>1
  <2> QED BY <2>2
<1> QED BY <1>1, <1>2 DEF Repeated

LEMMA PairType ==
  ASSUME NEW x, NEW y, x \in Nat, y \in Nat
  PROVE  x + 256 * y \in Nat /\ x + 65536 * y \in Nat
OBVIOUS

LEMMA HeaderType ==
  ASSUME NEW h \in Seq(Bytes), Len(h) >= HeaderSize
  PROVE  U32(h, 1) \in Nat /\ U32(h, 5) \in Nat /\ U16(h, 9) \in Nat
<1>1. Bytes \subseteq Nat
  <2>1. 0 .. 255 \subseteq Nat OBVIOUS
  <2> QED BY <2>1, LoopAssumption
<1>2. ASSUME NEW i \in 1 .. Len(h) PROVE h[i] \in Nat
  <2>1. h[i] \in Bytes OBVIOUS
  <2> QED BY <1>1, <2>1
<1>3. Len(h) \in Nat /\ Len(h) >= 10 BY DEF HeaderSize
<1>4. ASSUME NEW i \in 1 .. 9 PROVE U16(h, i) \in Nat
  <2> DEFINE x == h[i]
             y == h[i + 1]
  <2>1. i \in 1 .. Len(h) /\ i + 1 \in 1 .. Len(h) BY <1>3
  <2>2. x \in Nat /\ y \in Nat BY <1>2, <2>1
  <2>3. U16(h, i) = x + 256 * y BY DEF U16
  <2> HIDE DEF x, y
  <2> QED BY <2>2, <2>3, PairType
<1>5. ASSUME NEW i \in 1 .. 7 PROVE U32(h, i) \in Nat
  <2> DEFINE x == U16(h, i)
             y == U16(h, i + 2)
  <2>1. i \in 1 .. 9 /\ i + 2 \in 1 .. 9 OBVIOUS
  <2>2. x \in Nat /\ y \in Nat BY <1>4, <2>1
  <2>3. U32(h, i) = x + 65536 * y BY DEF U32
  <2> HIDE DEF x, y
  <2> QED BY <2>2, <2>3, PairType
<1>6. 1 \in 1 .. 7 /\ 5 \in 1 .. 7 /\ 9 \in 1 .. 9 OBVIOUS
<1> QED BY <1>4, <1>5, <1>6

(* What the host sends, one command after the other. *)
LEMMA StreamIs ==
  ASSUME NEW s \in Scripts
  PROVE  /\ StreamUpTo(s, 0) = <<>>
         /\ \A n \in 0 .. Len(s) : StreamUpTo(s, n) \in Seq(Bytes)
         /\ \A n \in 1 .. Len(s) : StreamUpTo(s, n) = StreamUpTo(s, n - 1) \o Flat(s[n])
<1> DEFINE N == Len(s)
           Upto(f) == f = [i \in 0 .. N |-> IF i = 0 THEN <<>> ELSE f[i - 1] \o Flat(s[i])]
           grow == [p \in (1 .. N) \X Seq(Bytes) |-> p[2] \o Flat(s[p[1]])]
           f == CHOOSE g : Upto(g)
<1>1. N \in Nat /\ \A n \in 1 .. N : Flat(s[n]) \in Seq(Bytes)
  <2>1. s \in Seq(Commands) /\ \A n \in DOMAIN s : Flat(s[n]) \in Seq(Bytes)
    BY DEF Scripts, Proper
  <2> QED BY <2>1
<1>2. grow \in [(1 .. N) \X Seq(Bytes) -> Seq(Bytes)]
  <2>1. ASSUME NEW p \in (1 .. N) \X Seq(Bytes) PROVE p[2] \o Flat(s[p[1]]) \in Seq(Bytes)
    <3>1. p[2] \in Seq(Bytes) /\ Flat(s[p[1]]) \in Seq(Bytes) BY <1>1
    <3> QED BY <3>1
  <2> QED BY <2>1
<1>3. PICK g \in [0 .. N -> Seq(Bytes)] :
        g[0] = <<>> /\ \A i \in 1 .. N : g[i] = grow[<<i, g[i - 1]>>]
  <2> DEFINE S == Seq(Bytes)
             base == <<>>
  <2>1. base \in S /\ N \in Nat BY <1>1
  <2>2. grow \in [(1 .. N) \X S -> S] BY <1>2
  <2> HIDE DEF grow, N, S, base
  <2>3. \E g \in [0 .. N -> S] : RecursionUpTo(g, N, base, grow)
    BY ONLY <2>1, <2>2, FiniteRecursion
  <2> QED BY <2>3 DEF S, base, RecursionUpTo
<1>4. Upto(g)
  <2>1. ASSUME NEW i \in 0 .. N
        PROVE  g[i] = IF i = 0 THEN <<>> ELSE g[i - 1] \o Flat(s[i])
    <3>1. CASE i = 0 BY <1>3, <3>1
    <3>2. CASE i # 0
      <4>1. i \in 1 .. N /\ i - 1 \in 0 .. N
        <5> HIDE DEF N
        <5> QED BY <1>1, <3>2
      <4>2. g[i - 1] \in Seq(Bytes) BY <1>3, <4>1
      <4>3. <<i, g[i - 1]>> \in (1 .. N) \X Seq(Bytes) BY <4>1, <4>2
      <4>4. g[i] = grow[<<i, g[i - 1]>>] BY <1>3, <4>1, Zenon
      <4> QED BY <3>2, <4>3, <4>4
    <3> QED BY <3>1, <3>2
  <2>2. g = [i \in 0 .. N |-> g[i]] BY <1>3
  <2> HIDE DEF grow, N
  <2> QED BY <2>1, <2>2, Zenon
<1>5. Upto(f) BY <1>4, Zenon
<1>6. \A n : StreamUpTo(s, n) = f[n] BY DEF StreamUpTo
<1> HIDE DEF grow, N, f
<1>7. \A i \in 0 .. N : f[i] = IF i = 0 THEN <<>> ELSE f[i - 1] \o Flat(s[i]) BY <1>5
<1>z. 0 \in 0 .. N /\ f[0] = <<>> BY <1>1, <1>7
<1> DEFINE T == {n \in Nat : n <= N => f[n] \in Seq(Bytes)}
<1>8. T = Nat
  <2>1. 0 \in T
    <3>1. <<>> \in Seq(Bytes) /\ 0 \in Nat OBVIOUS
    <3> QED BY <1>z, <3>1, Zenon
  <2>2. ASSUME NEW n \in T PROVE n + 1 \in T
    <3> SUFFICES ASSUME n + 1 <= N PROVE f[n + 1] \in Seq(Bytes) OBVIOUS
    <3>1. n \in Nat /\ (n <= N => f[n] \in Seq(Bytes)) BY <2>2
    <3>2. n + 1 \in 1 .. N /\ n + 1 \in 0 .. N /\ n + 1 # 0 /\ (n + 1) - 1 = n /\ n <= N
      BY <1>1, <3>1
    <3>3. f[n + 1] = f[n] \o Flat(s[n + 1]) BY <1>7, <3>2
    <3>4. Flat(s[n + 1]) \in Seq(Bytes) BY <1>1, <3>2
    <3> QED BY <3>1, <3>2, <3>3, <3>4
  <2>3. T \subseteq Nat OBVIOUS
  <2> HIDE DEF T
  <2> QED BY <2>1, <2>2, <2>3, Inductive
<1>9. ASSUME NEW n \in 0 .. N PROVE f[n] \in Seq(Bytes)
  <2>1. n \in Nat /\ n <= N BY <1>1
  <2>2. n \in T BY <1>8, <2>1
  <2> QED BY <2>1, <2>2
<1>10. ASSUME NEW n \in 1 .. N PROVE f[n] = f[n - 1] \o Flat(s[n])
  <2>1. n \in 0 .. N /\ n # 0 BY <1>1
  <2> QED BY <1>7, <2>1
<1> QED BY <1>6, <1>z, <1>9, <1>10 DEF N

LEMMA StreamType == ASSUME NEW s \in Scripts PROVE Stream(s) \in Seq(Bytes)
<1>1. Len(s) \in 0 .. Len(s) BY DEF Scripts
<1> QED BY <1>1, StreamIs DEF Stream

-----------------------------------------------------------------------------
(* What a step of the loop asks of the link, and what the link keeps. *)
Asks == Caller \/ UNCHANGED commsVars

LEMMA AsksUpdate == CallUpdate => Asks
BY DEF Asks, Caller
LEMMA AsksRead == ASSUME NEW n \in Nat \ {0}, CallRead(n) PROVE Asks
BY DEF Asks, Caller
LEMMA AsksWrite == ASSUME NEW d \in Seq(Bytes), CallWrite(d) PROVE Asks
BY DEF Asks, Caller

LEMMA CodesAre ==
  /\ Codes.IDLE = 0 /\ Codes.WRITE_BYTES = 1 /\ Codes.WRITE_WORDS = 2 /\ Codes.READ_BYTES = 3
  /\ Codes.READ_WORDS = 4 /\ Codes.FILL_BYTES = 5 /\ Codes.FILL_WORDS = 6
BY DEF Codes

LEMMA IdleByte == Codes.IDLE \in Bytes
BY CodesAre, LoopAssumption

(* Pieces of a command that is being carried out. *)
LEMMA ShiftedWhole == ASSUME CmdOK(c) PROVE CmdOK(Shifted)
<1>1. CASE c.bytes_consumed = 0 BY <1>1 DEF Shifted
<1>2. CASE c.bytes_consumed # 0
  <2> DEFINE rest == SubSeq(c.buffer, c.bytes_consumed + 1, c.bytes_avail)
  <2>1. c \in Cmds /\ Len(c.buffer) = c.bytes_avail /\ c.bytes_consumed <= c.bytes_avail
    BY DEF CmdOK
  <2>2. c.buffer \in Seq(Bytes) /\ c.bytes_avail \in Nat /\ c.bytes_consumed \in Nat
    BY <2>1 DEF Cmds
  <2>3. rest \in Seq(Bytes) /\ Len(rest) = c.bytes_avail - c.bytes_consumed
    BY <2>1, <2>2
  <2>4. c.bytes_avail - c.bytes_consumed \in Nat BY <2>1, <2>2
  <2> HIDE DEF rest
  <2> DEFINE k == [c EXCEPT !.buffer = rest, !.bytes_avail = @ - c.bytes_consumed,
                            !.total_bytes_consumed = @ + c.bytes_consumed,
                            !.bytes_consumed = 0]
  <2>5. Shifted = k BY <1>2 DEF Shifted, rest
  <2> DEFINE avail == c.bytes_avail - c.bytes_consumed
             total == c.total_bytes_consumed + c.bytes_consumed
  <2>8. avail \in Nat /\ total \in Nat /\ 0 \in Nat BY <2>1, <2>2, <2>4 DEF Cmds
  <2>9. k = [c EXCEPT !.buffer = rest, !.bytes_avail = avail,
                      !.total_bytes_consumed = total, !.bytes_consumed = 0]
    OBVIOUS
  <2>6. k \in Cmds
    <3> HIDE DEF k, avail, total
    <3> QED BY <2>1, <2>3, <2>8, <2>9 DEF Cmds
  <2>7. k.buffer = rest /\ k.bytes_avail = c.bytes_avail - c.bytes_consumed /\ k.bytes_consumed = 0
    BY <2>1 DEF Cmds
  <2> HIDE DEF k
  <2> QED BY <2>3, <2>4, <2>5, <2>6, <2>7 DEF CmdOK
<1> QED BY <1>1, <1>2

LEMMA PayloadAsks ==
  ASSUME NEW k, CmdOK(k), Payload(k)
  PROVE  Asks /\ step' \in {"payload", "process"}
<1>1. /\ k.total_bytes \in Nat /\ k.total_bytes_read \in Nat /\ k.bytes_avail \in Nat
  BY DEF CmdOK, Cmds
<1>2. CASE k.total_bytes_read < k.total_bytes /\ k.bytes_avail < BufferSize
  <2>1. CallRead(Least(Space(k), Remaining(k))) /\ step' = "payload" BY <1>2 DEF Payload
  <2>2. Least(Space(k), Remaining(k)) \in Nat \ {0}
    BY <1>1, <1>2, LoopAssumption DEF Least, Space, Remaining
  <2> QED BY <2>1, <2>2, AsksRead
<1>3. CASE ~ (k.total_bytes_read < k.total_bytes /\ k.bytes_avail < BufferSize)
  BY <1>3 DEF Payload, Asks
<1> QED BY <1>2, <1>3

-----------------------------------------------------------------------------
(* Each step of the loop keeps the types and asks of the link what it may   *)
(* be asked.                                                                *)
LEMMA PlanHeld == ASSUME PlanTypeOK, UNCHANGED plan PROVE PlanTypeOK'
BY DEF PlanTypeOK

LEMMA PlaceSteps ==
  ASSUME LoopTypeOK, Poll \/ Polled \/ Sent \/ Wait
  PROVE  Asks /\ LoopTypeOK'
<1>1. UNCHANGED <<c, hdr, ofs, mem, plan, clean, mem0, answered>>
  BY DEF Poll, Polled, Sent, Wait, LocalStep, LoopKeepsPast, pastVars
<1>2. step' \in Steps BY DEF Poll, Polled, Sent, Wait, LocalStep, Steps, Calling
<1>3. Asks
  <2>1. CallUpdate \/ UNCHANGED commsVars BY DEF Poll, Polled, Sent, Wait, LocalStep
  <2> QED BY <2>1, AsksUpdate DEF Asks
<1>4. PlanTypeOK' BY <1>1, PlanHeld DEF LoopTypeOK
<1> QED BY <1>1, <1>2, <1>3, <1>4 DEF LoopTypeOK, CmdOK

LEMMA ShiftStep ==
  ASSUME LoopTypeOK, Shift
  PROVE  Asks /\ LoopTypeOK'
<1>1. /\ UNCHANGED <<hdr, ofs, mem, plan, clean, mem0, answered>>
      /\ c' = Shifted
  BY DEF Shift, LoopKeepsPast, pastVars
<1>2. CmdOK(c') BY <1>1, ShiftedWhole DEF LoopTypeOK
<1>3. Asks /\ step' \in Steps
  <2>1. CASE CallWrite(<<c'.cmd>>) /\ step' = "answer"
    <3>1. <<c'.cmd>> \in Seq(Bytes) BY <1>2 DEF CmdOK, Cmds
    <3> QED BY <2>1, <3>1, AsksWrite DEF Steps, Calling
  <2>2. CASE CallRead(1) /\ step' = "fetch"
    <3> DEFINE n == 1
    <3>1. n \in Nat \ {0} OBVIOUS
    <3> HIDE DEF n
    <3>2. CallRead(n) BY <2>2 DEF n
    <3> QED BY <2>2, <3>1, <3>2, AsksRead DEF Steps, Calling
  <2>3. CASE Payload(c')
    <3> QED BY <1>2, <2>3, PayloadAsks DEF Steps, Calling
  <2> QED BY <2>1, <2>2, <2>3 DEF Shift
<1>4. PlanTypeOK' BY <1>1, PlanHeld DEF LoopTypeOK
<1> QED BY <1>1, <1>2, <1>3, <1>4 DEF LoopTypeOK, CmdOK

LEMMA OneByteAsks == CallRead(1) => Asks
<1> DEFINE n == 1
<1>1. n \in Nat \ {0} OBVIOUS
<1> HIDE DEF n
<1>2. CallRead(n) => Asks BY <1>1, AsksRead
<1> QED BY <1>2 DEF n

LEMMA AnswerStep ==
  ASSUME LoopTypeOK, Answer
  PROVE  Asks /\ LoopTypeOK'
<1>1. /\ UNCHANGED <<hdr, ofs, mem, plan, clean, mem0>>
      /\ c' = [c EXCEPT !.cmd = Codes.IDLE] /\ answered' = answered + 1
      /\ CallRead(1) /\ step' = "fetch"
  BY DEF Answer
<1>2. CmdOK(c') BY <1>1, IdleByte DEF LoopTypeOK, CmdOK, Cmds
<1>3. Asks /\ step' \in Steps BY <1>1, OneByteAsks DEF Steps, Calling
<1>4. PlanTypeOK' BY <1>1, PlanHeld DEF LoopTypeOK
<1> QED BY <1>1, <1>2, <1>3, <1>4 DEF LoopTypeOK, CmdOK

LEMMA FetchStep ==
  ASSUME LoopTypeOK, LinkTypeOK, Fetch
  PROVE  Asks /\ LoopTypeOK'
<1>1. /\ UNCHANGED <<ofs, mem, plan, clean, mem0, answered>>
      /\ c' = [c EXCEPT !.cmd = IF buffer = <<>> THEN @ ELSE buffer[1]]
      /\ \/ UNCHANGED commsVars /\ step' = "process" /\ UNCHANGED hdr
         \/ CallRead(HeaderSize) /\ step' = "header" /\ hdr' = <<>>
  BY DEF Fetch, LoopKeepsPast, pastVars
<1>2. CmdOK(c')
  <2> DEFINE code == IF buffer = <<>> THEN c.cmd ELSE buffer[1]
  <2>1. code \in Bytes
    <3>1. buffer \in Seq(Bytes) /\ c.cmd \in Bytes BY DEF LinkTypeOK, LoopTypeOK, CmdOK, Cmds
    <3> QED BY <3>1
  <2>2. c' = [c EXCEPT !.cmd = code] BY <1>1
  <2> HIDE DEF code
  <2> QED BY <2>1, <2>2 DEF LoopTypeOK, CmdOK, Cmds
<1>3. CallRead(HeaderSize) => Asks
  <2>1. HeaderSize \in Nat \ {0} BY DEF HeaderSize
  <2> QED BY <2>1, AsksRead
<1>4. Asks /\ step' \in Steps BY <1>1, <1>3 DEF Steps, Calling, Asks
<1>5. hdr' \in Seq(Bytes) /\ Len(hdr') < HeaderSize
  <2>1. <<>> \in Seq(Bytes) /\ Len(<<>>) < HeaderSize BY DEF HeaderSize
  <2>2. hdr \in Seq(Bytes) /\ Len(hdr) < HeaderSize BY DEF LoopTypeOK
  <2> QED BY <1>1, <2>1, <2>2
<1>6. PlanTypeOK' BY <1>1, PlanHeld DEF LoopTypeOK
<1> QED BY <1>1, <1>2, <1>4, <1>5, <1>6 DEF LoopTypeOK, CmdOK

LEMMA HeaderStep ==
  ASSUME LoopTypeOK, LinkTypeOK, Header
  PROVE  Asks /\ LoopTypeOK'
<1> DEFINE h == hdr \o buffer
<1>0. hdr \in Seq(Bytes) /\ buffer \in Seq(Bytes) BY DEF LoopTypeOK, LinkTypeOK
<1>1. h \in Seq(Bytes) /\ Len(h) \in Nat BY <1>0
<1>2. UNCHANGED <<ofs, mem, plan, clean, mem0, answered>>
  BY DEF Header, LoopKeepsPast, pastVars
<1>3. PlanTypeOK' BY <1>2, PlanHeld DEF LoopTypeOK
<1>4. CASE Len(h) < HeaderSize
  <2>1. hdr' = h /\ CallRead(HeaderSize - Len(h)) /\ UNCHANGED <<step, c>>
    BY <1>4 DEF Header, Kept
  <2>2. HeaderSize - Len(h) \in Nat \ {0} BY <1>1, <1>4 DEF HeaderSize
  <2>3. Asks BY <2>1, <2>2, AsksRead
  <2> HIDE DEF h
  <2> QED BY <1>1, <1>2, <1>3, <1>4, <2>1, <2>3 DEF LoopTypeOK, CmdOK
<1>5. CASE ~ (Len(h) < HeaderSize)
  <2> DEFINE k == [c EXCEPT !.arg0 = U32(h, 1), !.arg1 = U32(h, 5),
                            !.total_bytes = U16(h, 9),
                            !.total_bytes_read = 0, !.total_bytes_consumed = 0,
                            !.bytes_avail = 0, !.bytes_consumed = 0, !.buffer = <<>>]
  <2>1. c' = k /\ hdr' = <<>> /\ Payload(c') BY <1>5 DEF Header
  <2>2. CmdOK(c')
    <3>1. Len(h) >= HeaderSize BY <1>1, <1>5 DEF HeaderSize
    <3>2. U32(h, 1) \in Nat /\ U32(h, 5) \in Nat /\ U16(h, 9) \in Nat
      BY <1>1, <3>1, HeaderType
    <3>3. <<>> \in Seq(Bytes) /\ 0 \in Nat /\ Len(<<>>) = 0 /\ 0 <= 0 OBVIOUS
    <3>4. c \in Cmds BY DEF LoopTypeOK, CmdOK
    <3> HIDE DEF h
    <3>5. k \in Cmds BY <3>2, <3>3, <3>4 DEF Cmds
    <3>6. k.buffer = <<>> /\ k.bytes_avail = 0 /\ k.bytes_consumed = 0 BY <3>4 DEF Cmds
    <3> HIDE DEF k
    <3> QED BY <2>1, <3>3, <3>5, <3>6 DEF CmdOK
  <2>3. Asks /\ step' \in Steps BY <2>1, <2>2, PayloadAsks DEF Steps, Calling
  <2>4. hdr' \in Seq(Bytes) /\ Len(hdr') < HeaderSize
    <3>1. <<>> \in Seq(Bytes) /\ Len(<<>>) < HeaderSize BY DEF HeaderSize
    <3> QED BY <2>1, <3>1
  <2> HIDE DEF h, k
  <2> QED BY <1>2, <1>3, <2>2, <2>3, <2>4 DEF LoopTypeOK, CmdOK
<1> QED BY <1>4, <1>5

LEMMA GotPayloadStep ==
  ASSUME LoopTypeOK, LinkTypeOK, GotPayload
  PROVE  Asks /\ LoopTypeOK'
<1> DEFINE n == Len(buffer)
           s == c.buffer \o buffer
<1>1. /\ UNCHANGED <<hdr, ofs, mem, plan, clean, mem0, answered, commsVars>>
      /\ step' = "process"
      /\ c' = [c EXCEPT !.buffer = @ \o buffer,
                        !.bytes_avail = @ + Len(buffer), !.total_bytes_read = @ + Len(buffer)]
  BY DEF GotPayload, LoopKeepsPast, pastVars, LocalStep
<1>2. buffer \in Seq(Bytes) BY DEF LinkTypeOK
<1>3. c \in Cmds /\ Len(c.buffer) = c.bytes_avail /\ c.bytes_consumed <= c.bytes_avail
  BY DEF LoopTypeOK, CmdOK
<1>4. c.buffer \in Seq(Bytes) /\ c.bytes_avail \in Nat /\ c.bytes_consumed \in Nat
      /\ c.total_bytes_read \in Nat
  BY <1>3 DEF Cmds
<1>5. s \in Seq(Bytes) /\ Len(s) = c.bytes_avail + n /\ n \in Nat BY <1>2, <1>3, <1>4
<1> HIDE DEF n, s
<1>6. c' = [c EXCEPT !.buffer = s, !.bytes_avail = @ + n, !.total_bytes_read = @ + n]
  BY <1>1, <1>3 DEF n, s, Cmds
<1>7. c' \in Cmds
  <2> DEFINE avail == c.bytes_avail + n
             total == c.total_bytes_read + n
  <2>1. avail \in Nat /\ total \in Nat BY <1>4, <1>5
  <2>2. c' = [c EXCEPT !.buffer = s, !.bytes_avail = avail, !.total_bytes_read = total]
    BY <1>6
  <2> HIDE DEF avail, total
  <2> QED BY <1>3, <1>5, <2>1, <2>2 DEF Cmds
<1>8. c'.buffer = s /\ c'.bytes_avail = c.bytes_avail + n /\ c'.bytes_consumed = c.bytes_consumed
  BY <1>3, <1>6 DEF Cmds
<1>9. CmdOK(c') BY <1>3, <1>4, <1>5, <1>7, <1>8 DEF CmdOK
<1>10. PlanTypeOK' BY <1>1, PlanHeld DEF LoopTypeOK
<1>11. step' \in Steps BY <1>1 DEF Steps, Calling
<1> QED BY <1>1, <1>9, <1>10, <1>11 DEF LoopTypeOK, CmdOK, Asks

(* process_cmd *)
LEMMA EffectType ==
  ASSUME LoopTypeOK, NEW far, NEW s \in Seq(Bytes), mem' = Copied(mem, far, s)
  PROVE  mem' \in Memory
BY CopiedType DEF LoopTypeOK

LEMMA ConsumeWhole ==
  ASSUME CmdOK(c), NEW n \in Nat, n <= c.bytes_avail, Consume(n)
  PROVE  CmdOK(c')
<1>1. c' = [c EXCEPT !.bytes_consumed = n] BY DEF Consume
<1> QED BY <1>1 DEF CmdOK, Cmds

LEMMA FarPlusType == ASSUME NEW far \in Nat, NEW n \in Nat PROVE FarPlus(far, n) \in Nat
<1>1. far \div OffMod \in Nat /\ ((far % OffMod) + n) % OffMod \in Nat BY LoopAssumption
<1>2. (far \div OffMod) * OffMod \in Nat BY <1>1, LoopAssumption
<1> QED BY <1>1, <1>2 DEF FarPlus

(* What carrying out a command leaves. *)
Carried == CmdOK(c') /\ mem' \in Memory /\ step' \in Steps /\ Asks /\ UNCHANGED plan

LEMMA ProcessStep ==
  ASSUME LoopTypeOK, Process
  PROVE  Carried
<1>1. /\ CmdOK(c) /\ mem \in Memory /\ c.arg0 \in Nat /\ c.arg1 \in Nat /\ c.cmd \in Bytes
      /\ c.bytes_avail \in Nat /\ c.buffer \in Seq(Bytes) /\ Len(c.buffer) = c.bytes_avail
  BY DEF LoopTypeOK, CmdOK, Cmds
<1>2. ASSUME LocalStep("wait"), UNCHANGED <<c, mem>> PROVE Carried
  BY <1>1, <1>2 DEF Carried, LocalStep, CmdOK, Steps, Asks
<1>3. ASSUME NEW n \in Nat, n <= c.bytes_avail, Consume(n),
             NEW far, NEW s \in Seq(Bytes), Effect(far, s)
      PROVE  Carried
  <2>1. CmdOK(c') BY <1>1, <1>3, ConsumeWhole
  <2>2. mem' \in Memory BY <1>3, EffectType DEF Effect
  <2> QED BY <1>3, <2>1, <2>2 DEF Carried, Effect, LocalStep, Steps, Asks
<1>4. CASE WriteBytes
  <2>1. CASE c.bytes_avail > 0
    <3>1. Consume(c.bytes_avail) /\ Effect(c.arg0 + c.total_bytes_consumed, c.buffer)
      BY <1>4, <2>1 DEF WriteBytes
    <3>2. c.bytes_avail <= c.bytes_avail BY <1>1
    <3> QED BY <1>1, <1>3, <3>1, <3>2
  <2>2. CASE ~ (c.bytes_avail > 0) BY <1>2, <1>4, <2>2 DEF WriteBytes
  <2> QED BY <2>1, <2>2
<1>5. CASE WriteWords
  <2> DEFINE even == c.bytes_avail - (c.bytes_avail % 2)
  <2>1. even \in Nat /\ even <= c.bytes_avail BY <1>1
  <2>2. Consume(even) /\ Effect(c.arg0 + c.total_bytes_consumed, SubSeq(c.buffer, 1, even))
    BY <1>5 DEF WriteWords
  <2> HIDE DEF even
  <2>3. SubSeq(c.buffer, 1, even) \in Seq(Bytes) BY <1>1, <2>1
  <2> QED BY <1>3, <2>1, <2>2, <2>3
<1>6. CASE FillBytes
  <2>1. CASE c.bytes_avail > 0
    <3> DEFINE s == Repeated(SubSeq(c.buffer, 1, 1), AsSize(c.arg1))
    <3>1. Consume(c.bytes_avail) /\ Effect(c.arg0, s) BY <1>6, <2>1 DEF FillBytes
    <3>2. c.bytes_avail <= c.bytes_avail BY <1>1
    <3>3. SubSeq(c.buffer, 1, 1) \in Seq(Bytes) BY <1>1, <2>1
    <3>4. AsSize(c.arg1) \in Nat BY <1>1, LoopAssumption DEF AsSize
    <3>5. s \in Seq(Bytes) BY <3>3, <3>4, RepeatedType
    <3> HIDE DEF s
    <3> QED BY <1>1, <1>3, <3>1, <3>2, <3>5
  <2>2. CASE ~ (c.bytes_avail > 0) BY <1>2, <1>6, <2>2 DEF FillBytes
  <2> QED BY <2>1, <2>2
<1>7. CASE FillWords
  <2>1. CASE c.bytes_avail > 1
    <3> DEFINE s == Repeated(SubSeq(c.buffer, 1, 2), AsSize(c.arg1))
    <3>1. Consume(c.bytes_avail) /\ Effect(c.arg0, s) BY <1>7, <2>1 DEF FillWords
    <3>2. c.bytes_avail <= c.bytes_avail BY <1>1
    <3>3. SubSeq(c.buffer, 1, 2) \in Seq(Bytes) BY <1>1, <2>1
    <3>4. AsSize(c.arg1) \in Nat BY <1>1, LoopAssumption DEF AsSize
    <3>5. s \in Seq(Bytes) BY <3>3, <3>4, RepeatedType
    <3> HIDE DEF s
    <3> QED BY <1>1, <1>3, <3>1, <3>2, <3>5
  <2>2. CASE ~ (c.bytes_avail > 1) BY <1>2, <1>7, <2>2 DEF FillWords
  <2> QED BY <2>1, <2>2
<1>8. CASE ReadBytes
  <2> DEFINE d == IF AsInt(c.arg1) > 0 THEN MemAt(mem, c.arg0, AsInt(c.arg1)) ELSE <<>>
  <2>1. CallWrite(d) /\ step' = "sent" /\ UNCHANGED <<c, mem, plan>> BY <1>8 DEF ReadBytes
  <2>2. d \in Seq(Bytes)
    <3>1. AsInt(c.arg1) \in Int BY <1>1, LoopAssumption DEF AsInt
    <3>2. CASE AsInt(c.arg1) > 0
      <4>1. AsInt(c.arg1) \in Nat BY <3>1, <3>2
      <4> QED BY <1>1, <3>2, <4>1, MemAtType
    <3>3. CASE ~ (AsInt(c.arg1) > 0) BY <3>3
    <3> QED BY <3>2, <3>3
  <2> HIDE DEF d
  <2>3. Asks BY <2>1, <2>2, AsksWrite
  <2> QED BY <1>1, <2>1, <2>3 DEF Carried, Steps, Calling, CmdOK
<1>9. CASE NoCommand BY <1>2, <1>9 DEF NoCommand
<1>10. CASE OtherCommand
  <2>1. c.bytes_avail <= c.bytes_avail BY <1>1
  <2>2. CmdOK(c') BY <1>1, <1>10, <2>1, ConsumeWhole DEF OtherCommand
  <2> QED BY <1>1, <1>10, <2>2 DEF OtherCommand, Carried, LocalStep, Steps, Asks
<1> QED BY <1>4, <1>5, <1>6, <1>7, <1>8, <1>9, <1>10 DEF Process

LEMMA ReadWordsStep ==
  ASSUME LoopTypeOK, ReadWords
  PROVE  Carried /\ ofs' \in Nat
<1>1. UNCHANGED <<c, hdr, mem>> BY DEF ReadWords
<1>2. PICK n \in Nat : SendWord(n)
  <2>1. ofs \in Nat /\ 0 \in Nat BY DEF LoopTypeOK
  <2> QED BY <2>1 DEF ReadWords
<1>3. CmdOK(c) /\ mem \in Memory /\ c.arg0 \in Nat /\ c.arg1 \in Nat
  BY DEF LoopTypeOK, CmdOK, Cmds
<1>4. CASE n < c.arg1
  <2>1. CallWrite(WordAt(n)) /\ step' = "words" /\ ofs' = n + 1 /\ UNCHANGED plan
    BY <1>2, <1>4 DEF SendWord
  <2>2. WordAt(n) \in Seq(Bytes)
    <3>1. FarPlus(c.arg0, 2 * n) \in Nat
      <4>1. 2 * n \in Nat OBVIOUS
      <4> QED BY <1>3, <4>1, FarPlusType
    <3> DEFINE two == 2
    <3>2. two \in Nat OBVIOUS
    <3> HIDE DEF two
    <3>3. MemAt(mem, FarPlus(c.arg0, 2 * n), two) \in Seq(Bytes)
      BY <1>3, <3>1, <3>2, MemAtType
    <3> QED BY <3>3 DEF WordAt, two
  <2>3. Asks BY <2>1, <2>2, AsksWrite
  <2> QED BY <1>1, <1>3, <2>1, <2>3 DEF Carried, Steps, Calling, CmdOK
<1>5. CASE ~ (n < c.arg1)
  <2>1. LocalStep("wait") /\ ofs' = 0 BY <1>2, <1>5 DEF SendWord
  <2> QED BY <1>1, <1>3, <2>1 DEF Carried, Steps, LocalStep, CmdOK, Asks
<1> QED BY <1>4, <1>5

-----------------------------------------------------------------------------
(* The rest of the steps: inside a call, and the host's. *)
LEMMA InsideStep ==
  ASSUME LoopTypeOK, Inside
  PROVE  Running /\ LoopTypeOK'
<1>1. Running /\ UNCHANGED <<step, c, hdr, ofs, mem, plan>> BY DEF Inside, loopVars
<1>2. PlanTypeOK' BY <1>1, PlanHeld DEF LoopTypeOK
<1>3. clean' \in BOOLEAN /\ mem0' \in Memory /\ answered' \in Nat
  <2>1. \/ clean' = (c.cmd = Codes.IDLE) /\ mem0' = mem /\ answered' = 0
        \/ clean' = clean /\ mem0' = mem0 /\ answered' = answered
    BY DEF Inside, pastVars
  <2>2. (c.cmd = Codes.IDLE) \in BOOLEAN OBVIOUS
  <2>3. clean \in BOOLEAN /\ mem \in Memory /\ mem0 \in Memory /\ answered \in Nat /\ 0 \in Nat
    BY DEF LoopTypeOK
  <2>4. mem0' \in Memory /\ answered' \in Nat BY <2>1, <2>3
  <2>5. clean' \in BOOLEAN BY ONLY <2>1, <2>2, <2>3, Zenon
  <2> QED BY <2>4, <2>5
<1> QED BY <1>1, <1>2, <1>3 DEF LoopTypeOK, CmdOK

LEMMA OpensPlan ==
  ASSUME LoopTypeOK, Opens
  PROVE  PlanTypeOK'
<1>1. /\ plan \in [later : Seq(Scripts), patient : BOOLEAN, script : Scripts, stream : Seq(Bytes)]
      /\ plan.later # <<>>
  BY DEF Opens, LoopTypeOK, PlanTypeOK
<1> DEFINE s == Head(plan.later)
           rest == Tail(plan.later)
           bytes == Stream(s)
<1>2. plan' = [plan EXCEPT !.script = s, !.later = rest, !.stream = bytes] BY DEF Opens
<1>3. s \in Scripts /\ rest \in Seq(Scripts) BY <1>1
<1>4. bytes \in Seq(Bytes) BY <1>3, StreamType
<1>5. bytes = Stream(s) OBVIOUS
<1> HIDE DEF s, rest, bytes
<1> QED BY <1>1, <1>2, <1>3, <1>4, <1>5 DEF PlanTypeOK

LEMMA BoardStep ==
  ASSUME LoopTypeOK, LinkTypeOK, Board
  PROVE  Host /\ LoopTypeOK'
<1>1. UNCHANGED <<step, c, hdr, ofs, mem, clean, mem0, answered>>
  BY DEF Board, LoopKeeps, loopVars, pastVars
<1>2. CASE Opens
  <2>1. Host BY <1>2 DEF Opens, Host
  <2> QED BY <1>1, <1>2, <2>1, OpensPlan DEF LoopTypeOK, CmdOK
<1>3. CASE Closes \/ Announces \/ Loads \/ Serves
  <2>1. UNCHANGED plan BY <1>3 DEF Closes, Announces, Loads, Serves
  <2>2. PlanTypeOK' BY <2>1, PlanHeld DEF LoopTypeOK
  <2>3. Host
    <3>1. CASE Loads
      <4>1. Unsent /\ HostLoad(plan.stream[Len(up) + 1]) BY <3>1 DEF Loads
      <4>2. plan.stream \in Seq(Bytes) /\ Len(up) \in Nat
        BY DEF LoopTypeOK, PlanTypeOK, LinkTypeOK
      <4>3. plan.stream[Len(up) + 1] \in Bytes BY <4>1, <4>2 DEF Unsent
      <4> QED BY <4>1, <4>3 DEF Host
    <3>2. CASE Closes \/ Announces \/ Serves
      BY <3>2 DEF Closes, Announces, Serves, Host
    <3> QED BY <1>3, <3>1, <3>2
  <2> QED BY <1>1, <2>2, <2>3 DEF LoopTypeOK, CmdOK
<1> QED BY <1>2, <1>3 DEF Board

LEMMA TargetStep ==
  ASSUME LoopTypeOK, LinkTypeOK, Target
  PROVE  (Running \/ Asks) /\ LoopTypeOK'
<1>1. CASE Inside BY <1>1, InsideStep
<1>2. CASE Poll \/ Polled \/ Sent \/ Wait BY <1>2, PlaceSteps
<1>3. CASE Shift BY <1>3, ShiftStep
<1>4. CASE Answer BY <1>4, AnswerStep
<1>5. CASE Fetch BY <1>5, FetchStep
<1>6. CASE Header BY <1>6, HeaderStep
<1>7. CASE GotPayload BY <1>7, GotPayloadStep
<1>8. CASE Process
  <2>1. UNCHANGED <<hdr, ofs, clean, mem0, answered>>
    BY <1>8 DEF Process, LoopKeepsPast, pastVars
  <2>2. Carried BY <1>8, ProcessStep
  <2>3. PlanTypeOK' BY <2>2, PlanHeld DEF Carried, LoopTypeOK
  <2> QED BY <2>1, <2>2, <2>3 DEF Carried, LoopTypeOK
<1>9. CASE ReadWords
  <2>1. UNCHANGED <<hdr, clean, mem0, answered>>
    BY <1>9 DEF ReadWords, LoopKeepsPast, pastVars
  <2>2. Carried /\ ofs' \in Nat BY <1>9, ReadWordsStep
  <2>3. PlanTypeOK' BY <2>2, PlanHeld DEF Carried, LoopTypeOK
  <2> QED BY <2>1, <2>2, <2>3 DEF Carried, LoopTypeOK
<1> QED BY <1>1, <1>2, <1>3, <1>4, <1>5, <1>6, <1>7, <1>8, <1>9 DEF Target

LEMMA LoopStep ==
  ASSUME LoopTypeOK, LinkTypeOK, [Next]_vars
  PROVE  [CommsNext]_commsVars /\ LoopTypeOK'
<1>1. CASE Target BY <1>1, TargetStep DEF Asks, CommsNext
<1>2. CASE Board BY <1>2, BoardStep DEF CommsNext
<1>3. CASE UNCHANGED vars
  <2>1. UNCHANGED <<commsVars, step, c, hdr, ofs, mem, plan, clean, mem0, answered>>
    BY <1>3 DEF vars, loopVars, pastVars
  <2>2. PlanTypeOK' BY <2>1, PlanHeld DEF LoopTypeOK
  <2> QED BY <2>1, <2>2 DEF LoopTypeOK, CmdOK
<1> QED BY <1>1, <1>2, <1>3 DEF Next

LEMMA LoopInit == Init => LoopTypeOK /\ CommsInit
<1> SUFFICES ASSUME Init PROVE LoopTypeOK /\ CommsInit OBVIOUS
<1>1. /\ CommsInit /\ step = "poll" /\ c = NoCommandYet /\ hdr = <<>> /\ ofs = 0
      /\ mem = [a \in 0 .. MemSize - 1 |-> 0] /\ mem0 = mem /\ clean = TRUE /\ answered = 0
  BY DEF Init
<1>2. CmdOK(c)
  <2>1. 0 \in Bytes /\ 0 \in Nat /\ <<>> \in Seq(Bytes) /\ Len(<<>>) = 0 /\ 0 <= 0
    BY LoopAssumption
  <2>2. c \in Cmds BY <1>1, <2>1 DEF NoCommandYet, Cmds
  <2> QED BY <1>1, <2>1, <2>2 DEF NoCommandYet, CmdOK
<1>3. mem \in Memory BY <1>1, LoopAssumption DEF Memory
<1>4. hdr \in Seq(Bytes) /\ Len(hdr) < HeaderSize BY <1>1 DEF HeaderSize
<1>5. PlanTypeOK
  <2>1. PICK p \in Plans :
          plan = [later |-> p.later, patient |-> p.patient, script |-> <<>>, stream |-> <<>>]
    BY DEF Init
  <2>2. p.patient \in BOOLEAN /\ p.later \in Seq(Scripts) BY PlansAssumption
  <2>3. <<>> \in Scripts /\ <<>> \in Seq(Bytes) /\ Len(<<>>) = 0 BY DEF Scripts
  <2>4. Stream(<<>>) = <<>> BY <2>3, StreamIs DEF Stream
  <2> QED BY <2>1, <2>2, <2>3, <2>4 DEF PlanTypeOK
<1> QED BY <1>1, <1>2, <1>3, <1>4, <1>5 DEF LoopTypeOK, Steps

LEMMA LoopAlways == Spec => [](LoopTypeOK /\ LinkInv)
<1>1. Init => LoopTypeOK /\ LinkInv BY LoopInit, LinkInit
<1>2. LoopTypeOK /\ LinkInv /\ [Next]_vars => (LoopTypeOK /\ LinkInv)'
  <2> SUFFICES ASSUME LoopTypeOK, LinkInv, [Next]_vars PROVE (LoopTypeOK /\ LinkInv)' OBVIOUS
  <2>1. LinkTypeOK BY DEF LinkInv
  <2>2. [CommsNext]_commsVars /\ LoopTypeOK' BY <2>1, LoopStep
  <2> QED BY <2>2, LinkStep
<1> QED BY <1>1, <1>2, PTL DEF Spec

(* What the loop asks of the link is what the theorems about the link       *)
(* assume of a caller: the command loop implements the link's               *)
(* specification, so that its bytes are in order and its writes delivered.  *)
THEOREM LoopUsesLink == Spec => CommsSpec
<1>1. Init => CommsInit BY LoopInit
<1>2. LoopTypeOK /\ LinkInv /\ [Next]_vars => [CommsNext]_commsVars
  <2> SUFFICES ASSUME LoopTypeOK, LinkInv, [Next]_vars PROVE [CommsNext]_commsVars OBVIOUS
  <2>1. LinkTypeOK BY DEF LinkInv
  <2> QED BY <2>1, LoopStep
<1> QED BY <1>1, <1>2, LoopAlways, PTL DEF Spec, CommsSpec

-----------------------------------------------------------------------------
(* What commands mean: copying in pieces, the bytes of a command, the       *)
(* streams of lists of commands and what is said in reply to them.          *)

(* A sum and its remainder. *)
LEMMA ModSum ==
  ASSUME NEW m \in Nat \ {0}, NEW p \in Nat, NEW y \in Nat
  PROVE  ((p % m) + y) % m = (p + y) % m
<1> DEFINE k == p \div m
           r == p % m
           j == (r + y) \div m
           z == (r + y) % m
<1>1. k \in Int /\ r \in 0 .. m - 1 /\ p = k * m + r BY Division
<1>2. r + y \in Int BY <1>1
<1>3. j \in Int /\ z \in 0 .. m - 1 /\ r + y = j * m + z BY <1>2, Division
<1> HIDE DEF k, r, j, z
<1>4. p + y = (k + j) * m + z BY <1>1, <1>3
<1> DEFINE kj == k + j
           t == p + y
<1>5. kj \in Int /\ t = kj * m + z /\ z \in 0 .. m - 1 BY <1>1, <1>3, <1>4
<1> HIDE DEF kj, t
<1>6. t % m = z BY <1>5, DivMod
<1> QED BY <1>6 DEF t, z, r

(* Where a far pointer leads. *)
LEMMA FarPlusParts ==
  ASSUME NEW a \in Nat, NEW n \in Nat
  PROVE  /\ FarPlus(a, n) \div OffMod = a \div OffMod
         /\ FarPlus(a, n) % OffMod = ((a % OffMod) + n) % OffMod
<1> DEFINE k == a \div OffMod
           x == ((a % OffMod) + n) % OffMod
           p == FarPlus(a, n)
<1>1. k \in Int /\ x \in 0 .. OffMod - 1 BY LoopAssumption
<1>2. p = k * OffMod + x BY DEF FarPlus
<1> HIDE DEF k, x, p
<1>3. p \div OffMod = k /\ p % OffMod = x BY <1>1, <1>2, LoopAssumption, DivMod
<1> QED BY <1>3 DEF k, x, p

LEMMA BehindIs ==
  ASSUME NEW a \in Nat, NEW n \in Nat
  PROVE  Behind(a, n) = ((a \div OffMod) * Para + (((a % OffMod) + n) % OffMod)) % MemSize
BY FarPlusParts DEF Behind

LEMMA BehindPlus ==
  ASSUME NEW a \in Nat, NEW x \in Nat, NEW n \in Nat, (a % OffMod) + x < OffMod
  PROVE  Behind(a + x, n) = Behind(a, x + n)
<1> DEFINE k == a \div OffMod
           r == a % OffMod
           p == a + x
           y == r + x
<1>1. k \in Int /\ r \in 0 .. OffMod - 1 /\ a = k * OffMod + r BY LoopAssumption, Division
<1>2. p = k * OffMod + y /\ y \in 0 .. OffMod - 1 /\ p \in Nat /\ x + n \in Nat
  <2> HIDE DEF k, r
  <2>1. k * OffMod \in Int BY <1>1, LoopAssumption
  <2>2. r + x < OffMod BY DEF r
  <2> QED BY <1>1, <2>1, <2>2, LoopAssumption
<1> HIDE DEF k, p, y, r
<1>3. p \div OffMod = k /\ p % OffMod = y BY <1>1, <1>2, LoopAssumption, DivMod
<1>4. Behind(p, n) = (k * Para + ((y + n) % OffMod)) % MemSize BY <1>2, <1>3, BehindIs
<1>5. Behind(a, x + n) = (k * Para + ((r + (x + n)) % OffMod)) % MemSize BY <1>2, BehindIs DEF k, r
<1>6. y + n = r + (x + n) BY <1>1 DEF y
<1> QED BY <1>4, <1>5, <1>6 DEF p

LEMMA BehindFar ==
  ASSUME NEW a \in Nat, NEW x \in Nat, NEW n \in Nat
  PROVE  Behind(FarPlus(a, x), n) = Behind(a, x + n)
<1> DEFINE r == a % OffMod
           p == FarPlus(a, x)
           q == r + x
<1>1. p \in Nat /\ x + n \in Nat /\ r \in Nat /\ q \in Nat BY FarPlusType, LoopAssumption
<1>2. p \div OffMod = a \div OffMod /\ p % OffMod = q % OffMod BY FarPlusParts
<1>3. Behind(p, n) = ((a \div OffMod) * Para + (((q % OffMod) + n) % OffMod)) % MemSize
  <2> HIDE DEF p
  <2> QED BY <1>1, <1>2, BehindIs
<1>4. ((q % OffMod) + n) % OffMod = (q + n) % OffMod
  <2> HIDE DEF q
  <2> QED BY <1>1, LoopAssumption, ModSum
<1>5. Behind(a, x + n) = ((a \div OffMod) * Para + ((r + (x + n)) % OffMod)) % MemSize
  BY <1>1, BehindIs
<1>6. q + n = r + (x + n) BY <1>1
<1> QED BY <1>3, <1>4, <1>5, <1>6

LEMMA LatestUnique ==
  ASSUME NEW n \in Nat, NEW I, I \subseteq 1 .. n, NEW i \in I, \A j \in I : j <= i
  PROVE  Latest(I) = i
<1>1. I # {} OBVIOUS
<1>2. Latest(I) \in I /\ \A j \in I : j <= Latest(I) BY <1>1, LatestIs
<1>3. Latest(I) <= i /\ i <= Latest(I) BY <1>2
<1>4. \A j \in I : j \in 1 .. n OBVIOUS
<1>5. i \in 1 .. n /\ Latest(I) \in 1 .. n BY <1>2, <1>4
<1>6. i \in Int /\ Latest(I) \in Int BY <1>5
<1> QED BY <1>3, <1>6

(* Copying nothing, and copying piece by piece. *)
LEMMA CopiedNone == ASSUME NEW m \in Memory, NEW a PROVE Copied(m, a, <<>>) = m
<1>1. \A x : Hits(a, <<>>, x) = {} BY DEF Hits
<1>2. Copied(m, a, <<>>) = [x \in DOMAIN m |-> m[x]] BY <1>1, Zenon DEF Copied
<1> QED BY <1>2 DEF Memory

LEMMA CopiedPieces ==
  ASSUME NEW m \in Memory, NEW a \in Nat, NEW s \in Seq(Bytes), NEW t \in Seq(Bytes),
         (a % OffMod) + Len(s) + Len(t) <= OffMod
  PROVE  Copied(Copied(m, a, s), a + Len(s), t) = Copied(m, a, s \o t)
<1> DEFINE l == Len(s)
           b == a + l
           st == s \o t
           m1 == Copied(m, a, s)
           D == 0 .. MemSize - 1
<1>1. /\ l \in Nat /\ Len(t) \in Nat /\ st \in Seq(Bytes) /\ Len(st) = l + Len(t)
      /\ \A i \in 1 .. l : st[i] = s[i]
      /\ \A i \in 1 .. Len(t) : st[l + i] = t[i]
  OBVIOUS
<1>2. ASSUME NEW i \in 1 .. Len(t) PROVE Behind(b, i - 1) = Behind(a, l + i - 1)
  <2>1. a % OffMod \in Nat BY LoopAssumption
  <2>2. (a % OffMod) + l < OffMod BY <1>1, <2>1, LoopAssumption
  <2>3. i - 1 \in Nat /\ l + (i - 1) = l + i - 1 BY <1>1
  <2> HIDE DEF l
  <2> QED BY <1>1, <2>2, <2>3, BehindPlus
<1>3. m1 \in Memory BY CopiedType
<1>4. DOMAIN m = D /\ DOMAIN m1 = D BY <1>3 DEF Memory
<1>5. ASSUME NEW x \in D
      PROVE  (IF Hits(b, t, x) = {} THEN m1[x] ELSE t[Latest(Hits(b, t, x))])
             = (IF Hits(a, st, x) = {} THEN m[x] ELSE st[Latest(Hits(a, st, x))])
  <2> DEFINE S == Hits(a, s, x)
             T == Hits(b, t, x)
             U == Hits(a, st, x)
  <2>1. S \subseteq 1 .. l /\ T \subseteq 1 .. Len(t) /\ U \subseteq 1 .. Len(st)
    <3> HIDE DEF st
    <3> QED BY <1>1 DEF Hits
  <2>2. \A i \in 1 .. l : i \in U <=> i \in S
    <3> HIDE DEF st
    <3>1. DOMAIN st = 1 .. Len(st) /\ DOMAIN s = 1 .. l BY <1>1
    <3>2. \A i \in 1 .. l : i \in 1 .. Len(st) BY <1>1
    <3> QED BY <3>1, <3>2 DEF Hits
  <2>3. \A i \in 1 .. Len(t) : l + i \in U <=> i \in T
    <3> HIDE DEF st, b, l
    <3>1. DOMAIN st = 1 .. Len(st) /\ DOMAIN t = 1 .. Len(t) BY <1>1
    <3>2. \A i \in 1 .. Len(t) : l + i \in 1 .. Len(st) BY <1>1
    <3>3. ASSUME NEW i \in 1 .. Len(t) PROVE l + i \in U <=> i \in T
      <4>1. i \in T <=> Behind(b, i - 1) = x BY <3>1 DEF Hits
      <4>2. l + i \in U <=> Behind(a, (l + i) - 1) = x
        <5> DEFINE j == l + i
        <5>1. j \in DOMAIN st BY <3>1, <3>2
        <5> HIDE DEF j
        <5>2. j \in U <=> Behind(a, j - 1) = x BY <5>1 DEF Hits
        <5> QED BY ONLY <5>2, Zenon DEF j
      <4>3. (l + i) - 1 = l + i - 1 BY <1>1
      <4> QED BY <1>2, <4>1, <4>2, <4>3
    <3> QED BY <3>3
  <2>4. \A i \in U : i \in 1 .. l \/ \E j \in 1 .. Len(t) : i = l + j
    <3> SUFFICES ASSUME NEW i \in U, i \notin 1 .. l PROVE \E j \in 1 .. Len(t) : i = l + j OBVIOUS
    <3>1. i \in 1 .. Len(st) BY <2>1
    <3> HIDE DEF st, l
    <3>2. i - l \in 1 .. Len(t) /\ i = l + (i - l) BY <1>1, <3>1
    <3> QED BY <3>2
  <2>5. m1[x] = IF S = {} THEN m[x] ELSE s[Latest(S)] BY <1>4 DEF Copied
  <2> HIDE DEF S, T, U, st, b, m1
  <2>6. CASE T # {}
    <3> DEFINE g == Latest(T)
    <3>1. g \in T /\ \A j \in T : j <= g BY <1>1, <2>1, <2>6, LatestIs
    <3>2. l + g \in U /\ g \in 1 .. Len(t) BY <2>1, <2>3, <3>1
    <3> HIDE DEF g
    <3>3. ASSUME NEW i \in U PROVE i <= l + g
      <4> HIDE DEF l
      <4>1. CASE i \in 1 .. l BY <1>1, <3>2, <4>1
      <4>2. ASSUME NEW j \in 1 .. Len(t), i = l + j PROVE i <= l + g
        <5>1. j \in T BY <2>3, <4>2
        <5> QED BY <1>1, <3>1, <3>2, <4>2, <5>1
      <4> QED BY <2>4, <4>1, <4>2
    <3>4. Latest(U) = l + g
      <4> DEFINE n == Len(st)
                 h == l + g
      <4>1. n \in Nat /\ U \subseteq 1 .. n /\ h \in U /\ \A i \in U : i <= h
        BY <1>1, <2>1, <3>2, <3>3
      <4> HIDE DEF n, h
      <4>2. Latest(U) = h BY <4>1, LatestUnique
      <4> QED BY <4>2 DEF h
    <3>5. st[l + g] = t[g] BY <1>1, <3>2
    <3>6. T # {} /\ U # {} BY <2>6, <3>2
    <3> QED BY <3>4, <3>5, <3>6, Zenon DEF g, T, U
  <2>7. CASE T = {}
    <3>1. U = S
      <4>1. \A i \in U : i \in S
        <5>1. ASSUME NEW j \in 1 .. Len(t), l + j \in U PROVE FALSE BY <2>3, <2>7, <5>1
        <5> QED BY <2>2, <2>4, <5>1
      <4>2. \A i \in S : i \in U BY <2>1, <2>2
      <4> QED BY <4>1, <4>2
    <3>2. ASSUME S # {} PROVE st[Latest(S)] = s[Latest(S)]
      <4>1. Latest(S) \in S BY <1>1, <2>1, <3>2, LatestIs
      <4> QED BY <1>1, <2>1, <4>1
    <3> QED BY <2>5, <2>7, <3>1, <3>2, Zenon DEF T, U
  <2> QED BY <2>6, <2>7 DEF S, T, U
<1> HIDE DEF b, st, m1
<1>6. Copied(m1, b, t) = [x \in D |-> IF Hits(b, t, x) = {} THEN m1[x] ELSE t[Latest(Hits(b, t, x))]]
  BY <1>4 DEF Copied
<1>7. Copied(m, a, st) = [x \in D |-> IF Hits(a, st, x) = {} THEN m[x] ELSE st[Latest(Hits(a, st, x))]]
  BY <1>4 DEF Copied
<1>8. Copied(m1, b, t) = Copied(m, a, st)
  <2> HIDE DEF D
  <2> QED BY <1>5, <1>6, <1>7, Zenon
<1> QED BY <1>8 DEF b, st, m1

-----------------------------------------------------------------------------
(* The bytes of a field and its value. *)
LEMMA ByteOfType == ASSUME NEW v \in Nat, NEW w \in Nat \ {0} PROVE ByteOf(v, w) \in 0 .. 255
<1>1. v \div w \in Nat OBVIOUS
<1> QED BY <1>1 DEF ByteOf

LEMMA PairValue ==
  ASSUME NEW v \in Nat, v < 65536
  PROVE  ByteOf(v, 1) + 256 * ByteOf(v, 256) = v
<1>1. v \div 1 = v OBVIOUS
<1>2. v \div 256 \in 0 .. 255 OBVIOUS
<1>3. (v \div 256) % 256 = v \div 256 BY <1>2
<1>4. (v % 256) + 256 * (v \div 256) = v OBVIOUS
<1> QED BY <1>1, <1>3, <1>4 DEF ByteOf

LEMMA FourValue ==
  ASSUME NEW v \in Nat, v \div 16777216 < 256
  PROVE  (ByteOf(v, 1) + 256 * ByteOf(v, 256))
           + 65536 * (ByteOf(v, 65536) + 256 * ByteOf(v, 16777216)) = v
<1> DEFINE w1 == v \div 256
           w2 == v \div 65536
           w3 == v \div 16777216
<1>1. v \div 1 = v OBVIOUS
<1>2. w1 \in Nat /\ w2 \in Nat /\ w3 \in Nat OBVIOUS
<1>3. v = 256 * w1 + (v % 256) /\ v % 256 \in 0 .. 255 OBVIOUS
<1>4. w1 = 256 * w2 + (w1 % 256) /\ w1 % 256 \in 0 .. 255 OBVIOUS
<1>5. w2 = 256 * w3 + (w2 % 256) /\ w2 % 256 \in 0 .. 255 OBVIOUS
<1>6. w3 % 256 = w3 BY <1>2
<1>7. /\ ByteOf(v, 1) = v % 256 /\ ByteOf(v, 256) = w1 % 256
      /\ ByteOf(v, 65536) = w2 % 256 /\ ByteOf(v, 16777216) = w3
  BY <1>1, <1>6 DEF ByteOf
<1> DEFINE b0 == ByteOf(v, 1)
           b1 == ByteOf(v, 256)
           b2 == ByteOf(v, 65536)
           b3 == ByteOf(v, 16777216)
<1>8. /\ b0 \in Int /\ b1 \in Int /\ b2 \in Int /\ b3 \in Int /\ w1 \in Int /\ w2 \in Int
      /\ v = 256 * w1 + b0 /\ w1 = 256 * w2 + b1 /\ w2 = 256 * b3 + b2
  <2> HIDE DEF w1, w2, w3
  <2> QED BY <1>2, <1>3, <1>4, <1>5, <1>7, SMT
<1> HIDE DEF w1, w2, w3, b0, b1, b2, b3
<1>9. (b0 + 256 * b1) + 65536 * (b2 + 256 * b3) = v BY <1>8, SMT
<1> QED BY <1>9, SMT DEF b0, b1, b2, b3

(* Two sequences one behind the other. *)
Joins(u, s, t) ==
  /\ Len(u) = Len(s) + Len(t)
  /\ \A i \in 1 .. Len(s) : u[i] = s[i]
  /\ \A i \in 1 .. Len(t) : u[Len(s) + i] = t[i]
LEMMA Joined ==
  ASSUME NEW S, NEW s \in Seq(S), NEW t \in Seq(S)
  PROVE  s \o t \in Seq(S) /\ Joins(s \o t, s, t)
<1> DEFINE u == s \o t
<1>1. /\ u \in Seq(S) /\ Len(u) = Len(s) + Len(t)
      /\ \A i \in 1 .. Len(s) + Len(t) : u[i] = IF i <= Len(s) THEN s[i] ELSE t[i - Len(s)]
  BY ConcatProperties
<1>2. Len(s) \in Nat /\ Len(t) \in Nat OBVIOUS
<1> HIDE DEF u
<1>3. ASSUME NEW i \in 1 .. Len(s) PROVE u[i] = s[i] BY <1>1, <1>2
<1>4. ASSUME NEW i \in 1 .. Len(t) PROVE u[Len(s) + i] = t[i]
  <2>1. Len(s) + i \in 1 .. Len(s) + Len(t) /\ ~(Len(s) + i <= Len(s)) /\ (Len(s) + i) - Len(s) = i
    BY <1>2
  <2> QED BY <1>1, <2>1
<1>5. Joins(u, s, t) BY <1>1, <1>3, <1>4 DEF Joins
<1> QED BY <1>1, <1>5 DEF u

LEMMA FourAt ==
  ASSUME NEW v, NEW u, v \in Nat, u = FourBytes(v)
  PROVE  /\ u \in Seq(Nat) /\ Len(u) = 4
         /\ u[1] = ByteOf(v, 1) /\ u[2] = ByteOf(v, 256)
         /\ u[3] = ByteOf(v, 65536) /\ u[4] = ByteOf(v, 16777216)
<1>1. /\ ByteOf(v, 1) \in Nat /\ ByteOf(v, 256) \in Nat
      /\ ByteOf(v, 65536) \in Nat /\ ByteOf(v, 16777216) \in Nat
  BY SMT DEF ByteOf
<1> DEFINE b0 == ByteOf(v, 1)
           b1 == ByteOf(v, 256)
           b2 == ByteOf(v, 65536)
           b3 == ByteOf(v, 16777216)
           s == <<b0, b1>>
           t == <<b2, b3>>
<1>2. u = s \o t BY DEF FourBytes, TwoBytes
<1>3. b0 \in Nat /\ b1 \in Nat /\ b2 \in Nat /\ b3 \in Nat BY <1>1
<1> HIDE DEF b0, b1, b2, b3
<1>4. /\ s \in Seq(Nat) /\ Len(s) = 2 /\ s[1] = b0 /\ s[2] = b1
      /\ t \in Seq(Nat) /\ Len(t) = 2 /\ t[1] = b2 /\ t[2] = b3
  BY <1>3
<1> HIDE DEF s, t
<1>5. u \in Seq(Nat) /\ Joins(u, s, t) BY <1>2, <1>4, Joined
<1>6. /\ u \in Seq(Nat) /\ Len(u) = 4
      /\ u[1] = b0 /\ u[2] = b1 /\ u[3] = b2 /\ u[4] = b3
  BY <1>4, <1>5 DEF Joins
<1> QED BY <1>6, SMT DEF b0, b1, b2, b3

(* A command as the host sends it. *)
LEMMA FlatIs ==
  ASSUME NEW k \in Commands
  PROVE  /\ Len(Flat(k)) = 11 + Len(k.payload)
         /\ Flat(k)[1] = k.cmd
         /\ Flat(k)[2] = ByteOf(k.arg0, 1) /\ Flat(k)[3] = ByteOf(k.arg0, 256)
         /\ Flat(k)[4] = ByteOf(k.arg0, 65536) /\ Flat(k)[5] = ByteOf(k.arg0, 16777216)
         /\ Flat(k)[6] = ByteOf(k.arg1, 1) /\ Flat(k)[7] = ByteOf(k.arg1, 256)
         /\ Flat(k)[8] = ByteOf(k.arg1, 65536) /\ Flat(k)[9] = ByteOf(k.arg1, 16777216)
         /\ Flat(k)[10] = ByteOf(Len(k.payload), 1) /\ Flat(k)[11] = ByteOf(Len(k.payload), 256)
         /\ \A i \in 1 .. Len(k.payload) : Flat(k)[11 + i] = k.payload[i]
<1> DEFINE p == k.payload
           n == Len(p)
           s1 == <<k.cmd>>
           t2 == FourBytes(k.arg0)
           t3 == FourBytes(k.arg1)
           t4 == TwoBytes(n)
           s2 == s1 \o t2
           s3 == s2 \o t3
           s4 == s3 \o t4
           s5 == s4 \o p
<1>1. Bytes \subseteq Nat
  <2>1. 0 .. 255 \subseteq Nat OBVIOUS
  <2> QED BY <2>1, LoopAssumption
<1>2. /\ k.cmd \in Nat /\ k.arg0 \in Nat /\ k.arg1 \in Nat /\ p \in Seq(Nat) /\ n \in Nat
  <2>1. k.cmd \in Bytes /\ k.arg0 \in Nat /\ k.arg1 \in Nat /\ p \in Seq(Bytes)
    BY DEF Commands
  <2> HIDE DEF p
  <2>2. p \in Seq(Nat) BY <1>1, <2>1, SeqMonotonic
  <2>3. n \in Nat BY <2>2
  <2> QED BY <1>1, <2>1, <2>2, <2>3
<1>3. s1 \in Seq(Nat) /\ Len(s1) = 1 /\ s1[1] = k.cmd BY <1>2
<1>4. /\ k.arg0 \in Nat /\ t2 = FourBytes(k.arg0) /\ k.arg1 \in Nat /\ t3 = FourBytes(k.arg1)
  BY <1>2
<1>5. t4 \in Seq(Nat) /\ Len(t4) = 2 /\ t4[1] = ByteOf(n, 1) /\ t4[2] = ByteOf(n, 256)
  <2>1. n \in Nat BY <1>2
  <2> HIDE DEF n
  <2>2. ByteOf(n, 1) \in Nat /\ ByteOf(n, 256) \in Nat BY <2>1, SMT DEF ByteOf
  <2> QED BY <2>2 DEF TwoBytes
<1>6. Flat(k) = s5 BY DEF Flat
<1>7. /\ t2 \in Seq(Nat) /\ Len(t2) = 4
      /\ t2[1] = ByteOf(k.arg0, 1) /\ t2[2] = ByteOf(k.arg0, 256)
      /\ t2[3] = ByteOf(k.arg0, 65536) /\ t2[4] = ByteOf(k.arg0, 16777216)
  <2> HIDE DEF t2
  <2> QED BY <1>4, FourAt, SMT
<1>8. /\ t3 \in Seq(Nat) /\ Len(t3) = 4
      /\ t3[1] = ByteOf(k.arg1, 1) /\ t3[2] = ByteOf(k.arg1, 256)
      /\ t3[3] = ByteOf(k.arg1, 65536) /\ t3[4] = ByteOf(k.arg1, 16777216)
  <2> HIDE DEF t3
  <2> QED BY <1>4, FourAt, SMT
<1> HIDE DEF s1, t2, t3, t4, p, n
<1>9. /\ s2 \in Seq(Nat) /\ Len(s2) = 5 /\ s2[1] = s1[1]
      /\ s2[2] = t2[1] /\ s2[3] = t2[2] /\ s2[4] = t2[3] /\ s2[5] = t2[4]
  <2> USE <1>3, <1>7
  <2>1. s2 = s1 \o t2 OBVIOUS
  <2> HIDE DEF s2
  <2>2. s2 \in Seq(Nat) /\ Joins(s2, s1, t2) BY <2>1, Joined
  <2> QED BY <2>2 DEF Joins
<1> HIDE DEF s2
<1>10. /\ s3 \in Seq(Nat) /\ Len(s3) = 9
       /\ s3[1] = s2[1] /\ s3[2] = s2[2] /\ s3[3] = s2[3] /\ s3[4] = s2[4] /\ s3[5] = s2[5]
       /\ s3[6] = t3[1] /\ s3[7] = t3[2] /\ s3[8] = t3[3] /\ s3[9] = t3[4]
  <2>1. s3 = s2 \o t3 OBVIOUS
  <2> HIDE DEF s3
  <2>2. s3 \in Seq(Nat) /\ Joins(s3, s2, t3) BY <1>8, <1>9, <2>1, Joined
  <2> QED BY <1>8, <1>9, <2>2 DEF Joins
<1> HIDE DEF s3
<1>11. /\ s4 \in Seq(Nat) /\ Len(s4) = 11
       /\ \A i \in 1 .. 9 : s4[i] = s3[i]
       /\ s4[10] = t4[1] /\ s4[11] = t4[2]
  <2>1. s4 = s3 \o t4 OBVIOUS
  <2> HIDE DEF s4
  <2>2. s4 \in Seq(Nat) /\ Joins(s4, s3, t4) BY <1>5, <1>10, <2>1, Joined
  <2> QED BY <1>5, <1>10, <2>2 DEF Joins
<1> HIDE DEF s4
<1>12. /\ Len(s5) = 11 + Len(p)
       /\ \A i \in 1 .. 11 : s5[i] = s4[i]
       /\ \A i \in 1 .. Len(p) : s5[11 + i] = p[i]
  <2>1. s5 = s4 \o p OBVIOUS
  <2> HIDE DEF s5
  <2>2. s5 \in Seq(Nat) /\ Joins(s5, s4, p) BY <1>2, <1>11, <2>1, Joined
  <2> QED BY <1>2, <1>11, <2>2 DEF Joins
<1> HIDE DEF s5
<1>13. /\ s5[1] = s3[1] /\ s5[2] = s3[2] /\ s5[3] = s3[3] /\ s5[4] = s3[4] /\ s5[5] = s3[5]
       /\ s5[6] = s3[6] /\ s5[7] = s3[7] /\ s5[8] = s3[8] /\ s5[9] = s3[9]
       /\ s5[10] = t4[1] /\ s5[11] = t4[2]
  BY <1>11, <1>12, SMT
<1>14. /\ Flat(k)[1] = k.cmd
       /\ Flat(k)[2] = t2[1] /\ Flat(k)[3] = t2[2] /\ Flat(k)[4] = t2[3] /\ Flat(k)[5] = t2[4]
       /\ Flat(k)[6] = t3[1] /\ Flat(k)[7] = t3[2] /\ Flat(k)[8] = t3[3] /\ Flat(k)[9] = t3[4]
       /\ Flat(k)[10] = t4[1] /\ Flat(k)[11] = t4[2]
  BY <1>3, <1>6, <1>9, <1>10, <1>13, SMT
<1>15. Len(Flat(k)) = 11 + Len(p) /\ \A i \in 1 .. Len(p) : Flat(k)[11 + i] = p[i]
  BY <1>6, <1>12, SMT
<1>16. /\ Flat(k)[2] = ByteOf(k.arg0, 1) /\ Flat(k)[3] = ByteOf(k.arg0, 256)
       /\ Flat(k)[4] = ByteOf(k.arg0, 65536) /\ Flat(k)[5] = ByteOf(k.arg0, 16777216)
  BY <1>7, <1>14, SMT
<1>17. /\ Flat(k)[6] = ByteOf(k.arg1, 1) /\ Flat(k)[7] = ByteOf(k.arg1, 256)
       /\ Flat(k)[8] = ByteOf(k.arg1, 65536) /\ Flat(k)[9] = ByteOf(k.arg1, 16777216)
  BY <1>8, <1>14, SMT
<1> QED BY <1>5, <1>14, <1>15, <1>16, <1>17, SMT DEF p, n

(* What update_cmd makes of the ten bytes behind the code. *)
LEMMA HeaderDecodes ==
  ASSUME NEW k \in Commands, Proper(k), NEW h \in Seq(Bytes), Len(h) = HeaderSize,
         \A i \in 1 .. 10 : h[i] = Flat(k)[1 + i]
  PROVE  U32(h, 1) = k.arg0 /\ U32(h, 5) = k.arg1 /\ U16(h, 9) = Len(k.payload)
<1>1. /\ k.arg0 \in Nat /\ k.arg1 \in Nat /\ Len(k.payload) \in Nat
      /\ k.arg0 \div 16777216 < 256 /\ k.arg1 \div 16777216 < 256 /\ Len(k.payload) < 65536
  BY DEF Commands, Proper
<1>2. /\ h[1] = Flat(k)[2] /\ h[2] = Flat(k)[3] /\ h[3] = Flat(k)[4] /\ h[4] = Flat(k)[5]
      /\ h[5] = Flat(k)[6] /\ h[6] = Flat(k)[7] /\ h[7] = Flat(k)[8] /\ h[8] = Flat(k)[9]
      /\ h[9] = Flat(k)[10] /\ h[10] = Flat(k)[11]
  <2>1. ASSUME NEW i \in 1 .. 10 PROVE h[i] = Flat(k)[1 + i] OBVIOUS
  <2> QED BY <2>1
<1>3. /\ U32(h, 1) = (h[1] + 256 * h[2]) + 65536 * (h[3] + 256 * h[4])
      /\ U32(h, 5) = (h[5] + 256 * h[6]) + 65536 * (h[7] + 256 * h[8])
      /\ U16(h, 9) = h[9] + 256 * h[10]
  BY DEF U32, U16
<1>4. U32(h, 1) = k.arg0
  <2>1. h[1] = ByteOf(k.arg0, 1) /\ h[2] = ByteOf(k.arg0, 256)
        /\ h[3] = ByteOf(k.arg0, 65536) /\ h[4] = ByteOf(k.arg0, 16777216)
    BY <1>2, FlatIs
  <2> QED BY <1>1, <1>3, <2>1, FourValue, SMTT(20)
<1>5. U32(h, 5) = k.arg1
  <2>1. h[5] = ByteOf(k.arg1, 1) /\ h[6] = ByteOf(k.arg1, 256)
        /\ h[7] = ByteOf(k.arg1, 65536) /\ h[8] = ByteOf(k.arg1, 16777216)
    BY <1>2, FlatIs
  <2> QED BY <1>1, <1>3, <2>1, FourValue
<1>6. U16(h, 9) = Len(k.payload)
  <2>1. h[9] = ByteOf(Len(k.payload), 1) /\ h[10] = ByteOf(Len(k.payload), 256)
    BY <1>2, FlatIs
  <2> QED BY <1>1, <1>3, <2>1, PairValue, SMTT(20)
<1> QED BY <1>4, <1>5, <1>6

-----------------------------------------------------------------------------
(* One sequence begins another. *)
Begins(s, t) == Len(s) <= Len(t) /\ \A i \in 1 .. Len(s) : t[i] = s[i]

LEMMA BeginsJoined ==
  ASSUME NEW S, NEW r \in Seq(S), NEW s \in Seq(S), NEW t \in Seq(S), Begins(r, s)
  PROVE  Begins(r, s \o t)
<1> DEFINE u == s \o t
<1>1. u \in Seq(S) /\ Joins(u, s, t) BY Joined
<1>2. Len(r) \in Nat /\ Len(s) \in Nat /\ Len(t) \in Nat OBVIOUS
<1> HIDE DEF u
<1>3. Len(r) <= Len(u) BY <1>1, <1>2 DEF Joins, Begins
<1>4. ASSUME NEW i \in 1 .. Len(r) PROVE u[i] = r[i]
  <2>1. i \in 1 .. Len(s) BY <1>2 DEF Begins
  <2> QED BY <1>1, <2>1 DEF Joins, Begins
<1>5. Begins(r, u) BY <1>3, <1>4 DEF Begins
<1> QED BY <1>5 DEF u

(* Sequences that grow at their ends begin the last of them. *)
LEMMA Growing ==
  ASSUME NEW S, NEW N \in Nat, NEW f \in [0 .. N -> Seq(S)], NEW g \in [1 .. N -> Seq(S)],
         \A i \in 1 .. N : f[i] = f[i - 1] \o g[i], NEW n \in 0 .. N
  PROVE  Begins(f[n], f[N])
<1> DEFINE T == {k \in Nat : n + k <= N => Begins(f[n], f[n + k])}
<1>1. f[n] \in Seq(S) /\ Len(f[n]) \in Nat OBVIOUS
<1>2. 0 \in T
  <2>1. Begins(f[n], f[n]) BY <1>1 DEF Begins
  <2>2. n + 0 = n OBVIOUS
  <2> QED BY <2>1, <2>2
<1>3. ASSUME NEW k \in T PROVE k + 1 \in T
  <2> SUFFICES ASSUME n + (k + 1) <= N PROVE Begins(f[n], f[n + (k + 1)]) OBVIOUS
  <2> DEFINE i == n + (k + 1)
  <2>1. i \in 1 .. N /\ i - 1 = n + k /\ n + k \in 0 .. N BY <1>3
  <2>2. Begins(f[n], f[n + k]) BY <1>3, <2>1
  <2>3. f[i] = f[i - 1] \o g[i] BY <2>1
  <2>4. f[n + k] \in Seq(S) /\ g[i] \in Seq(S) BY <2>1
  <2> HIDE DEF i
  <2>5. Begins(f[n], f[n + k] \o g[i]) BY <1>1, <2>2, <2>4, BeginsJoined
  <2>6. f[i] = f[n + k] \o g[i] BY <2>1, <2>3
  <2> QED BY <2>5, <2>6 DEF i
<1>4. T \subseteq Nat OBVIOUS
<1>5. T = Nat
  <2> HIDE DEF T
  <2> QED BY <1>2, <1>3, <1>4, Inductive
<1>6. N - n \in Nat /\ n + (N - n) = N /\ N <= N OBVIOUS
<1> QED BY <1>5, <1>6

(* Where a command stands in the stream of its script. *)
Sends(s, n, b, k) ==
  /\ k \in Commands /\ Proper(k) /\ b \in Nat
  /\ Len(StreamUpTo(s, n + 1)) = b + Len(Flat(k))
  /\ b + Len(Flat(k)) <= Len(Stream(s))
  /\ \A i \in 1 .. Len(Flat(k)) : Stream(s)[b + i] = Flat(k)[i]
LEMMA StreamPiece ==
  ASSUME NEW s \in Scripts, NEW n \in 0 .. Len(s) - 1
  PROVE  Sends(s, n, Len(StreamUpTo(s, n)), s[n + 1])
<1> SUFFICES ASSUME NEW b, b = Len(StreamUpTo(s, n)), NEW k, k = s[n + 1]
             PROVE  Sends(s, n, b, k)
  OBVIOUS
<1>1. s \in Seq(Commands) /\ \A i \in DOMAIN s : Proper(s[i]) BY DEF Scripts
<1>2. Len(s) \in Nat /\ n + 1 \in 1 .. Len(s) /\ n \in 0 .. Len(s) /\ n + 1 \in 0 .. Len(s)
      /\ (n + 1) - 1 = n
  BY <1>1
<1>3. k \in Commands /\ Proper(k) BY <1>1, <1>2
<1>4. Flat(k) \in Seq(Bytes) BY <1>3 DEF Proper
<1> DEFINE N == Len(s)
           f == [i \in 0 .. N |-> StreamUpTo(s, i)]
           g == [i \in 1 .. N |-> Flat(s[i])]
<1>5. f \in [0 .. N -> Seq(Bytes)] BY StreamIs
<1>6. g \in [1 .. N -> Seq(Bytes)]
  <2>1. \A i \in 1 .. N : Flat(s[i]) \in Seq(Bytes) BY <1>1 DEF Proper
  <2> QED BY <2>1
<1>7. \A i \in 1 .. N : f[i] = f[i - 1] \o g[i]
  <2>1. ASSUME NEW i \in 1 .. N PROVE f[i] = f[i - 1] \o g[i]
    <3>1. i \in 0 .. N /\ i - 1 \in 0 .. N BY <1>2
    <3>2. StreamUpTo(s, i) = StreamUpTo(s, i - 1) \o Flat(s[i]) BY StreamIs
    <3> QED BY <3>1, <3>2
  <2> QED BY <2>1
<1>8. /\ f[n] = StreamUpTo(s, n) /\ f[n + 1] = StreamUpTo(s, n + 1) /\ f[N] = Stream(s)
      /\ g[n + 1] = Flat(k)
  BY <1>2 DEF Stream
<1>9. N \in Nat /\ n + 1 \in 0 .. N BY <1>2
<1> HIDE DEF f, g, N
<1>10. Begins(f[n + 1], f[N]) BY <1>5, <1>6, <1>7, <1>9, Growing
<1> DEFINE u == StreamUpTo(s, n)
           v == Flat(k)
           w == StreamUpTo(s, n + 1)
<1>11. u \in Seq(Bytes) /\ w \in Seq(Bytes) BY <1>2, StreamIs
<1>12. w = u \o v BY <1>2, StreamIs
<1>13. v \in Seq(Bytes) BY <1>4
<1>14. b = Len(u) OBVIOUS
<1> HIDE DEF u, v, w
<1>15. Joins(w, u, v) BY <1>11, <1>12, <1>13, Joined
<1>16. b \in Nat /\ Len(v) \in Nat /\ Len(w) = b + Len(v) /\ \A i \in 1 .. Len(v) : w[b + i] = v[i]
  BY <1>11, <1>13, <1>14, <1>15 DEF Joins
<1>17. Begins(w, Stream(s)) BY <1>8, <1>10 DEF w
<1>18. ASSUME NEW i \in 1 .. Len(v) PROVE Stream(s)[b + i] = v[i]
  <2>1. b + i \in 1 .. Len(w) BY <1>16
  <2> QED BY <1>16, <1>17, <2>1 DEF Begins
<1>19. b + Len(v) <= Len(Stream(s)) BY <1>16, <1>17 DEF Begins
<1> QED BY <1>3, <1>16, <1>18, <1>19 DEF v, w, Sends

-----------------------------------------------------------------------------
(* What a command does and says. *)
LEMMA EffectsType ==
  ASSUME NEW m \in Memory, NEW k \in Commands
  PROVE  Effects(m, k) \in Memory
<1>1. k.payload \in Seq(Bytes) /\ k.arg1 \in Nat BY DEF Commands
<1>2. Repeated(k.payload, k.arg1) \in Seq(Bytes) BY <1>1, RepeatedType
<1>3. Copied(m, k.arg0, k.payload) \in Memory BY <1>1, CopiedType
<1>4. Copied(m, k.arg0, Repeated(k.payload, k.arg1)) \in Memory BY <1>2, CopiedType
<1> QED BY <1>3, <1>4 DEF Effects

LEMMA ReplyType ==
  ASSUME NEW m \in Memory, NEW k \in Commands
  PROVE  /\ Reply(m, k) \in Seq(Bytes)
         /\ k.cmd = Codes.READ_BYTES => Len(Reply(m, k)) = k.arg1 + 1
         /\ k.cmd = Codes.READ_WORDS => Len(Reply(m, k)) = 2 * k.arg1 + 1
         /\ k.cmd \notin {Codes.READ_BYTES, Codes.READ_WORDS} => Len(Reply(m, k)) = 1
         /\ Reply(m, k)[Len(Reply(m, k))] = k.cmd
<1>1. k.arg0 \in Nat /\ k.arg1 \in Nat /\ k.cmd \in Bytes /\ 2 * k.arg1 \in Nat BY DEF Commands
<1> DEFINE e == <<k.cmd>>
<1>2. e \in Seq(Bytes) /\ Len(e) = 1 /\ e[1] = k.cmd BY <1>1
<1> HIDE DEF e
<1>3. ASSUME NEW n \in Nat
      PROVE  /\ MemAt(m, k.arg0, n) \o e \in Seq(Bytes)
             /\ Len(MemAt(m, k.arg0, n) \o e) = n + 1
             /\ (MemAt(m, k.arg0, n) \o e)[n + 1] = k.cmd
  <2> DEFINE q == MemAt(m, k.arg0, n)
             r == q \o e
  <2>1. q \in Seq(Bytes) /\ Len(q) = n BY <1>1, MemAtType
  <2> HIDE DEF q
  <2>2. r \in Seq(Bytes) /\ Joins(r, q, e) BY <1>2, <2>1, Joined
  <2> HIDE DEF r
  <2>3. Len(r) = n + 1 /\ r[n + 1] = k.cmd BY <1>2, <2>1, <2>2 DEF Joins
  <2> QED BY <2>2, <2>3 DEF q, r
<1>4. CASE k.cmd = Codes.READ_BYTES
  <2>2. Codes.READ_BYTES # Codes.READ_WORDS BY CodesAre
  <2>1. Reply(m, k) = MemAt(m, k.arg0, k.arg1) \o e BY <1>4, <2>2 DEF Reply, e
  <2> QED BY <1>1, <1>3, <1>4, <2>1, <2>2
<1>5. CASE k.cmd = Codes.READ_WORDS
  <2>1. Codes.READ_BYTES # Codes.READ_WORDS BY CodesAre
  <2>2. Reply(m, k) = MemAt(m, k.arg0, 2 * k.arg1) \o e BY <1>5, <2>1 DEF Reply, e
  <2> QED BY <1>1, <1>3, <1>5, <2>1, <2>2
<1>6. CASE k.cmd \notin {Codes.READ_BYTES, Codes.READ_WORDS}
  <2>1. Reply(m, k) = e BY <1>6 DEF Reply, e
  <2> QED BY <1>2, <1>6, <2>1
<1> QED BY <1>4, <1>5, <1>6

(* What the commands of a script come to, one after the other. *)
Outcomes == [mem : Memory, said : Seq(Bytes)]
Then(o, k) == [mem |-> Effects(o.mem, k), said |-> o.said \o Reply(o.mem, k)]
Start(m) == [mem |-> m, said |-> <<>>]

LEMMA ThenIs ==
  ASSUME NEW o, NEW k
  PROVE  /\ Then(o, k).mem = Effects(o.mem, k)
         /\ Then(o, k).said = o.said \o Reply(o.mem, k)
BY Zenon DEF Then

LEMMA ThenType == ASSUME NEW o \in Outcomes, NEW k \in Commands PROVE Then(o, k) \in Outcomes
<1>1. o.mem \in Memory /\ o.said \in Seq(Bytes) BY DEF Outcomes
<1> DEFINE m == Effects(o.mem, k)
           r == Reply(o.mem, k)
           t == o.said \o r
<1>2. m \in Memory BY <1>1, EffectsType
<1>3. r \in Seq(Bytes) BY <1>1, ReplyType
<1>4. t \in Seq(Bytes)
  <2> HIDE DEF r
  <2> QED BY <1>1, <1>3, ConcatProperties
<1>5. Then(o, k) = [mem |-> m, said |-> t] BY DEF Then
<1> HIDE DEF m, t
<1> QED BY <1>2, <1>4, <1>5 DEF Outcomes

LEMMA OutcomeIs ==
  ASSUME NEW s \in Scripts, NEW m \in Memory
  PROVE  /\ Outcome(m, s, 0) = Start(m)
         /\ \A n \in 0 .. Len(s) : Outcome(m, s, n) \in Outcomes
         /\ \A n \in 1 .. Len(s) : Outcome(m, s, n) = Then(Outcome(m, s, n - 1), s[n])
<1> DEFINE N == Len(s)
           of(f) == f = [i \in 0 .. N |->
                           IF i = 0 THEN Start(m) ELSE Then(f[i - 1], s[i])]
           grow == [p \in (1 .. N) \X Outcomes |-> Then(p[2], s[p[1]])]
           f == CHOOSE g : of(g)
<1>1. N \in Nat /\ \A n \in 1 .. N : s[n] \in Commands
  <2>1. s \in Seq(Commands) BY DEF Scripts
  <2> QED BY <2>1
<1>2. grow \in [(1 .. N) \X Outcomes -> Outcomes]
  <2>1. ASSUME NEW p \in (1 .. N) \X Outcomes PROVE Then(p[2], s[p[1]]) \in Outcomes
    <3>1. p[2] \in Outcomes /\ s[p[1]] \in Commands BY <1>1
    <3> QED BY <3>1, ThenType
  <2> QED BY <2>1
<1>3. Start(m) \in Outcomes
  <2>1. <<>> \in Seq(Bytes) OBVIOUS
  <2> QED BY <2>1 DEF Start, Outcomes
<1>4. PICK g \in [0 .. N -> Outcomes] :
        g[0] = Start(m) /\ \A i \in 1 .. N : g[i] = grow[<<i, g[i - 1]>>]
  <2> DEFINE S == Outcomes
             base == Start(m)
  <2>1. base \in S /\ N \in Nat BY <1>1, <1>3
  <2>2. grow \in [(1 .. N) \X S -> S] BY <1>2
  <2> HIDE DEF grow, N, S, base
  <2>3. \E g \in [0 .. N -> S] : RecursionUpTo(g, N, base, grow)
    BY ONLY <2>1, <2>2, FiniteRecursion
  <2> QED BY <2>3 DEF S, base, RecursionUpTo
<1>5. of(g)
  <2>1. ASSUME NEW i \in 0 .. N PROVE g[i] = IF i = 0 THEN Start(m) ELSE Then(g[i - 1], s[i])
    <3>1. CASE i = 0 BY <1>4, <3>1
    <3>2. CASE i # 0
      <4>1. i \in 1 .. N /\ i - 1 \in 0 .. N
        <5> HIDE DEF N
        <5> QED BY <1>1, <3>2
      <4>2. g[i - 1] \in Outcomes BY <1>4, <4>1
      <4>3. <<i, g[i - 1]>> \in (1 .. N) \X Outcomes BY <4>1, <4>2
      <4>4. g[i] = grow[<<i, g[i - 1]>>] BY <1>4, <4>1
      <4> QED BY <3>2, <4>3, <4>4
    <3> QED BY <3>1, <3>2
  <2>2. g = [i \in 0 .. N |-> g[i]] BY <1>4
  <2> HIDE DEF grow, N
  <2> QED BY <2>1, <2>2, Zenon
<1>6. of(f) BY <1>5
<1>7. \A n : Outcome(m, s, n) = f[n] BY DEF Outcome, Then, Start
<1> HIDE DEF grow, N, f
<1>8. \A i \in 0 .. N : f[i] = IF i = 0 THEN Start(m) ELSE Then(f[i - 1], s[i]) BY <1>6
<1>9. 0 \in 0 .. N /\ f[0] = Start(m) BY <1>1, <1>8
<1> DEFINE T == {n \in Nat : n <= N => f[n] \in Outcomes}
<1>10. T = Nat
  <2>1. 0 \in T
    <3>1. 0 \in Nat OBVIOUS
    <3> QED BY <1>3, <1>9, <3>1, Zenon
  <2>2. ASSUME NEW n \in T PROVE n + 1 \in T
    <3> SUFFICES ASSUME n + 1 <= N PROVE f[n + 1] \in Outcomes OBVIOUS
    <3>1. n \in Nat /\ (n <= N => f[n] \in Outcomes) BY <2>2
    <3>2. n + 1 \in 1 .. N /\ n + 1 \in 0 .. N /\ n + 1 # 0 /\ (n + 1) - 1 = n /\ n <= N
      BY <1>1, <3>1
    <3>3. f[n + 1] = Then(f[n], s[n + 1]) BY <1>8, <3>2
    <3> QED BY <1>1, <3>1, <3>2, <3>3, ThenType
  <2>3. T \subseteq Nat OBVIOUS
  <2> HIDE DEF T
  <2> QED BY <2>1, <2>2, <2>3, Inductive
<1>11. ASSUME NEW n \in 0 .. N PROVE f[n] \in Outcomes
  <2>1. n \in Nat /\ n <= N BY <1>1
  <2>2. n \in T BY <1>10, <2>1
  <2> QED BY <2>1, <2>2
<1>12. ASSUME NEW n \in 1 .. N PROVE f[n] = Then(f[n - 1], s[n])
  <2>1. n \in 0 .. N /\ n # 0 BY <1>1
  <2> QED BY <1>8, <2>1
<1> QED BY <1>7, <1>9, <1>11, <1>12 DEF N

(* What is said after some commands begins what is said in the end. *)
LEMMA SaidGrows ==
  ASSUME NEW s \in Scripts, NEW m \in Memory, NEW n \in 0 .. Len(s)
  PROVE  Begins(Outcome(m, s, n).said, Outcome(m, s, Len(s)).said)
<1> DEFINE N == Len(s)
           f == [i \in 0 .. N |-> Outcome(m, s, i).said]
           g == [i \in 1 .. N |-> Reply(Outcome(m, s, i - 1).mem, s[i])]
<1>1. N \in Nat /\ \A i \in 1 .. N : s[i] \in Commands
  <2>1. s \in Seq(Commands) BY DEF Scripts
  <2> QED BY <2>1
<1>2. \A i \in 0 .. N : Outcome(m, s, i).mem \in Memory /\ Outcome(m, s, i).said \in Seq(Bytes)
  BY OutcomeIs DEF Outcomes
<1>3. \A i \in 1 .. N : i \in 0 .. N /\ i - 1 \in 0 .. N BY <1>1
<1>4. f \in [0 .. N -> Seq(Bytes)] BY <1>2
<1>5. g \in [1 .. N -> Seq(Bytes)]
  <2>1. \A i \in 1 .. N : Reply(Outcome(m, s, i - 1).mem, s[i]) \in Seq(Bytes)
    BY <1>1, <1>2, <1>3, ReplyType
  <2> QED BY <2>1
<1>6. ASSUME NEW i \in 1 .. N PROVE f[i] = f[i - 1] \o g[i]
  <2>1. Outcome(m, s, i) = Then(Outcome(m, s, i - 1), s[i]) BY OutcomeIs
  <2>2. Outcome(m, s, i).said
          = Outcome(m, s, i - 1).said \o Reply(Outcome(m, s, i - 1).mem, s[i])
    BY <2>1, ThenIs, Zenon
  <2> QED BY <1>3, <2>2
<1>7. f[n] = Outcome(m, s, n).said /\ f[N] = Outcome(m, s, N).said
  <2>1. n \in 0 .. N /\ N \in 0 .. N BY <1>1
  <2> QED BY <2>1
<1>8. n \in 0 .. N OBVIOUS
<1> HIDE DEF f, g, N
<1>9. Begins(f[n], f[N]) BY <1>1, <1>4, <1>5, <1>6, <1>8, Growing
<1> QED BY <1>7, <1>9 DEF N

-----------------------------------------------------------------------------
(* Where the reply to a command stands in what is said. *)
Says(o, k, r, next, z) ==
  /\ o \in Outcomes /\ k \in Commands /\ r \in Seq(Bytes) /\ z \in Seq(Bytes)
  /\ next = Then(o, k) /\ Len(next.said) = Len(o.said) + Len(r)
  /\ Len(o.said) + Len(r) <= Len(z)
  /\ \A j \in 1 .. Len(r) : z[Len(o.said) + j] = r[j]
LEMMA SaidPiece ==
  ASSUME NEW s \in Scripts, NEW m \in Memory, NEW n \in 0 .. Len(s) - 1
  PROVE  Says(Outcome(m, s, n), s[n + 1], Reply(Outcome(m, s, n).mem, s[n + 1]),
              Outcome(m, s, n + 1), Outcome(m, s, Len(s)).said)
<1> SUFFICES ASSUME NEW k, k = s[n + 1], NEW o, o = Outcome(m, s, n), NEW r, r = Reply(o.mem, k),
                    NEW z, z = Outcome(m, s, Len(s)).said
             PROVE  Says(o, k, r, Outcome(m, s, n + 1), z)
  BY Zenon
<1>1. /\ Len(s) \in Nat /\ n + 1 \in 1 .. Len(s) /\ n \in 0 .. Len(s) /\ n + 1 \in 0 .. Len(s)
      /\ (n + 1) - 1 = n /\ Len(s) \in 0 .. Len(s) /\ k \in Commands
  <2>1. s \in Seq(Commands) BY DEF Scripts
  <2> QED BY <2>1
<1>2. o \in Outcomes BY <1>1, OutcomeIs
<1>3. z \in Seq(Bytes) BY <1>1, OutcomeIs DEF Outcomes
<1>4. o.mem \in Memory /\ o.said \in Seq(Bytes) BY <1>2 DEF Outcomes
<1>5. r \in Seq(Bytes) BY <1>1, <1>4, ReplyType
<1>6. Outcome(m, s, n + 1) = Then(o, k) BY <1>1, OutcomeIs
<1> DEFINE u == o.said
           w == Outcome(m, s, n + 1).said
<1>7. w = u \o r BY <1>6, ThenIs, ZenonT(30)
<1>8. Begins(w, z) BY <1>1, SaidGrows
<1>9. u \in Seq(Bytes) BY <1>4
<1> HIDE DEF u, w
<1>10. Joins(w, u, r) BY <1>5, <1>7, <1>9, Joined
<1>11. Len(u) \in Nat /\ Len(r) \in Nat /\ Len(w) = Len(u) + Len(r) BY <1>5, <1>9, <1>10 DEF Joins
<1>12. Len(u) + Len(r) <= Len(z) BY <1>8, <1>11 DEF Begins
<1>13. ASSUME NEW j \in 1 .. Len(r) PROVE z[Len(u) + j] = r[j]
  <2>1. Len(u) + j \in 1 .. Len(w) BY <1>11
  <2> QED BY <1>8, <1>10, <2>1 DEF Begins, Joins
<1> QED BY <1>1, <1>2, <1>3, <1>5, <1>6, <1>11, <1>12, <1>13 DEF u, w, Says

Writes == {Codes.WRITE_BYTES, Codes.WRITE_WORDS}
Fills  == {Codes.FILL_BYTES, Codes.FILL_WORDS}
(* What a command has done when some of its payload is consumed. *)
Partial(m, k, done) ==
  CASE k.cmd \in Writes ->
         Copied(m, k.arg0, SubSeq(k.payload, 1, done))
    [] k.cmd \in Fills ->
         IF done = 0 THEN m ELSE Copied(m, k.arg0, Repeated(k.payload, k.arg1))
    [] OTHER -> m

LEMMA PartialKinds ==
  ASSUME NEW m, NEW k, NEW done
  PROVE  /\ k.cmd \in Writes => Partial(m, k, done) = Copied(m, k.arg0, SubSeq(k.payload, 1, done))
         /\ k.cmd \in Fills =>
              Partial(m, k, done)
                = IF done = 0 THEN m ELSE Copied(m, k.arg0, Repeated(k.payload, k.arg1))
         /\ k.cmd \notin Writes \cup Fills => Partial(m, k, done) = m
<1>1. k.cmd \in Fills => k.cmd \notin Writes BY CodesAre DEF Writes, Fills
<1>2. CASE k.cmd \in Writes
  <2>1. Partial(m, k, done) = Copied(m, k.arg0, SubSeq(k.payload, 1, done))
    BY <1>1, <1>2, SMT DEF Partial, Writes, Fills
  <2> QED BY <1>1, <1>2, <2>1, Zenon
<1>3. CASE k.cmd \in Fills
  <2>1. Partial(m, k, done) = IF done = 0 THEN m ELSE Copied(m, k.arg0, Repeated(k.payload, k.arg1))
    BY <1>1, <1>3, SMT DEF Partial, Writes, Fills
  <2> QED BY <1>1, <1>3, <2>1, Zenon
<1>4. CASE k.cmd \notin Writes \cup Fills
  <2>1. Partial(m, k, done) = m BY <1>4, SMT DEF Partial, Writes, Fills
  <2> QED BY <1>4, <2>1, Zenon
<1> QED BY <1>2, <1>3, <1>4, Zenon

LEMMA EffectKinds ==
  ASSUME NEW m, NEW k
  PROVE  /\ k.cmd \in Writes => Effects(m, k) = Copied(m, k.arg0, k.payload)
         /\ k.cmd \in Fills => Effects(m, k) = Copied(m, k.arg0, Repeated(k.payload, k.arg1))
         /\ k.cmd \notin Writes \cup Fills => Effects(m, k) = m
<1>1. k.cmd \in Fills => k.cmd \notin Writes BY CodesAre DEF Writes, Fills
<1>2. CASE k.cmd \in Writes
  <2>1. Effects(m, k) = Copied(m, k.arg0, k.payload)
    BY <1>1, <1>2, SMT DEF Effects, Writes, Fills
  <2> QED BY <1>1, <1>2, <2>1, Zenon
<1>3. CASE k.cmd \in Fills
  <2>1. Effects(m, k) = Copied(m, k.arg0, Repeated(k.payload, k.arg1))
    BY <1>1, <1>3, SMT DEF Effects, Writes, Fills
  <2> QED BY <1>1, <1>3, <2>1, Zenon
<1>4. CASE k.cmd \notin Writes \cup Fills
  <2>1. Effects(m, k) = m BY <1>4, SMT DEF Effects, Writes, Fills
  <2> QED BY <1>4, <2>1, Zenon
<1> QED BY <1>2, <1>3, <1>4, Zenon

LEMMA PartialNone == ASSUME NEW m \in Memory, NEW k \in Commands PROVE Partial(m, k, 0) = m
<1> DEFINE zero == 0
<1>1. SubSeq(k.payload, 1, zero) = <<>> BY SubSeqEmpty
<1>2. zero = 0 OBVIOUS
<1>3. Copied(m, k.arg0, SubSeq(k.payload, 1, zero)) = m BY <1>1, CopiedNone
<1> HIDE DEF zero
<1>4. CASE k.cmd \in Writes
  <2>1. Partial(m, k, zero) = Copied(m, k.arg0, SubSeq(k.payload, 1, zero)) BY <1>4, PartialKinds
  <2> QED BY <1>2, <1>3, <2>1, Zenon
<1>5. CASE k.cmd \in Fills
  <2>1. Partial(m, k, zero)
          = IF zero = 0 THEN m ELSE Copied(m, k.arg0, Repeated(k.payload, k.arg1))
    BY <1>5, PartialKinds
  <2> QED BY <1>2, <2>1, Zenon
<1>6. CASE k.cmd \notin Writes \cup Fills
  <2>1. Partial(m, k, zero) = m BY <1>6, PartialKinds
  <2> QED BY <1>2, <2>1, Zenon
<1> QED BY <1>4, <1>5, <1>6, Zenon

LEMMA PartialAll ==
  ASSUME NEW m \in Memory, NEW k \in Commands, Proper(k), NEW n, n = Len(k.payload)
  PROVE  Partial(m, k, n) = Effects(m, k)
<1>1. k.payload \in Seq(Bytes) BY DEF Commands
<1>2. SubSeq(k.payload, 1, n) = k.payload BY <1>1, SubSeqFull
<1>3. k.cmd \in Fills => n # 0
  <2> SUFFICES ASSUME k.cmd \in Fills PROVE n # 0 OBVIOUS
  <2>1. CASE k.cmd = Codes.FILL_BYTES
    <3>1. n = 1 BY <2>1 DEF Proper
    <3> QED BY <3>1
  <2>2. CASE k.cmd = Codes.FILL_WORDS
    <3>1. n = 2 BY <2>2 DEF Proper
    <3> QED BY <3>1
  <2> QED BY <2>1, <2>2, Zenon DEF Fills
<1>4. CASE k.cmd \in Writes
  <2>1. Partial(m, k, n) = Copied(m, k.arg0, SubSeq(k.payload, 1, n)) BY <1>4, PartialKinds
  <2>2. Effects(m, k) = Copied(m, k.arg0, k.payload) BY <1>4, EffectKinds
  <2> QED BY <1>2, <2>1, <2>2, Zenon
<1>5. CASE k.cmd \in Fills
  <2>1. Partial(m, k, n) = IF n = 0 THEN m ELSE Copied(m, k.arg0, Repeated(k.payload, k.arg1))
    BY <1>5, PartialKinds
  <2>2. Effects(m, k) = Copied(m, k.arg0, Repeated(k.payload, k.arg1)) BY <1>5, EffectKinds
  <2> QED BY <1>3, <1>5, <2>1, <2>2, Zenon
<1>6. CASE k.cmd \notin Writes \cup Fills
  <2>1. Partial(m, k, n) = m BY <1>6, PartialKinds
  <2>2. Effects(m, k) = m BY <1>6, EffectKinds
  <2> QED BY <2>1, <2>2, Zenon
<1> QED BY <1>4, <1>5, <1>6, Zenon

(* The next piece of a payload carries a WRITE command on. *)
LEMMA PartialWrite ==
  ASSUME NEW m \in Memory, NEW k \in Commands, Proper(k),
         k.cmd \in Writes,
         NEW x \in Nat, NEW n \in Nat, x + n <= Len(k.payload),
         NEW t \in Seq(Bytes), Len(t) = n, \A i \in 1 .. n : t[i] = k.payload[x + i]
  PROVE  Copied(Partial(m, k, x), k.arg0 + x, t) = Partial(m, k, x + n)
<1> DEFINE p == k.payload
           a == k.arg0
           s == SubSeq(p, 1, x)
           u == SubSeq(p, 1, x + n)
<1>1. p \in Seq(Bytes) /\ a \in Nat BY DEF Commands
<1>2. Len(p) \in Nat /\ x + n \in Nat BY <1>1
<1>3. (a % OffMod) + Len(p) <= OffMod BY DEF Proper, Writes
<1>4. a % OffMod \in Nat /\ x + n <= Len(p) BY <1>1, LoopAssumption
<1> HIDE DEF p, a
<1>5. \A i \in 1 .. Len(p) : p[i] \in Bytes BY <1>1
<1>6. s \in Seq(Bytes) /\ Len(s) = x /\ \A i \in 1 .. x : s[i] = p[i]
  <2>1. x \in Int /\ 1 \in Int /\ \A i \in 1 .. x : p[i] \in Bytes BY <1>2, <1>4, <1>5
  <2> DEFINE one == 1
  <2> HIDE DEF one
  <2>2. /\ SubSeq(p, one, x) \in Seq(Bytes)
        /\ Len(SubSeq(p, one, x)) = IF one <= x THEN x - one + 1 ELSE 0
        /\ \A i \in 1 .. x - one + 1 : SubSeq(p, one, x)[i] = p[one + i - 1]
    BY <2>1, SubSeqProperties DEF one
  <2> QED BY <2>2 DEF one
<1>7. u \in Seq(Bytes) /\ Len(u) = x + n /\ \A i \in 1 .. x + n : u[i] = p[i]
  <2> DEFINE one == 1
             y == x + n
  <2>1. y \in Int /\ one \in Int /\ \A i \in 1 .. y : p[i] \in Bytes BY <1>2, <1>4, <1>5
  <2> HIDE DEF one, y
  <2>2. /\ SubSeq(p, one, y) \in Seq(Bytes)
        /\ Len(SubSeq(p, one, y)) = IF one <= y THEN y - one + 1 ELSE 0
        /\ \A i \in 1 .. y - one + 1 : SubSeq(p, one, y)[i] = p[one + i - 1]
    BY <2>1, SubSeqProperties DEF one
  <2>3. y \in Nat BY <1>2 DEF y
  <2> QED BY <2>2, <2>3 DEF one, y
<1> HIDE DEF s, u
<1>8. s \o t = u
  <2> DEFINE st == s \o t
  <2>1. st \in Seq(Bytes) /\ Joins(st, s, t) BY <1>6, Joined
  <2> HIDE DEF st
  <2>2. Len(st) = x + n BY <1>6, <2>1 DEF Joins
  <2>3. ASSUME NEW i \in 1 .. x + n PROVE st[i] = u[i]
    <3>1. CASE i \in 1 .. x BY <1>6, <1>7, <2>1, <3>1 DEF Joins
    <3>2. CASE i \notin 1 .. x
      <4>1. i - x \in 1 .. n /\ x + (i - x) = i BY <3>2
      <4>2. st[x + (i - x)] = t[i - x] BY <1>6, <2>1, <4>1 DEF Joins
      <4>3. t[i - x] = p[x + (i - x)] BY <4>1 DEF p
      <4> QED BY <1>7, <4>1, <4>2, <4>3
    <3> QED BY <3>1, <3>2
  <2>4. st = u BY <1>7, <2>1, <2>2, <2>3, SeqEqual
  <2> QED BY <2>4 DEF st
<1>9. (a % OffMod) + Len(s) + Len(t) <= OffMod BY <1>2, <1>3, <1>4, <1>6, LoopAssumption
<1>10. Copied(Copied(m, a, s), a + Len(s), t) = Copied(m, a, s \o t)
  <2>1. Copied(m, a, s) \in Memory BY <1>6, CopiedType
  <2>2. /\ m \in Memory /\ a \in Nat /\ s \in Seq(Bytes) /\ t \in Seq(Bytes)
        /\ (a % OffMod) + Len(s) + Len(t) <= OffMod
    BY <1>1, <1>6, <1>9
  <2> QED BY ONLY <2>2, CopiedPieces, Zenon
<1>11. Partial(m, k, x) = Copied(m, a, s) /\ Partial(m, k, x + n) = Copied(m, a, u)
  <2>1. \A d : Partial(m, k, d) = Copied(m, k.arg0, SubSeq(k.payload, 1, d)) BY PartialKinds
  <2> QED BY <2>1, Zenon DEF a, s, u, p
<1> QED BY <1>6, <1>8, <1>10, <1>11 DEF a
=============================================================================
