------------------------------- MODULE Comms -------------------------------
(* The byte link between the test ROM and a host (testrom/src/comms.c).     *)
(* They share a page of registers of a ROM emulator, which the host writes  *)
(* and the program only reads: it hands a byte over by reading out_area at  *)
(* the byte's index, and the host sees every read.                          *)
(* One step is one read of a register by the program, or one write by the   *)
(* host: between any two reads the host may do anything, close the session  *)
(* or open the next one included.  A new call begins where the last ended.  *)
EXTENDS Naturals, Sequences

CONSTANTS
  SeqValues,  \* values of the sequence numbers, uint8_t: 256 in the source
  Bytes       \* values of a byte

ASSUME LinkAssumption == SeqValues \in Nat /\ SeqValues >= 2 /\ Bytes # {}

(* CommsRegisters; active is 1 while a session is open. *)
VARIABLES magic, active, pending, in_byte, in_seq, out_seq

(* The program's statics. *)
VARIABLES magic_valid, comms_active, comms_in_seq, comms_out_seq

(* The call under way: the function, the place in it, and its locals. *)
VARIABLES
  fn, at, on,       \* on: what comms_update returned
  buffer, maxlen,   \* comms_read: the len bytes read so far
  data, sent        \* comms_write

(* The host, and what the two have exchanged. *)
VARIABLES
  loaded, free,     \* in_byte waits for its number; the last byte was read
  up, got,          \* bytes posted in this session, bytes taken by comms_read
  down,             \* bytes the host saw in this session
  torn              \* the session was opened before the program saw the last one end

registers == <<magic, active, pending, in_byte, in_seq, out_seq>>
statics   == <<magic_valid, comms_active, comms_in_seq, comms_out_seq>>
locals    == <<buffer, maxlen, data, sent>>
hostVars  == <<loaded, free, up, down, torn>>
commsVars == <<registers, statics, fn, at, on, locals, hostVars, got>>

Advance(seq) == (seq + 1) % SeqValues
-----------------------------------------------------------------------------
Call(f) == at = "done" /\ at' = "update" /\ fn' = f
CallKeeps == UNCHANGED <<registers, statics, on, hostVars, got>>

CallUpdate == Call("update") /\ UNCHANGED locals /\ CallKeeps

CallRead(n) ==
  /\ Call("read") /\ maxlen' = n /\ buffer' = <<>>
  /\ UNCHANGED <<data, sent>> /\ CallKeeps

CallWrite(d) ==
  /\ Call("write") /\ data' = d /\ sent' = 0
  /\ UNCHANGED <<buffer, maxlen>> /\ CallKeeps

(* comms_update: the magic letters are looked for until they were found     *)
(* once; a session that begins resets both numbers.                         *)
CheckMagic == magic_valid \/ magic

(* Mutant of Update: the number of the bytes taken goes on from the session *)
(* before.                                                                  *)
UpdateKeepsNumber ==
  /\ at = "update"
  /\ on' = (active = 1 /\ CheckMagic)
  /\ magic_valid' = IF active = 1 THEN CheckMagic ELSE magic_valid
  /\ comms_active' = on'
  /\ IF on' /\ ~comms_active
     THEN comms_out_seq' = 0 /\ got' = <<>> /\ UNCHANGED comms_in_seq
     ELSE UNCHANGED <<comms_in_seq, comms_out_seq, got>>
  /\ at' = CASE ~on' \/ fn = "update" -> "done"
             [] on' /\ fn = "read"    -> "active"
             [] on' /\ fn = "write"   -> "next"
  /\ UNCHANGED <<registers, fn, locals, hostVars>>

Update ==
  /\ at = "update"
  /\ on' = (active = 1 /\ CheckMagic)
  /\ magic_valid' = IF active = 1 THEN CheckMagic ELSE magic_valid
  /\ comms_active' = on'
  /\ IF on' /\ ~comms_active
     THEN comms_in_seq' = 0 /\ comms_out_seq' = 0 /\ got' = <<>>
     ELSE UNCHANGED <<comms_in_seq, comms_out_seq, got>>
  /\ at' = CASE ~on' \/ fn = "update" -> "done"
             [] on' /\ fn = "read"    -> "active"
             [] on' /\ fn = "write"   -> "next"
  /\ UNCHANGED <<registers, fn, locals, hostVars>>

GoTo(here, there) ==
  /\ at = here /\ at' = there
  /\ UNCHANGED <<registers, statics, fn, on, locals, hostVars, got>>

(* comms_read: while a session is open and a byte is there or announced.    *)
ReadActive  == GoTo("active", IF active = 1 THEN "seq" ELSE "done")
ReadSeq     == GoTo("seq", IF comms_in_seq # in_seq THEN "again" ELSE "pending")
ReadPending == GoTo("pending", IF pending THEN "again" ELSE "done")
ReadAgain   == GoTo("again", IF comms_in_seq # in_seq THEN "byte" ELSE "active")

TakeByte ==
  /\ at = "byte"
  /\ buffer' = Append(buffer, in_byte) /\ got' = Append(got, in_byte)
  /\ comms_in_seq' = Advance(comms_in_seq)
  /\ free' = TRUE
  /\ at' = IF Len(buffer') = maxlen THEN "done" ELSE "active"
  /\ UNCHANGED <<registers, magic_valid, comms_active, comms_out_seq, fn, on,
                 maxlen, data, sent, loaded, up, down, torn>>

(* comms_write: each byte is waited for; one that the host left before      *)
(* seeing is counted as sent like the others.                               *)
SendByte ==
  /\ at = "next" /\ sent < Len(data) /\ at' = "wait"
  /\ down' = IF active = 1 THEN Append(down, data[sent + 1]) ELSE down
  /\ comms_out_seq' = Advance(comms_out_seq)
  /\ UNCHANGED <<registers, magic_valid, comms_active, comms_in_seq, fn, on,
                 locals, loaded, free, up, torn, got>>
AllSent == sent = Len(data) /\ GoTo("next", "done")

NextByte(here) ==
  /\ at = here /\ at' = "next" /\ sent' = sent + 1
  /\ UNCHANGED <<registers, statics, fn, on, buffer, maxlen, data, hostVars, got>>

(* Mutants: a byte counts as sent at once; a host that left is waited for.  *)
WaitSeqUnwaited   == NextByte("wait")
WaitActiveForever == GoTo("gone", "wait")

WaitSeq    == IF out_seq = comms_out_seq THEN NextByte("wait") ELSE GoTo("wait", "gone")
WaitActive == IF active = 0 THEN NextByte("gone") ELSE GoTo("gone", "wait")

Running ==
  \/ Update
  \/ ReadActive \/ ReadSeq \/ ReadPending \/ ReadAgain \/ TakeByte
  \/ SendByte \/ AllSent \/ WaitSeq \/ WaitActive
-----------------------------------------------------------------------------
(* The host, as the program's use of the registers shows it.  It opens a    *)
(* session with fresh numbers, puts a byte in place before it counts it,    *)
(* and the next one only when it saw the last one read.                     *)
TargetKeeps == UNCHANGED <<statics, fn, at, on, locals, got>>

HostMagic == ~magic /\ magic' = TRUE
             /\ UNCHANGED <<active, pending, in_byte, in_seq, out_seq, hostVars>>
             /\ TargetKeeps
HostOpen ==
  /\ active = 0 /\ active' = 1
  /\ pending' = FALSE /\ in_seq' = 0 /\ out_seq' = 0
  /\ loaded' = FALSE /\ free' = TRUE /\ up' = <<>> /\ down' = <<>>
  /\ torn' = comms_active
  /\ UNCHANGED <<magic, in_byte>> /\ TargetKeeps
HostClose ==
  /\ active = 1 /\ active' = 0
  /\ UNCHANGED <<magic, pending, in_byte, in_seq, out_seq, hostVars>> /\ TargetKeeps
HostPending ==
  /\ active = 1 /\ pending' = ~pending
  /\ UNCHANGED <<magic, active, in_byte, in_seq, out_seq, hostVars>> /\ TargetKeeps
HostLoad(b) ==
  /\ active = 1 /\ free /\ ~loaded
  /\ in_byte' = b /\ loaded' = TRUE
  /\ UNCHANGED <<magic, active, pending, in_seq, out_seq, free, up, down, torn>>
  /\ TargetKeeps
HostPost ==
  /\ active = 1 /\ loaded
  /\ in_seq' = Advance(in_seq) /\ up' = Append(up, in_byte)
  /\ loaded' = FALSE /\ free' = FALSE
  /\ UNCHANGED <<magic, active, pending, in_byte, out_seq, down, torn>> /\ TargetKeeps
HostAck ==
  /\ active = 1 /\ out_seq # Len(down) % SeqValues
  /\ out_seq' = Len(down) % SeqValues
  /\ UNCHANGED <<magic, active, pending, in_byte, in_seq, hostVars>> /\ TargetKeeps

Host == \/ HostMagic \/ HostOpen \/ HostClose \/ HostPending \/ HostPost \/ HostAck
        \/ \E b \in Bytes : HostLoad(b)

Caller == \/ CallUpdate
          \/ \E n \in Nat \ {0} : CallRead(n)
          \/ \E d \in Seq(Bytes) : CallWrite(d)

CommsNext == Running \/ Host \/ Caller

CommsInit ==
  /\ magic \in BOOLEAN /\ active = 0 /\ pending = FALSE
  /\ in_byte \in Bytes /\ in_seq = 0 /\ out_seq = 0
  /\ magic_valid = FALSE /\ comms_active = FALSE
  /\ comms_in_seq = 0 /\ comms_out_seq = 0
  /\ fn = "update" /\ at = "done" /\ on = FALSE
  /\ buffer = <<>> /\ maxlen = 1 /\ data = <<>> /\ sent = 0
  /\ loaded = FALSE /\ free = TRUE /\ torn = FALSE
  /\ up = <<>> /\ got = <<>> /\ down = <<>>

CommsSpec == CommsInit /\ [][CommsNext]_commsVars
-----------------------------------------------------------------------------
Places == {"done", "update", "active", "seq", "pending", "again", "byte",
           "next", "wait", "gone"}

LinkTypeOK ==
  /\ magic \in BOOLEAN /\ active \in {0, 1} /\ pending \in BOOLEAN
  /\ in_byte \in Bytes /\ in_seq \in 0 .. SeqValues - 1 /\ out_seq \in 0 .. SeqValues - 1
  /\ magic_valid \in BOOLEAN /\ comms_active \in BOOLEAN
  /\ comms_in_seq \in 0 .. SeqValues - 1 /\ comms_out_seq \in 0 .. SeqValues - 1
  /\ fn \in {"update", "read", "write"} /\ at \in Places /\ on \in BOOLEAN
  /\ buffer \in Seq(Bytes) /\ maxlen \in Nat \ {0}
  /\ data \in Seq(Bytes) /\ sent \in 0 .. Len(data)
  /\ loaded \in BOOLEAN /\ free \in BOOLEAN /\ torn \in BOOLEAN
  /\ up \in Seq(Bytes) /\ got \in Seq(Bytes) /\ down \in Seq(Bytes)

(* The program knows the session that is open, or was open last. *)
SameSession == comms_active /\ ~torn

(* What comms_read hands out are the bytes the host posted in the session,  *)
(* in order, none twice and none left out, wherever the host's writes fall  *)
(* between the reads of a call: comms.c:83 to 92.                           *)
InOrder ==
  SameSession => /\ Len(got) <= Len(up) /\ Len(up) <= Len(got) + 1
                 /\ \A i \in 1 .. Len(got) : got[i] = up[i]

(* When comms_write returns and the session it began in is still open, the  *)
(* bytes it counts are the last the host saw and each was acknowledged:     *)
(* comms.c:114 to 126.                                                      *)
WriteDelivered ==
  at = "done" /\ fn = "write" /\ on /\ SameSession /\ active = 1 =>
    /\ sent = Len(data) /\ sent <= Len(down)
    /\ \A i \in 1 .. sent : down[Len(down) - sent + i] = data[i]
    /\ out_seq = Len(down) % SeqValues
=============================================================================
