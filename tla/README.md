# A verification project for nec_core

This directory holds a TLA+ model of `nec_core`: a SystemVerilog core for the
NEC V33 processor (`src/hdl/`) and the test ROM a chip or the core runs under a
host's control (`src/testrom/`).  Beside it are the TLC configurations that
model-check it on small instances, and theorems about it that TLAPS proves.

1. [Inventory](#1-inventory)
2. [Plan](#2-plan)
3. [Modules and their code](#3-modules-and-their-code)
4. [Runs](#4-runs)
5. [Bounds](#5-bounds)
6. [Fairness](#6-fairness)
7. [Proofs](#7-proofs)
8. [Findings](#8-findings)
9. [What is not modelled](#9-what-is-not-modelled)

To parse, check or prove: `tlasany M.tla`, `tlc -config X.cfg M`,
`tlapm BusSystemProofs.tla`.  `PROJECT.json` lists the runs, the source lines
of every definition, the hazards with the properties that cover them, and the
mutants.

## 1. Inventory

### The core

One clock drives the core (`hdl/v33.sv`).  An edge does something when `ce_1`
or `ce_2` is high, and the two alternate: `phase` 1 and 2 in the models.  All
parts step on the same edge and see one another's registers as they were before
it, so the concurrency is synchronous; what is asynchronous is *when* anything
happens: memory answers after any number of wait states, opcodes have delays of
their own, interrupts and resets come when they like.

| component | state | operations | what must be right |
|---|---|---|---|
| **bus control unit** `hdl/bus_control_unit.sv` | the bus cycle (`t_state`, `cycle_type`, `addr`, `n_ube`, strobes, `dout`, `n_buslock`), the data port (`dp_busy`, `dp_req2`, `dp_final_cycle`, `dp_din_buf`), the acknowledge (`intack`, `intack_idles`, `intvec`) | arbitrate between interrupt, data access and prefetch; start, strobe and end a cycle; split an unaligned word | every byte of an access moves once, at the right cell, in either lane; the strobe is stable; the acknowledge is locked and its vector is the right one; everyone is served |
| **prefetch queue** (the same file) | `ipq` (8 bytes), `reg_pfp`, `discard_ipq_fetch` | fetch a word or a byte, drop a fetch the jump made useless, restart at a target | the bytes from `PS:pc` on, in order, never more than eight |
| **instruction decoder** `hdl/nec_decode.sv` | `pc`, `state`, the instruction in flight, `disp_read`, `imm_read` | take one byte per `ce_1`; prefixes, opcode, mod-r/m, displacement, immediate; retire; restart at a jump | nothing is left of the instruction before; nothing changes while the instruction waits; no byte is skipped |
| **instruction table** `hdl/opcodes.yaml` → `hdl/opcodes.svh` | none | bytes to fields | every entry is one the execution unit can serve, whatever the order of entries |
| **execution unit** `hdl/v33.sv` | register file, segment registers, flags, `state`, some twenty temporaries, `dp_*` registers, `set_pc`/`next_pc` | sequencer (operand fetch, opcode steps, store), stack lists, block transfers and comparisons, shifts, bit fields, digit strings, branches, exceptions | the program sees each instruction happen as a whole |
| **interrupts and exceptions** (`v33.sv`, `bus_control_unit.sv`) | `interrupt_vector`, the states `INT_*` | take a request between instructions or elements, acknowledge, push, load the vector | nothing is lost or done twice, and the handler returns to the right place |
| **divider** `hdl/nec_divider.sv` | `busy`, `done`, `i`, `acc`, `quo`, operands, for 16 and for 32 bits | start, one bit per edge, finish | the result is that of the operands of *this* division |
| **arithmetic unit** `hdl/alu.sv` | none (combinational) | ADD … ADJBS | result and flags of the numbers |
| **whole core** `hdl/v33.sv` | all of the above | the three units on one clock | locked accesses stay locked; the program goes on, whatever competes for the bus |
| **types and enums** `hdl/types.sv`, `hdl/enums.svh` | none | names | – |
| **bench memory and pins** `bench/main.cpp`, `bench/test_186.cpp` | memory, I/O | read and write by address, lanes and strobe | – (environment) |

The signals between the parts:

```
            ipq, ipq_len            decoded, valid
 bus control  ───────►   decoder   ───────────────►  execution unit ──► divider
    unit      ◄─ pc ──             ◄── retire_op ──      (ALU)      ◄──  done
      ▲  ▲                              set_pc, next_pc (to both) │
      │  └────────── dp_* registers, dp_req, segment registers ───┤
      │   ── dp_ready, dp_din, intack, intvec, n_buslock ─────────►
      ▼
  memory, I/O, interrupt controller (n_ready)
```

What is hard here, and hardly tested: a jump on either edge against a fetch in
any of its states; words in two cycles with an interrupt, a jump or a reset
between them; data that is right on one edge only (`dp_din`); registers that
keep what an earlier instruction or division left (`reset_decode`, the
temporaries, `done`); segment registers that change while an access that uses
them waits; an interrupt between the elements of a repeated instruction, which
restarts it from its first byte; pointers and offsets that wrap; a lock that
follows the instruction and not its access; a reset at any edge, which reaches
only some of the registers.  `PROJECT.json` lists each at its line, under
`hazards`.

### The test ROM

A program in the ROM of the board.  A host shares a page of registers with it
through a ROM emulator: the host writes them, the program only reads, and hands
a byte back by *reading* a table at the byte's index, which the host sees.

| component | state | operations | what must be right |
|---|---|---|---|
| **host link** `testrom/src/comms.c` | sequence numbers of both directions, `comms_active`, `magic_valid`; the registers | `comms_update`, `comms_read`, `comms_write`, against a host that may do anything between two reads of a register | no byte is lost, repeated or reported as sent when it was not |
| **command loop** `testrom/src/main.c` | `active_cmd`: code, arguments, buffer, three counts | collect a command and its payload in pieces, carry it out, answer with its code | memory and replies are those of the commands, whatever pieces they come in; a session that ends does not leak into the next |
| **printf** `testrom/src/printf/printf.c` | the gadget: count, limit, buffer or function; the place in the format | format integers, strings, characters and pointers; snprintf, sprintf, printf | the text of the C standard; never a character behind the buffer; never read behind the format |
| **display and handlers** `testrom/src/main.c` | `vblank_count`, the screen, the playfield ports | draw the count and the link's state, wait for a vertical blank; the interrupt advances the count | the wait ends after a blank and only then, although the count is read in two words; the screen shows the last text |
| **start-up** `entry.S`, `init.c`, default handlers | – | straight-line code, empty handlers | not modelled |

In this commit `main` never reaches the command loop: `while(1){}` at line 293
parks it.  The loop behind it is the purpose of the program and is modelled as
it would run without that line; the display is modelled both ways.

### Around them

Test programs and recorded runs (`tests/80186`, `testrom/src/*.asm`) are used as
documentation of what the core should do.  Trace extraction (`bench/*.py`) and
timing recordings (`docs/`) have no state of the system.  None is modelled.

## 2. Plan

Done, in this order: the bus control unit with the abstract queue and port it
implements; the proofs about it, and that it implements both; decoder and
table, and the proofs that they give every instruction its own fields and
bytes; divider, and the proofs of its handshake and of its quotient; ALU; execution unit with the abstract architecture it implements;
reset everywhere; the whole core; the byte link and the proofs about it; the
command loop, and the proofs that it uses the link as promised, answers in order
and does to memory what it is told; printf and the display, and the proofs about the buffer and the wait; digit
strings and bit fields against the arithmetic of numbers.

Left, in this order:

1. **Proofs** of `PortContract` for every program: an invariant over the states of the
   microcode that says which of them own the port.
2. Liveness of the execution unit state by state: `Progress` says that
   instructions are accepted for ever in the programs of the run.
3. The whole core with REP LDM and with two interrupts, when a machine is at
   hand that enumerates more.

## 3. Modules and their code

### The core

| module | models | how state and actions correspond |
|---|---|---|
| `V33Types` | types of the package, `physical_addr` | offsets, paragraphs and the physical space are `Offs`, `Para`, `Phys` (65 536, 16, 2^20 in the source) |
| `BusControlUnit` | `bus_control_unit.sv` | one variable per register, the same names; one action per branch of the `always_ff` block: `Strobe` and `EnterT2` in T1; `AcceptFetch`, `DropFetch`, `CompleteRead`, `CompleteWrite`, `CompleteIntAck` in T2; `StartIntAck1`, `StartIntAck2`, `FinishIntAck`, `SecondAccess`, `StartDp`, `StartPrefetch`, `StayIdle` between cycles; and `BcuReset`. Later assignments of the block override earlier ones, so the jump (`pfp_set`) is part of every action |
| `BusSystem` | the same with its neighbours | `Edge(ready)` is one edge of *all* parts; `EuEdge` is any execution unit that keeps the port's contract and jumps at any time, to any segment (`handle_branch` looks at no port), `DecodeEdge` any decoder that takes at most one byte per cycle, `StoreEdge` memory as the benches have it |
| `PrefetchQueue`, `DataPort` | what the bus control unit promises | abstract: the queue is the next bytes of the program and only jumps empty it; an access is asked for, begins, and from then on is a set of byte transfers, each done once. Where they go is settled when it begins, by the segment register as it is then |
| `BusSystemProofs`, `DecodeProofs`, `DividerProofs` | – | theorems |
| `Induction` | – | induction over the naturals, functions that recursion defines, quotient and remainder: lemmas for the others |
| `Opcodes` | `opcodes.svh` | each entry of the table, patterns as sets of bytes; `f ++ g` are the assignments of two pieces of an entry; `Best` is the order of precedence that `gen_decode.py` gives |
| `NecDecode` | `nec_decode.sv` | the `ce_1` and `ce_2` halves of the block: `ByteEdge`, `EmptyEdge`, `RetireEdge`, `SecondEdge`, `JumpEdge` |
| `DecodeSystem` | the decoder between a queue that may be empty at any time and an execution unit that retires and jumps at any time | `taken` records the bytes of the instruction in flight |
| `NecDivider`, `DividerSystem` | `nec_divider.sv`, and the start/done handshake of `OP_DIV`/`OP_DIVU` | `{acc, quo}` is one number; one action per edge |
| `Alu`, `AluCheck` | `alu.sv`; what it, the digit strings and the bit fields mean for numbers | operators; the state is one operand pair, so that TLC enumerates them |
| `Datapath` | address calculation, operand selection, PSW, shifter, bytes of digit strings and bit fields of `v33.sv` | operators on registers |
| `EuRegisters` | registers of `v33.sv` | the temporaries are the record `t`; `Alter`, `Request`, `Goto` are the updates the microcode is written in |
| `Execute` | `handle_execute`: every opcode's steps | one operator per opcode family, guarded by `exec_stage` and `dp_ready` as in the code |
| `ExecutionUnit` | the sequencer: `IDLE`, fetch, store, stack, branch and interrupt states, reset | one operator per state |
| `Architecture` | what the core promises to the program | abstract: a step executes one instruction, or one element of a repeated one, or takes an interrupt, as a whole |
| `MachineCode` | – | decodes the bytes of a program with `Opcodes` |
| `ProgramView` | execution unit, memory and the machine the program sees | `arch` is a history variable: the machine after the last instruction, element or interrupt, recorded when the sequencer is through with it; `ArchitectureSpec` says that it steps as `Architecture` does |
| `ExecSystem` | the execution unit between any port, decoder, divider and interrupt controller that keep their promises | `access` is the port's state |
| `V33` | the whole core | execution unit, decoder and bus control unit, every register of them, wired as in `v33.sv`; one `Clock` is one edge of all; the board answers at any time. `locked` is a history variable |
| `SamplePrograms` | – | the programs of the runs, each followed by BR $ |

### The test ROM

| module | models | how state and actions correspond |
|---|---|---|
| `Comms` | `comms.c` | one step per read of a register by the program, one per write of the host; `fn`, `at` and the locals are the call under way. The host's actions are external: what the program's use of the registers requires of it. `up`, `got`, `down` are the bytes of the session, `torn` says that a session was opened before the program noticed the end of the last |
| `CommandLoop` | the loop of `main`, `update_cmd`, `process_cmd`, the copy loops of `util.h` | `step` is the place in the loop; calls of the link are `Comms`' own steps, so that a host that leaves does so inside any of them. `c` is `active_cmd` (without `is_new`, which nothing reads). `clean`, `mem0`, `answered` are history |
| `CommandLoopProofs`, `SessionProofs` | – | theorems: the link and the loop that uses it; the sessions |
| `OutputGadget` | the gadgets of `printf.c` | a step is one character; what happens below and above the limit, and the termination, as in the code |
| `Printf` | `format_string_loop`, `print_integer` and the rest of `printf.c`, as its makefile builds it (no floating point, no `long long`) | one action per part of the loop over the format (`place`), the format a piece of memory with something behind its NUL; a conversion computes its characters in `out`, which the gadget takes one by one |
| `FormattedText` | callers of printf; the C standard's account of a conversion | a call is described by pieces, from which format, arguments and the standard's text follow; printf sees the first two only |
| `Display` | `main` up to its loop, the drawing, `wait_vblank`, `vblank_handler` | one step reads a *word* of the count, draws a text or is one of printf's; `lowFirst` is the order in which the compiler reads the words, either |
| `PrintfProofs`, `FormattedTextProofs` | – | theorems: the gadget, the format, `wait_vblank`; the text and the screen |

`MC*` modules give the values of the constants.  Two of them put two systems
or more behind one variable `setting`, so that a behaviour is of one of them:
`MCDataPort` (accesses while PS changes; reads of every lane and number of
cycles; accesses cut short by resets) and
`MCDatapath` (the divider; the arithmetic).

### What the parts assume of one another

The parts are checked against abstractions of one another, and the whole core
without them:

| assumed in | of | checked in |
|---|---|---|
| `BusSystem` (`NewAccess`, `Load`) | the execution unit requests on `ce_1` only, from a free port, leaves the `dp_*` registers of a waiting request alone, and loads a segment register other than by a jump only when the port is free | `ExecSystem`: `PortContract` |
| `ExecSystem` (`PortEdge`, `DinNow`) | the port shows the word read on one edge, after any time | `BusSystem`: `ReadFresh`, `PortSpec` |
| `ExecSystem` (`FetchEdge`) | instructions come in order and do not change while they wait | `DecodeSystem`: `InOrder`, `ValidHeld` |
| `DecodeSystem` (the byte at `pc`) | the queue shows the program from `PS:pc` on | `BusSystem`: `QueueCoherent`, `QueueSpec` |
| `ExecSystem`, `V33` (`div_done`) | the divider's result is that of the operands set before | `DividerSystem`: `ResultOfOperands` |
| `Architecture`, `Execute` | the results of ALU, digit strings and bit fields | `AluCheck` |
| all of these but the last two | | `V33`: `ArchitectureSpec` of the units together |

`Architecture` and `Execute` share the pure operators (`Alu`, `Datapath`): what
`ArchitectureSpec` compares is everything with a *when* in it — operands, order,
stores, faults, interrupts, wrap-around of addresses — and `AluCheck` and
`DividerSystem` compare the arithmetic with numbers.

## 4. Runs

Every property of these runs has a mutant in `PROJECT.json`: a definition of the
model changed as a plausible bug would change the code (a comment before it says
how), for which the same run finds the property violated.

| run (module) | checks | shows |
|---|---|---|
| `prefetch` (`MCBusSystem`) | `TypeOK`, `QueueCoherent`, `QueueSpec` | the program fetches, jumps and reloads PS at every point of a bus cycle, with the pointers wrapping and resets at any edge: the queue stays the next bytes of the program and implements `PrefetchQueue` |
| `data_port` (`MCDataPort`) | `ReadFresh`, `PortSpec`, `StrobeStable` | words written and read through PS in two cycles while jumps change it (while the access waits, between its halves and during either), also across the end of memory; bytes read at odd and even addresses, words read in one cycle and in two, from I/O and without a segment, with a write among them; and accesses to memory and I/O with a reset at any edge: an access goes, whole, where its segment register points when it begins, every byte moves once at most, in its own cell, reads deliver each half, and after a reset the next access starts afresh. (A reset in the middle of an acknowledge is in the theorems `IntAckLockHeld` and `VectorCorrect`) |
| `interrupts` (`MCBusSystem`) | `IntAckLocked`, `VectorFresh`, `EveryoneServed` | interrupts, words and bytes, locked instructions and prefetch compete for the bus: the acknowledge is locked, its vector is its own, and with a memory that answers in the end every request is taken up, every access ends, every interrupt is acknowledged |
| `decode` (`MCDecodeSystem`) | `OwnFields`, `OwnOperands`, `MemoryFlags`, `Served`, `Unambiguous`, `ValidHeld`, `InOrder` | every first byte with every second byte, a memory operand in each default segment and a block instruction behind every prefix, and streams cut by jumps at any byte, the queue empty at any time, the execution unit late: what the execution unit reads was set by the instruction's own bytes, the memory flags agree with the operands, no class or opcode is one it cannot serve, no two entries of the same precedence overlap, no byte is lost or read twice |
| `datapath` (`MCDatapath`) | `ResultOfOperands`, `Answered`, `Arithmetic`, `DecimalResults`, `FieldKept` | one division after another on either divider, a reset at any edge: the result taken is the quotient and remainder of its own operands, and every division ends, also by zero. Additions and subtractions of both widths: result, carry, zero and sign are those of the numbers; digit carry and overflow too, except where the carry in is absorbed by the second operand (`CarryLost` names the exception); adjustment after a binary operation and the bytes of digit strings give the decimal sum or difference, except a digit string's subtraction that borrows from the high digit; unpacked digits and their carry are right, AH takes the carry of an addition and does not give the borrow of a subtraction; a bit field of any place and length reads back as written, as far as it lies in its byte, with nothing around it changed |
| `exec_programs` (`MCExecSystem`) | `ArchitectureSpec`, `PortContract` | programs that between them use every opcode, with every access, instruction and quotient late by any time, up to two interrupts at any moment they can be taken (the handler returns), and a reset at any edge of shifts, stack operations, exceptions and block transfers: the program sees each instruction executed as a whole, nothing is lost or done twice, no request goes to a busy port; after a reset the program at the reset address runs as from power-up, although most temporaries keep what they held. The word read is on the port for one edge only, so a word taken on another edge would be seen |
| `v33` (`MCV33`) | `LockHeld`, `ArchitectureSpec`, `Progress` | the whole core runs programs with words at odd addresses, any number of wait states, and in some an interrupt or a reset at any moment: the same promise to the program with nothing assumed between the units; an instruction that reads memory under the lock has it from its first access to the end of its last; and instructions are accepted for ever, however prefetch and accesses compete |
| `commands` (`MCCommandLoop`) | `InOrder`, `WriteDelivered`, `RepliesInOrder`, `MemoryDone`, `Served`, `HeaderEnds`, `CallsEnd` | commands of every kind over the link, every interleaving of the program's reads with a host that posts, acknowledges, leaves and comes back: bytes arrive in order, once; a write that returns in its session was seen and acknowledged; memory and replies are those of the commands, whatever pieces they came in; every command of a session that lasts is answered; the wait for a header, which looks at no session (`main.c:71`), ends once a session sends enough bytes, also when an earlier one left it half read; and no call hangs when the host leaves, unless it comes back before the program noticed |
| `text` (`MCDisplay`) | `WithinSize`, `Terminated`, `Standard`, `StaysInFormat`, `Shown`, `WaitsForVblank`, `WaitEnds` | every combination of flags, width, precision, length and value of an integer, fields of strings and characters, buffers of every size, texts longer than the count can tell, unfinished specifiers: the text is the one of the C standard (`Fits` names the exceptions), within the buffer and terminated, and printf stays in the format (the property names the exception). The screen shows what was printed, and `wait_vblank` returns after a blank and only then, whichever word of the count is read first |

The runs that end in a violation, `decode_ins`, `exec_loads` and
`divide_signed`, are the findings, section 8.

Programs that the passing runs of the core leave out, because the code
does something else there or nothing is specified:

- a write through a `PS:` override directly before a far jump (MOV PS:[BW],AW; BR
  far): the jump does not wait for the write (`v33.sv:470-482`). `PortContract`
  fails for it in `ExecSystem`, and in `V33` a prefetch with wait states delays
  the write until it goes to the new segment, so `ArchitectureSpec` fails. What
  the bus control unit does with it is in `PortSpec` and its theorem: the whole
  write goes to the segment PS holds when the write starts;
- REP LDM with interrupts (finding below);
- the unassigned shift (`/6`); bit fields that cross a byte; words at offset FFFF;
  double words as registers (`mod` 3); programs that overwrite themselves;
- in `V33` also `Pointers`, the program that loads and jumps through far
  pointers into bytes nothing specifies.

## 5. Bounds

- **`BusSystem`**: 16 offsets (`Offs`), paragraphs of 8 (`Para`), 16 or 32
  physical bytes (`Phys`).  The queue works with four bits of the pointers
  (`IpqLen`) and three for the slot, so with 16 offsets the pointers wrap after
  two queues full, which 65 536 only do later; segments overlap, and both the
  offset and the physical address wrap.  A byte is its origin (the cell it came
  from, or the word written), so any confusion of bytes is seen.  `IdleCap` caps
  `intack_idles`, which the code compares with small numbers only.  `Requests`,
  `Targets`, `SegmentValues` and `Consumable` are small per run; each run opens
  the part of the environment its question needs, because all together exceed
  what TLC enumerates.  The theorems have none of these bounds.
- **`DecodeSystem`**: a stream is `Single` or `Several`.  `Single` takes all 256
  values of the first and of the second byte; behind a prefix or a byte no group
  knows (`lead` 1) come the first bytes 8B and A4, whose entries read what a
  prefix sets.  `Several` runs `ops` 2 retirements of six first bytes that differ
  in which fields they set: an instruction can only inherit from the one before,
  since a retirement resets the same fields each time.
- **`DividerSystem`**: 4 and 8 bits (`Narrow`, `Wide`) instead of 16 and 32.  A
  behaviour begins with any operand pair of the narrow one or one at an end of the
  ranges of the wide one (`First`); a few that include overflow, zero and signs
  follow in any order (`Operations`).  The algorithm is uniform in the width.
- **`AluCheck`**: 27 values on both sides of every digit, sign and carry
  boundary; all pairs of packed decimal bytes and of unpacked digits, these beside
  three values of AH; for bit fields six values of mixed bits, every shift and
  length there is.
- **`ExecSystem`**: registers keep their 16 bits.  Programs of a few
  instructions; two settings of the registers, one ordinary (`Low`), one in which
  pointers and counts are at the end of their ranges (`Edge0`).  Delays need no
  bound: the program waits in the same state however long they are.
  Each beginning carries its bounds on interrupts (`irqs` 2, so that one meets the
  handler's return and the same element again) and on resets (`resets` 1, in four
  of the programs).
- **`V33`**: every register at its width, programs of a few instructions that end
  in BR $, so that every behaviour goes on for ever and `Progress` has something
  to say.  Stack and operands at even addresses (`Low`, without interrupts) or at
  odd ones (`Odd0`, with one interrupt in three programs: a block transfer, stack
  and exceptions, locked instructions; with a reset in one of them).  Wait states
  have no bound.
- **`CommandLoop`**: 3 sequence numbers, so that they wrap every three bytes; a
  buffer of 2 bytes, so that a payload of 3 or 4 comes in pieces with an odd one
  left over; 6 bytes of memory, which the commands overlap in; up to two sessions
  of up to three commands (`AllPlans`) that cover every command, an unknown one,
  and sessions cut at any point.  `MaxReplies` 7 ends a flood: a READ with a
  payload answers for ever (below).  A host that is `patient` lets the program
  notice that a session ended; one that is not tears sessions.
- **`Printf`, `Display`**: an int of 4 bits and a long of 8, so that every value,
  sign and length is near a boundary; buffers of 0 to 7 cells, and counts of 6
  bits (`SizeMod`), which texts of 36 and 72 characters reach and pass.  One or
  two conversions follow one another.  The words of the count have 2 bits
  (`HalfMod`) and it goes to `MaxVblanks` 6, across the carry between them.
  printf is atomic with respect to the interrupt: it does not look at the count.

## 6. Fairness

- `BusSystem!LiveSpec`: `WF(Clock)`, the clock goes on.  Every register steps on
  every edge, so there is no other scheduling.  `SF(Answered)`: a cycle that waits
  in T2 again and again is answered in the end: `n_ready` is not held high for
  ever.  It is the memory's promise.
- `MCDatapath!DatapathSpec`: `WF(Edge)`, the clock again, and
  `SF(Edge /\ TakeResult)`: the execution unit that waits for `done` looks at it
  again and again, and its opcode's delay is over at some point.
- `V33!LiveSpec`: `WF(Ticks)`, the clock; `SF(Answered)`, the memory;
  `SF(DelayOver)`: the counters `op_delay` and `exec_delay`, which are any number
  of edges here, run out, and the divider is done (`Answered` of `DividerSystem`).
- `CommandLoop!LiveSpec`: `WF(Target)`, the program runs; the host, while its
  session is open, announces, loads, posts and acknowledges (`Announces`,
  `Loads`, `Serves`), and closes a session that floods it.  It need not open or
  close one otherwise.
- `Display!LiveSpec`: `WF(Waiting)`, the program runs; `WF(VblankHandler)`,
  vertical blanks go on, up to the bound.

No interrupt, jump, access, retirement or session is assumed to happen.

## 7. Proofs

Eight modules of theorems, each for all values of the constants.

**`BusSystemProofs`**, from `WidthAssumption` (`V33Types`: what the proofs need of
powers of two, the number of offsets a positive multiple of 16, paragraphs and
the physical space even and the latter no smaller than a segment) and
`SystemAssumption` (`BusSystem`: accesses, targets, segment values and prefixes
are of their types, 0 is a target, the reset value is one PS can take):

| theorem | states | argument |
|---|---|---|
| `TypeCorrect` | `Spec => []TypeOK` | inductive as `TypeInv == TypeOK /\ DpShape`. The type alone is not inductive: that the second cycle of an unaligned word stays on the bus addresses needs that a data cycle under way is one of `dp` (`DpShape`), and that a cycle that uses both lanes is not at the last address |
| `SecondByteCorrect` | `Spec => []SecondByte` | a consequence of `TypeInv` |
| `QueueCorrect` | `Spec => []QueueCoherent` | inductive as `QueueInv`: except on the edge of a jump, `reg_pfp` is `pc` plus the length, the slots hold the bytes from `PS:pc` on, and a fetch that will be accepted finds room for two bytes and reads at `PS:reg_pfp`. The length is only known modulo 16, so the room (`<= 6` when fetching) has to be part of it. `fresh` covers the steps between a load of PS and its jump |
| `IntAckLockHeld` | `Spec => []IntAckLocked` | inductive as it stands, on the cases of the arbiter |
| `VectorCorrect` | `Spec => []VectorFresh` | inductive as `VectorInv`: an acknowledge cycle belongs to the interrupt that waits, `intack` outlives the wait by no more than one edge, and the vector is read by the cycle that sets `intack` |
| `StrobeHeldStable` | `Spec => StrobeStable` | an action property, from `StrobeInv`: the strobe is off on the edge that may still change the pins |
| `QueueImplemented` | `Spec => QueueSpec` | the refinement with the mapping of `BusSystem` (`Queue`): every edge is a step of `PrefetchQueue` or a stutter. `QueueInv` says what the visible queue holds (`VisibleProgram`); the length changes by the bytes that arrive and the one that is taken (`LengthStep`); and a piece of the program with both ends moved is a piece of the program (`ProgramShifted`) |

Each invariant has one step per action, one below it per disturbed conjunct;
arithmetic modulo the widths is in lemmas of its own (`OffsetPlusWraps` and the
others at the head of the module).

On top of `TypeCorrect` and from the same assumptions, the data port:

| theorem | states | argument |
|---|---|---|
| `ReadsCorrect` | `Spec => []ReadFresh` | inductive as `PortInv`: which lanes the cycle of an access uses and how the parity of the pins relates to that of `dp_addr` (`Lanes`); between and in the halves of a word the buffered byte is still what memory holds (`Buffered`), because no write comes between them; and when the strobe is on, and what the data pins carry then (`Strobed`). An access is on the bus only after four kinds of edges (`BusyEdge`: it goes on, its first half ends, its second begins, it starts), and the three parts are disturbed by each differently |
| `PortImplemented` | `Spec => PortSpec` | the refinement with the mapping of `BusSystem` (`Port`): the bytes left (`Left`) and those that the cycle on the bus moves (`Moving`) are sets of transfers. A cycle's lanes write exactly the cells of its transfers (`CycleStores`); the end of a first half takes them from what is left and no other edge changes it (`LeftStep`); what waits is what was asked for until it starts (`AskedHeld`), and it starts at the place where its segment register points on that edge, whatever PS did before, with every transfer of the word still to come (`AskedTransfers`, `StartsAsked`); and a reset drops the rest, the cut-off write done or not (`ResetMaps`) |

**`DecodeProofs`**, from `WidthAssumption` and `StreamsAssumption`
(`DecodeSystem`: what the queue delivers are bytes, and jump targets are
offsets), for every set of programs, so for every string of bytes:

| theorem | states | argument |
|---|---|---|
| `FieldsAreOwn` | `Spec => []OwnFields` | the invariant `IInv` |
| `OperandsAreOwn` | `Spec => []OwnOperands` | the invariant `IInv` |
| `FlagsAlwaysAgree` | `Spec => []MemoryFlags` | the invariant `IInv` |
| `AlwaysServed` | `Spec => []Served` | the invariant `IInv` |
| `NothingSkipped` | `Spec => InOrder` | an action property, from `IInv`: `pc` is the location behind `taken`, so that an instruction ends where its last byte was read |
| `InstructionHeld` | `Spec => ValidHeld` | an action property: of the decoder's actions those that read a byte are not possible while `valid` is shown, and those that retire are counted. It needs that the counts of bytes and of retired instructions are numbers, so that one more is not the same |

None of the first four is inductive: what is in a field when the instruction is
complete depends on the state in which each byte found the decoder.
`IInv == Where /\ Decoded /\ Numbers /\ Contents`: `Decoded` compares the record
`d`, which instructions share, with `Alone(taken)`, what the bytes read so far
mean to a decoder that was never used before, on the fields that one of them has
set or `reset_decode` clears, and nowhere else; `Numbers` relates the counts of
displacement and immediate bytes to the bytes taken; `Contents` says which bytes
`disp` and `imm` hold; `Where` is the place in the stream.  The instruction table
enters as `Advances`, shown group of entries by group in the first part of the
module: an entry that completes an instruction leaves one that the execution
unit can serve, whose flags and sizes agree with its operands and all of whose
fields it reads were set (`Sound`); one that goes on leaves the operands as
`reset_decode` made them (`Fresh`) and has set the width if the next state
relies on it (`Sized`).

**`Induction`**: the library's theorems on induction take a predicate or an
operator as a parameter, which the installed provers cannot instantiate.  Here
the predicate is a set and the operator a function, so that it can be cited:
every non-empty set of naturals has a least member (`LeastNumber`), a set of
naturals with 0 and every successor is all of them (`Inductive`), a recursive
function exists (`PrimitiveRecursion`, `FiniteRecursion`), and quotient and
remainder are unique (`DivMod` and the lemmas behind it).

**`DividerProofs`**, from `DividerAssumption` (`NecDivider`: the width) and
`OperandsFit` (`DividerSystem`: operands are of their types), for all widths and
operands:

| theorem | states | argument |
|---|---|---|
| `AnswerIsOwn` | `Spec => []OwnAnswer` | inductive as `Handshake`: on `ce_1` the start of the division waited for is over, and from then on both dividers are at work on its divisor or done with it (`AtWork`) |
| `QuotientIsRight` | `Spec => []ResultOfOperands` | inductive as `Handshake /\ Divides`: after `i` bits the number `{acc, quo}` holds the remainder of the leading `i` bits of the dividend, the bits still to come and the bits of the quotient so far (`Dividing`; one bit more is `BitDivides`, by `LongDivision`); the signs are put back at the end (`SignedDivision`). It needs powers of two and that quotient and remainder are unique |

**`CommandLoopProofs`**, the link first: from `LinkAssumption` (at least two sequence numbers, some
byte), for calls of any length and a host that does anything `Comms` lets it:

| theorem | states | argument |
|---|---|---|
| `LinkTypes` | `CommsSpec => []LinkTypeOK` | part of the invariant below |
| `BytesInOrder` | `CommsSpec => []InOrder` | the invariant `LinkInv` |
| `WritesDelivered` | `CommsSpec => []WriteDelivered` | the invariant `LinkInv` |

Neither property is inductive.  `LinkInv` adds where a call stands (`Placed`);
what may wait in a session that the program has not noticed yet: at most one
byte up, none down (`Fresh`), because its first poll starts the numbers at 0 and
must find the host's side there too; that the host's number counts what it
posted and the byte in place is the last one until it was read (`Posted`); that
the program took all but the byte that waits (`Taken`) — with numbers that wrap,
"different" must mean "exactly one more", which is why two values are enough;
that all shown bytes but the awaited one are acknowledged (`Numbered`); and that
what this call showed are the last bytes the host saw (`LastShown`).  All but
the first two are about a session the program knows; that is false from the
moment a session is *torn*, and then both properties say nothing.

Then the loop, from `LinkAssumption`, `LoopAssumption` (a buffer of two
bytes at least, bytes are numbers below 256 with 0 among them, and memory,
offsets and `int` of some size) and `PlansAssumption` (a host sends lists of
commands whose fields fit the header), for every such host:

| theorem | states | argument |
|---|---|---|
| `LoopUsesLink` | `Spec => CommsSpec` | `Comms` lets a caller do one call after another, read into a buffer of at least one byte and write bytes. That the loop does no more needs the types of `active_cmd` (`LoopTypeOK`): it holds no more bytes than its buffer, has consumed no more than it holds, and asks for as much as there is room and payload left, which is not 0 when it asks. So the theorems above hold of the whole program, whatever commands it is sent |

The rest of the module has no theorem of its own.  It is about the
operators that say what commands mean: a copy made in two pieces is the copy
(`CopiedPieces`: of two writes to a cell the later one stays, also where a far
pointer wraps), the ten bytes of a header give back its fields
(`HeaderDecodes`), the bytes of a list of commands are those of its commands one
behind the other (`StreamPiece`), and so are the replies (`SaidPiece`).

**`SessionProofs`**, from the same assumptions:

| theorem | states | argument |
|---|---|---|
| `Replied` | `Spec => []RepliesInOrder` | the invariant `LoopInv` |
| `MemoryKept` | `Spec => []MemoryDone` | the invariant `LoopInv`: at the answer the whole payload is consumed, and consuming all of it in pieces (`Partial`) is the command (`PartialAll`, `PartialWrite`) |

Neither property is inductive: what the next step writes or sends depends on the
command in hand, that on the bytes it was read from, and those on what was taken
before.  `LoopInv == Plain /\ (Orderly => Straight)` sits on top of `LinkInv`.
`Plain` holds whatever the session is: which call is under way (`InCall`), that
it asks for no more than there is room and payload for (`Room`), when a command
is in hand (`Busy`), that the bytes a read call has taken are the last that were
taken (`Bought`), and that the host posts the bytes of its commands
(`Streamed`).  `Straight` is about a session that began between two commands and
compares the loop with the host's list: the bytes taken so far end where the
loop stands in the stream (`Counted`); the part of a header that is there, and
the fields and buffered payload of a command in hand, are those of the next
command (`HeaderRead`, `Current`); memory is what the answered commands left,
plus what this one has done with the payload it has consumed (`Carrying`); what
a call sends is the part of the reply that is next (`Offered`); and what the
host has heard begins the replies to the whole session (`Heard`).  A session
that begins in the middle of a command is *not* orderly, and `Plain` is all that
is left of it.  TLC checked `LoopInv` as an invariant on the instance of the run
`commands` before it was proved.

**`PrintfProofs`**, the gadget first: from `SizeAssumption` (the limit is less
than what the count can tell apart), for arrays of any size and any sequence of
characters:

| theorem | states | argument |
|---|---|---|
| `GadgetTypes` | `GadgetSpec => []GadgetTypeOK` | beside the invariant below |
| `GadgetStaysWithin` | `GadgetSpec => []WithinSize` | the invariant `GadgetInv`; it holds also after the count wraps, because a small count is a small index |
| `GadgetTerminates` | `GadgetSpec => []Terminated` | `GadgetInv` adds that the count is the number of characters while it can be (`Counting`), what limit each kind of gadget has (`Limits`) and what the buffer holds before the NUL takes the last place (`Held`) |

Then printf's callers, from `WidthAssumption` and `CharsAssumption` (`Printf`)
and `DisplayAssumption` (`Display`): other programs make calls that a caller may
make (`WellFormed`: what the C standard defines, a size no larger than the
array), the numbers of the link are numbers, a half of the count is no wider
than an int.  For every set of such calls:

| theorem | states | argument |
|---|---|---|
| `PrintfStaysWithin`, `PrintfTerminates` | `Spec => []WithinSize`, `Spec => []Terminated` | `GadgetInv` again: every call, main's included, is well-formed and makes a gadget within its array (`StepsOfPrintf`, `MakeInv`), and of printf's own steps only two touch it (`FormattingGadget`) |
| `PrintfStaysInFormat` | `Spec => []StaysInFormat` | the invariant `InFormat`: the format ends in a NUL (`MemoryIs`, from the texts of the pieces, and `Chars` without the NUL), and inside a specifier the place is before that NUL, unless the character before the NUL is a flag or a digit (`Careless`); a run of digits ends at the NUL at the latest (`RunIs`) |
| `VblankAwaited` | `Spec => WaitsForVblank` | an action property, from `RomInv`: as long as there was no blank since the call, each half read is the half of the old count and the count taken is the old count (`Waited`), so that no pair of halves looks like a new one |

**`FormattedTextProofs`**, from the same assumptions and for every set of calls:

| theorem | states | argument |
|---|---|---|
| `PrintfStandard` | `Spec => []Standard` | the invariant `ParserInv`: while a call whose numbers fit their buffer is formatted, printf has come to a place of its format (`Come`), and there what was put is the standard's text of the pieces before, what was stored is theirs, and the arguments left are those of the pieces behind |

`Standard` compares two accounts of a number that have little in common: the
code makes it backwards, fills zeros in front before it knows the prefix, takes
some of them back for the prefix and reverses the whole; the standard speaks of
significant digits, a least number of them, a prefix, a sign and a field.  The
proof goes in four parts:

- *Numbers.*  The digits that division leaves are the significant ones
  (`DigitsMadeIs`, `FiguresAre`), the zeros that are taken back are the ones that
  the prefix needs (`NoneTaken`, `TwoTaken`, `FinalizedZeros`), and so
  `print_integer` makes the standard's text (`IntegerMade`).  `Fits` is what
  it needs: the digits and the prefix fit the buffer of 32 characters.
- *Conversions.*  For each specifier, what the code puts is what the standard
  says of it: `IntegerPuts` (after the cuts to char, short, int and long of a
  value read in one word or in two), `CharacterPuts`, `StringPuts`,
  `PointerPuts`, `PercentPuts`, `CountPuts`.
- *A specifier.*  The parser's states within one (`AtFlags` to `AtSpecifier`) say
  which of its characters are behind, which flags, width and precision are set
  and which words are left; each step leads from one of them to one of them
  (`FlagsStep` to `Length2Step`), and the conversion to the end of the piece
  (`ConversionStep`).  A `*` takes a word and a run of digits gives its number
  (`StarRead`, `NumberRead`); what may follow each part is not taken for more of
  it (`EndersFollow`).
- *The format.*  Texts, words and stores of the pieces, one behind the other
  (`TextsAre`, `AfterIs`, `StoredIs`, `PlaceOf`), and a step from one piece to the
  next (`TextStep`, `PieceStep`).

Then the screen, with `ScreenAssumption` besides: a column has more than 5 cells
(64 in the code), the longest text of `main`, 15 of the model's characters, is
shorter than `tmp` and than any size printf knows (29 of 64 in the code), a word
of the count has at most 6 hexadecimal digits (4), the flag of the link one, for
it is 0 or 1, and its four numbers, each a `uint8_t`, two.

| theorem | states | argument |
|---|---|---|
| `ScreenShows` | `Spec => []Shown` | the invariant `ScreenInv`, with `ParserInv` for what a call has put and `GadgetInv` for where it put it |

`Shown` spans a round: a word read, a blank, another word read, a call of printf
step by step, and what is found in the buffer afterwards.  `ScreenInv` keeps, for
each of these places, what the next one needs:

- `HalfRead`: the word in hand is the word of a count the round could see;
  whichever word it is, the low word of the number made of it is the low word of
  such a count (`PrintCountScreen`).  The whole number need not be one.
- `Called`: the call under way has the pieces of `main`; they fit (`MainTexts`), so
  that `Standard` says what they print, of visible characters alone, as many
  in every round (`CountText`, `StatusText`: `HexText` counts the digits, `HexFits`
  finds room for them).  This is where `ScreenAssumption` is needed: a wider
  number would leave its last character on the screen.
- `Buffered`: when the call has returned, the buffer holds its text and was closed.
  `Terminated` then has the NUL behind it, and what `draw_pf_text` reads is the text
  (`ReadBack`).
- `Quiet`: nothing of a number is left to be put between two calls, so that printf
  returns nowhere but at its end (`Ends`).
- `Rows`: no cell of a line is ever outside the cells of its text (`NoBreaks`,
  `RowsDrawn`: the rows are apart, a text of visible characters stays in its own),
  and after it was drawn the line is that text.

TLC checked `ScreenInv` as an invariant on the instance of the run `text` first.

Only model-checked: the refinement `ArchitectureSpec`, the ALU and the execution unit (`MCDatapath`), the whole core
(`LockHeld` of `V33`): both reach `Bitwise`; of the decoder, that no two entries of the same precedence overlap (`Unambiguous`), a statement
about the table alone that TLC enumerates completely.  Out of TLAPS's reach and
left to TLC: liveness under fairness (`EveryoneServed`, `Progress`, `Answered`,
`Served`, `HeaderEnds`, `CallsEnd`, `WaitEnds`).

## 8. Findings

Each is a run that TLC ends with a counterexample of one property, which states
what a comment or description in the repository says.

| run | the repository says | the code does |
|---|---|---|
| `decode_ins` (`InsRegReg`) | `opcodes.yaml:1055`: "INS reg8, reg8" | the entry's `op` is EXT: 0F 31 with two registers extracts |
| `divide_signed` (`SignedResultFits`) | `nec_divider.sv:9-10`, 93: "overflow detection", "signed support", "result overflowed" | a signed quotient in the upper half of the unsigned range is no overflow and comes back with the wrong sign |
| `exec_loads` (`AllIterations`) | `tests/80186/rep.asm:228`: "all iterations" | REP LDM counts the next element with this one: an interrupt between them restarts the instruction one element short |

Differences seen while modelling that have no run of their own; the models follow
the code.  In the core:

- `bus_control_unit.sv:51` says that the queue's inputs are "only read on ce1";
  `pfp_set` and `ipq_head` are read on both edges, and jumps do come on `ce_2`.
- `nec_divider.sv:18` says that `done` is "high for one tick"; it stays until the
  next start, and the execution unit relies on that.
- ADJBS takes its borrow from bit 7 up (`alu.sv:225`), so it does not reach AH when
  bit 7 is set; the recorded run of the reference emulator has AH decrease
  (`tests/80186/mame_traces/bcdcnv_186.tr:31-32`).
- SUB4S and CMP4S correct the low digit of a difference as ADD4S does that of a
  sum (`v33.sv:1397`); a bit field that crosses a byte loses its upper bits
  (`v33.sv:1449`).
- BUSLOCK before an instruction that only writes: the instruction may leave the
  execution unit while its write waits, and its lock with it (`v33.sv:695`).
- A far jump overtakes an access through `PS:` that waits (section 4).
- PREPARE with a nesting level of two or more stores the addresses BP-2, BP-4, …
  themselves where the frame pointers that lie there would be copied
  (`v33.sv:1304-1312`); nothing in the repository says which is meant.
- HALT does not stop (`v33.sv:855`; a TODO at line 67).

In the link and the command loop:

- A session that ends and begins again between two reads of the program is not
  noticed: its numbers no longer fit the host's (`torn`).  A `comms_write` that
  waits then waits until the host leaves again.
- A header that is cut short (`main.c:71`) waits for the rest of its ten bytes and
  takes them from the next session; a command cut short keeps its payload too.
- A WRITE_WORDS of an odd number of bytes never ends (`main.c:124`); READ and
  READ_WORDS with a payload answer again in every round, since nothing consumes
  it (`main.c:138`); their length goes through an int (`main.c:132`).
- The offset of a WRITE in pieces is added to the whole far pointer
  (`main.c:111`), so that it carries into the segment, while within a piece it
  wraps.

In printf and the display:

- A format that ends in a flag or a digit is read behind its NUL (`printf.c:1343`),
  contrary to the comment at line 126.
- `%ll`, `%z`, `%t` and `%j` print nothing and take no argument in this build
  (`printf.c:1137-1147`, 1194).
- A negative precision given by `*` counts as 0 (`printf.c:1088`); a binary zero
  with a precision and `#` gets the prefix `0b`; numbers wider than 32 characters
  with zeros lose sign or prefix (`printf.c:468`); the count wraps at 2^16
  (`printf.c:324`).
- `"%06X"` prints the low word of the 32 bit count (`main.c:288`, 307).
- A line break draws on in the same row, one column to the right (`main.c:241`).

## 9. What is not modelled

- Exact delays: `op_delay`, `exec_delay` and the ALU's are any number of edges.
  This is more behaviours than the core has; cycle counts are not a property.
- `hldrq`/`hldak`, `bs16`, HALT_ACK, NMI and poll: ports or names without code.
- The status pins `m_io`, `r_w`, `busst`, which are functions of `cycle_type`.
- The branches of `ONE_CYCLE_DECODE_DELAY`, `FULL_OPERAND_FETCH`,
  `OPERAND_DECODE_DELAY` and `BRANCH_BLOCK_PREFETCH`, which the default build
  does not compile.
- The divider inside `V33`: it answers at any time there.  Its own system checks
  what it answers.
- In the test ROM: the start-up code and the empty default handlers, the palette,
  floating point and `long long` in printf (`testrom/Makefile:25-27` leaves them
  out), and the words of the texts, which are one character each.  `vram` and
  memory of the commands are separate; a command may overwrite the program
  itself, which nothing could be said about.
- The benches beyond their memory: main functions, traces, and the bench of the
  bus control unit alone.
- Scripts, recordings, test programs: no state or concurrency.
