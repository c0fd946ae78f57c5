--------------------------- MODULE ExecutionUnit ---------------------------
(* The sequencer of the execution unit (hdl/v33.sv): accept an instruction, *)
(* fetch its memory operands, push, pop, branch, execute, store, and take   *)
(* interrupts.  One step is one clock edge on which ce_1 (phase 1) or ce_2  *)
(* is high.                                                                 *)
(*                                                                          *)
(* Inputs: ready (dp_ready), din (dp_din), n_buslock, valid, next_decode    *)
(* and cur_pc of the decoder, div_done, the interrupt pin intreq, and       *)
(* intack with the vector of the bus control unit.                          *)
EXTENDS Execute

VARIABLE phase   \* an input, the clock's

(* Bits of push_list and pop_list, from 0 up. *)
StackBits == <<"AW", "CW", "DW", "BW", "SP", "SKIP_SP", "BP", "IX", "IY",
               "DS1", "PSW", "PS", "SS", "DS0", "PC", "OPERAND">>
Listed(list) == {i \in 1 .. 16 : StackBits[i] \in list}
FirstPushed(list) == StackBits[Min(Listed(list))]
FirstPopped(list) == StackBits[Max(Listed(list))]

Same == SameProgram /\ UNCHANGED t
Goto(s) == state' = s

(* An edge on which the state waits. *)
Wait == UNCHANGED state /\ Same /\ NoRequest /\ NoJump

-----------------------------------------------------------------------------
(* IDLE *)
Cleared == [exec_stage |-> 0, delayed |-> FALSE, shift_count |-> 0, use_alu_result |-> FALSE]

(* What the instruction needs next.  POP starts its first read at once when *)
(* the port is free.                                                        *)
Dispatch(d, ready) ==
  CASE d.mem_read /\ d.opcode # "LDEA" -> "FETCH_OPERAND"
    [] OTHER ->
       CASE d.push # {} -> "PUSH"
         [] d.push = {} /\ d.pop # {} -> IF ready THEN "POP_WAIT" ELSE "POP"
         [] d.push = {} /\ d.pop = {} -> IF d.opclass = "BRANCH" THEN "BRANCHING" ELSE "EXECUTE"

ReadStack ==
  /\ ReadMemory(regs.SP, "SS", "WORD", FALSE)
  /\ regs' = [regs EXCEPT !.SP = Word(@ + 2)]

Accept(d, cur_pc, ready, din) ==
  /\ Goto(Dispatch(d, ready))
  /\ decoded' = d
  /\ set_pc' = FALSE /\ next_pc' = cur_pc
  /\ Set([push_sp_save |-> regs.SP, push_list |-> d.push, pop_list |-> d.pop,
          calculated_ea |-> CalcEa(d, regs)] @@ LoadOperands(d, din) @@ Cleared)
  /\ IF Dispatch(d, ready) = "POP_WAIT" THEN ReadStack ELSE NoRequest /\ UNCHANGED regs
  /\ UNCHANGED <<sregs, flags>>

TakeInterrupt == Goto("INT_ACK_WAIT") /\ Set(Cleared) /\ NoRequest /\ NoJump /\ SameProgram

IdleWait == UNCHANGED state /\ Set(Cleared) /\ NoRequest /\ NoJump /\ SameProgram

(* Mutant of Idle: does not wait for the last access under the lock. *)
IdleAtOnce(d, cur_pc, valid, ready, n_buslock, intreq, din) ==
  IF phase = 2 THEN Wait
  ELSE IF intreq /\ flags.IE = 1 THEN TakeInterrupt
  ELSE IF valid THEN Accept(d, cur_pc, ready, din)
  ELSE IdleWait

Idle(d, cur_pc, valid, ready, n_buslock, intreq, din) ==
  IF phase = 2 THEN Wait
  ELSE IF ~(n_buslock \/ ready) THEN IdleWait
  ELSE IF intreq /\ flags.IE = 1 THEN TakeInterrupt
  ELSE IF valid THEN Accept(d, cur_pc, ready, din)
  ELSE IdleWait

(* Memory operands.  A second word, of a far address, goes to TB. *)
AfterOperand(stall) ==
  CASE t.push_list # {} -> "PUSH"
    [] t.push_list = {} /\ t.pop_list # {} -> "POP"
    [] OTHER -> IF decoded.opclass = "BRANCH" THEN "BRANCHING"
                ELSE IF stall THEN "EXECUTE_STALL" ELSE "EXECUTE"

FetchOperand ==
  /\ ReadMemory(t.calculated_ea, decoded.segment, decoded.width, decoded.io)
  /\ Goto("WAIT_OPERAND1") /\ NoJump /\ Same

WaitOperand1(din) ==
  /\ Set(LoadOperands(decoded, din))
  /\ IF decoded.width = "DWORD"
     THEN /\ ReadMemory(t.calculated_ea + 2, decoded.segment, "WORD", FALSE)
          /\ Goto("WAIT_OPERAND2")
     ELSE NoRequest /\ Goto(AfterOperand(decoded.opcode # "MOV"))
  /\ NoJump /\ SameProgram

WaitOperand2(din) ==
  /\ Set([tb |-> din]) /\ Goto(AfterOperand(FALSE))
  /\ NoRequest /\ NoJump /\ SameProgram

-----------------------------------------------------------------------------
(* BRANCHING *)
Relative(offset) == Word(decoded.end_pc + offset)

Takes(cond, offset) ==
  IF cond THEN Goto("IDLE") /\ JumpTo(Relative(offset)) ELSE Goto("EXECUTE") /\ NoJump

(* DBNZNE, DBNZE, DBNZ, BCWZ *)
CountBranch ==
  LET left == Word(regs.CW - 1)
  IN  IF decoded.cond = 3 THEN Takes(regs.CW = 0, t.ta) /\ UNCHANGED regs
      ELSE /\ regs' = [regs EXCEPT !.CW = left]
           /\ Takes(left # 0 /\ CASE decoded.cond = 0 -> flags.Z = 0
                                  [] decoded.cond = 1 -> flags.Z = 1
                                  [] decoded.cond = 2 -> TRUE, t.ta)

Absolute ==
  LET immediate == decoded.source0 = "IMM"
      far == decoded.width = "DWORD"
  IN  /\ JumpTo(IF immediate /\ far THEN Imm(decoded) ELSE t.ta)
      /\ sregs' = IF far THEN [sregs EXCEPT !.PS = IF immediate THEN Imm2(decoded) ELSE t.tb]
                  ELSE sregs

Branching ==
  /\ CASE Is({"B_COND"}) ->
            /\ Takes(Condition(decoded.cond, flags), SignExtend(decoded.imm[1]))
            /\ UNCHANGED <<regs, sregs>>
       [] Is({"B_CW_COND"}) -> CountBranch /\ UNCHANGED sregs
       [] Is({"BR_REL"}) -> Goto("IDLE") /\ JumpTo(Relative(t.ta)) /\ UNCHANGED <<regs, sregs>>
       [] Is({"BR_ABS"}) -> Goto("IDLE") /\ Absolute /\ UNCHANGED regs
       [] Is({"RET"})    -> Goto("IDLE") /\ JumpTo(next_pc) /\ UNCHANGED <<regs, sregs>>
       [] Is({"RET_POP_VALUE"}) ->
            /\ Goto("IDLE") /\ JumpTo(next_pc)
            /\ regs' = [regs EXCEPT !.SP = Word(@ + t.ta)] /\ UNCHANGED sregs
  /\ NoRequest /\ UNCHANGED <<flags, decoded, t>>

-----------------------------------------------------------------------------
(* Interrupts: vector, PSW, PS and PC to the stack, new PC and PS. *)
IntAckWait(vector) ==
  /\ Set([interrupt_vector |-> vector]) /\ Goto("INT_INITIATE")
  /\ NoRequest /\ NoJump /\ SameProgram

IntInitiate ==
  /\ Set([push_list |-> {"PC", "PS", "PSW"}, int_processing |-> TRUE]) /\ Goto("PUSH")
  /\ NoRequest /\ NoJump /\ SameProgram

IntFetchVec ==
  /\ flags' = [flags EXCEPT !.IE = 0, !.BRK = 0]
  /\ ReadVector(4 * t.interrupt_vector) /\ Goto("INT_FETCH_WAIT1")
  /\ NoJump /\ UNCHANGED <<regs, sregs, decoded, t>>

IntFetchWait1(din) ==
  /\ set_pc' = FALSE /\ next_pc' = din
  /\ Request([addr |-> (4 * t.interrupt_vector) + 2]) /\ Goto("INT_FETCH_WAIT2")
  /\ Same

IntFetchWait2(din) ==
  /\ sregs' = [sregs EXCEPT !.PS = din] /\ JumpTo(next_pc)
  /\ Set([int_processing |-> FALSE]) /\ Goto("IDLE")
  /\ NoRequest /\ UNCHANGED <<regs, flags, decoded>>

-----------------------------------------------------------------------------
(* PUSH: the lowest bit of the list goes first. *)
AfterPush ==
  IF t.int_processing THEN "INT_FETCH_VEC"
  ELSE IF Is({"PUSH"}) THEN "IDLE"
  ELSE IF decoded.opclass = "BRANCH" THEN "BRANCHING" ELSE "EXECUTE"

Push(ready) ==
  /\ IF t.push_list = {} THEN Goto(AfterPush) /\ UNCHANGED regs
     ELSE /\ ready /\ Goto("PUSH_WRITE")
          /\ regs' = [regs EXCEPT !.SP = Below]
  /\ NoRequest /\ NoJump /\ UNCHANGED <<sregs, flags, decoded, t>>

PushData(name) ==
  CASE name \in {"SP", "SKIP_SP"} -> t.push_sp_save
    [] name = "PSW" -> Psw(flags)
    [] name = "PC" -> next_pc
    [] name = "OPERAND" -> t.ta
    [] name \in DOMAIN sregs -> sregs[name]
    [] OTHER -> regs[name]

PushWrite ==
  LET name == FirstPushed(t.push_list)
  IN  /\ WriteMemory(regs.SP, "SS", "WORD", PushData(name), FALSE)
      /\ Set([push_list |-> t.push_list \ {name}]) /\ Goto("PUSH")
      /\ NoJump /\ SameProgram

(* POP: the highest bit goes first. *)
Pop == ReadStack /\ Goto("POP_WAIT") /\ NoJump /\ UNCHANGED <<sregs, flags, decoded, t>>

PopInto(name, din) ==
  LET toRegister == name = "OPERAND" /\ decoded.mod = 3
  IN  /\ regs' = IF toRegister THEN SetReg(regs, "WORD", decoded.rm, din)
                 ELSE IF name \in DOMAIN regs THEN [regs EXCEPT ![name] = din] ELSE regs
      /\ sregs' = IF name \in DOMAIN sregs THEN [sregs EXCEPT ![name] = din] ELSE sregs
      /\ flags' = IF name = "PSW" THEN SetFlags(flags, DOMAIN PswBits, din) ELSE flags
      /\ next_pc' = IF name = "PC" THEN din ELSE next_pc
      /\ Set([pop_list |-> t.pop_list \ {name},
              pop_store |-> name = "OPERAND" /\ ~toRegister,
              ta |-> IF name = "OPERAND" /\ ~toRegister THEN din ELSE t.ta])

PopWait(din) ==
  /\ PopInto(FirstPopped(t.pop_list), din) /\ Goto("POP_STORE")
  /\ set_pc' = FALSE /\ NoRequest /\ UNCHANGED decoded

PopStore ==
  /\ IF t.pop_store THEN WriteMemory(t.calculated_ea, decoded.segment, "WORD", t.ta, FALSE)
     ELSE NoRequest
  /\ Goto("POP_CHECK") /\ NoJump /\ Same

PopCheck ==
  /\ Goto(IF t.pop_list # {} THEN "POP"
          ELSE IF Is({"POP"}) THEN "IDLE"
          ELSE IF decoded.opclass = "BRANCH" THEN "BRANCHING" ELSE "EXECUTE")
  /\ NoRequest /\ NoJump /\ Same

-----------------------------------------------------------------------------
(* The result, and the flags of the arithmetic unit. *)
Result == IF t.use_alu_result THEN Long(0, AluOut) ELSE Long(t.op_result_high, t.op_result)

StoreRegister ==
  /\ regs' = StoreOperand(decoded, regs, Result)
  /\ IF decoded.dest = "SREG" THEN SetSreg(decoded.sreg, Result.low)
     ELSE UNCHANGED sregs /\ set_pc' = FALSE
  /\ IF t.use_alu_result THEN flags' = AluFlagsOut /\ Set([op_result |-> AluOut])
     ELSE UNCHANGED <<flags, t>>
  /\ Goto(IF decoded.mem_write THEN "STORE_MEMORY" ELSE "IDLE")
  /\ NoRequest /\ UNCHANGED <<next_pc, decoded>>

StoreMemory ==
  /\ WriteMemory(t.calculated_ea, decoded.segment, decoded.width, t.op_result, decoded.io)
  /\ Goto("IDLE") /\ NoJump /\ Same

-----------------------------------------------------------------------------
(* EXECUTE waits for the data port and, after an opcode's delay, for the    *)
(* counter of exec_delay (unless the pin turbo is high).                    *)
ExecuteEdge(din, div_done, intreq) ==
  \/ Opcode(din, div_done, intreq)
  \/ t.delayed /\ Wait

(* States that wait for the data port on ce_1, for ce_1, and for ce_2. *)
AtPort(ready, din, div_done, intreq) ==
  \/ state = "FETCH_OPERAND"   /\ FetchOperand
  \/ state = "WAIT_OPERAND1"   /\ WaitOperand1(din)
  \/ state = "WAIT_OPERAND2"   /\ WaitOperand2(din)
  \/ state = "INT_FETCH_VEC"   /\ IntFetchVec
  \/ state = "INT_FETCH_WAIT1" /\ IntFetchWait1(din)
  \/ state = "INT_FETCH_WAIT2" /\ IntFetchWait2(din)
  \/ state = "EXECUTE"         /\ ExecuteEdge(din, div_done, intreq)
  \/ state = "PUSH_WRITE"      /\ PushWrite
  \/ state = "POP_STORE"       /\ PopStore
  \/ state = "POP_CHECK"       /\ PopCheck
  \/ state = "POP"             /\ Pop
  \/ state = "POP_WAIT"        /\ PopWait(din)
  \/ state = "STORE_MEMORY"    /\ StoreMemory
PortStates ==
  {"FETCH_OPERAND", "WAIT_OPERAND1", "WAIT_OPERAND2", "INT_FETCH_VEC", "INT_FETCH_WAIT1",
   "INT_FETCH_WAIT2", "EXECUTE", "PUSH_WRITE", "POP_STORE", "POP_CHECK", "POP", "POP_WAIT",
   "STORE_MEMORY"}

PortFreeUnchecked(ready) == phase = 1   \* mutant: dp_ready is not looked at
PortFree(ready) == phase = 1 /\ ready

EuEdge(d, cur_pc, valid, ready, din, n_buslock, div_done, intreq, intack, vector) ==
  \/ state = "IDLE" /\ Idle(d, cur_pc, valid, ready, n_buslock, intreq, din)
  \/ state \in PortStates /\ PortFree(ready) /\ AtPort(ready, din, div_done, intreq)
  \/ state \in PortStates /\ ~PortFree(ready) /\ Wait
  \/ state = "PUSH" /\ phase = 1 /\ (t.push_list = {} \/ ready) /\ Push(ready)
  \/ state = "PUSH" /\ ~(phase = 1 /\ (t.push_list = {} \/ ready)) /\ Wait
  \/ state = "INT_ACK_WAIT" /\ phase = 1 /\ intack /\ IntAckWait(vector)
  \/ state = "INT_ACK_WAIT" /\ ~(phase = 1 /\ intack) /\ Wait
  \/ state = "INT_INITIATE" /\ IF phase = 1 THEN IntInitiate ELSE Wait
  \/ state = "EXECUTE_STALL" /\ IF phase = 1 THEN Goto("EXECUTE") /\ Same /\ NoRequest /\ NoJump
                                ELSE Wait
  \/ state = "STORE_DELAY" /\ phase = 1 /\ Goto("STORE_REGISTER") /\ Same /\ NoRequest /\ NoJump
  \/ state = "STORE_DELAY" /\ Wait
  \/ state = "BRANCHING" /\ IF phase = 2 THEN Branching ELSE Wait
  \/ state = "STORE_REGISTER" /\ IF phase = 2 THEN StoreRegister ELSE Wait

(* The decoder is told on the same edge, whether or not an interrupt takes  *)
(* precedence.                                                              *)
RetireOp(valid, ready, n_buslock) == state = "IDLE" /\ valid /\ (n_buslock \/ ready)

(* The other temporaries, the instruction and its lock prefix stay. *)
ResetInternals == [int_processing |-> FALSE, use_alu_result |-> FALSE, halt |-> FALSE]
ResetRegs  == [n \in DOMAIN regs |-> 0]
ResetSregs == [n \in DOMAIN sregs |-> IF n = "PS" THEN 65535 ELSE 0]
ResetFlags == [n \in DOMAIN flags |-> 0]
EuReset ==
  /\ Goto("IDLE")
  /\ regs' = ResetRegs /\ sregs' = ResetSregs /\ flags' = ResetFlags
  /\ JumpTo(0) /\ NoRequest
  /\ Set(ResetInternals) /\ UNCHANGED decoded
=============================================================================
