---------------------------- MODULE PipelineCore ----------------------------
(***************************************************************************)
(* The five-stage rv64 pipeline of src/IP/rv64/linux_cpu: fetch, decode,   *)
(* execute, memory and write back, with operand forwarding, one-cycle      *)
(* load-use stalls and branches resolved in execute (not-taken predicted). *)
(*                                                                         *)
(* The registers between the stages are the records F, D, E, M and W; a    *)
(* record holds what the registers of that stage hold after a rising edge. *)
(* The wires of decode, execute, memory, write_back and ctrl are operators *)
(* over those records, and an edge computes every record from the previous *)
(* ones at once.  The instruction memory is a parameter of the edge: this  *)
(* module clocks the core with an ideal one, CachedCpu with the icache.    *)
(***************************************************************************)
EXTENDS RvIsa

VARIABLES
    rst,    \* the reset line
    imem,   \* the program, which never changes
    pc,     \* regF: the pc register of pc.v
    F,      \* fetch_o_pc, commit and icache_o_instr of fetch.v
    D,      \* regD_o_*
    E,      \* regE_o_*
    M,      \* regM_o_*
    W,      \* regW_o_*
    regs,   \* regfile.v's register file
    dmem    \* the simulator's data memory

stages == <<pc, F, D, E, M, W, regs, dmem>>
vars == <<rst, imem, stages>>

\* The commit_info vector {commit, instr, pre_pc, pc} that travels down the
\* pipeline with an instruction, and the vectors each stage's registers hold.
CommitInfo == [commit : BOOLEAN, instr : Instr, pre : Word, pc : Word]
RegF == [commit : BOOLEAN, pc : Word, instr : Instr]
RegD == [pc : Word, instr : Instr, ci : CommitInfo]
RegE == [cls : Class, fn : Fn, a : Word, b : Word, imm : Word, pc : Word,
         rd : Reg, wen : BOOLEAN, ci : CommitInfo]
RegM == [cls : Class, fn : Fn, b : Word, alu : Word, pc : Word, rd : Reg,
         wen : BOOLEAN, ci : CommitInfo]
RegW == [cls : Class, mdata : Word, alu : Word, pc : Word, rd : Reg,
         wen : BOOLEAN, ci : CommitInfo]

\* What a reset or a bubble leaves in each of them.
NoCommit == [commit |-> FALSE, instr |-> ZeroInstr, pre |-> 0, pc |-> 0]
BubbleF == [commit |-> FALSE, pc |-> 0, instr |-> ZeroInstr]
BubbleD == [pc |-> 0, instr |-> ZeroInstr, ci |-> NoCommit]
\* regE.v does not clear regE_o_imm.
BubbleE(imm) == [cls |-> "none", fn |-> "none", a |-> 0, b |-> 0, imm |-> imm,
                 pc |-> 0, rd |-> 0, wen |-> FALSE, ci |-> NoCommit]
BubbleM == [cls |-> "none", fn |-> "none", b |-> 0, alu |-> 0, pc |-> 0,
            rd |-> 0, wen |-> FALSE, ci |-> NoCommit]
BubbleW == [cls |-> "none", mdata |-> 0, alu |-> 0, pc |-> 0, rd |-> 0,
            wen |-> FALSE, ci |-> NoCommit]

-----------------------------------------------------------------------------
(* execute.v *)

\* execute_o_alu_result
AluResult ==
    CASE E.cls = "lui"   -> E.imm
      [] E.cls = "auipc" -> Add(E.pc, E.imm)
      [] E.cls \in {"branch", "jal"}           -> Add(E.pc, E.imm)
      [] E.cls \in {"store", "load", "jalr"}   -> Add(E.a, E.imm)
      [] E.cls = "op"    -> Alu[<<E.fn, E.a, E.b>>]
      [] E.cls = "opimm" -> Alu[<<E.fn, E.a, E.imm>>]
      [] OTHER           -> 0

\* execute_o_need_jump
NeedJump ==
    \/ E.cls = "branch" /\ Taken[<<E.fn, E.a, E.b>>]
    \/ E.cls \in {"jal", "jalr"}

\* execute_o_jump_pc, where it is used
JumpPc == IF E.cls = "jalr" THEN ClearBit0(AluResult) ELSE AluResult

\* (Mutant: the pre_pc that fetch assumed goes down the pipeline.)
ExecuteCommitAsFetched == E.ci
\* execute_o_commit_info: a jump replaces the pre_pc that fetch assumed.
ExecuteCommit == IF NeedJump THEN [E.ci EXCEPT !.pre = JumpPc] ELSE E.ci

-----------------------------------------------------------------------------
(* memory.v and write_back.v *)

\* memory_o_memdata
MemData ==
    IF M.cls = "load" THEN LoadExt[<<M.fn, DpiMemRead(dmem, M.alu)>>] ELSE 0

\* The store port, clocked whether or not rst is high.
StoredMem ==
    IF M.cls = "store" THEN DpiMemWrite(dmem, M.fn, M.alu, M.b) ELSE dmem

\* write_back_o_data
WriteBackData ==
    CASE W.cls \in {"jal", "jalr"} -> Add(W.pc, 4)
      [] W.cls = "load"            -> W.mdata
      [] OTHER                     -> W.alu

\* regfile.v's write port
WrittenRegs ==
    IF W.wen /\ W.rd # 0 THEN [regs EXCEPT ![W.rd] = WriteBackData] ELSE regs

-----------------------------------------------------------------------------
(* decode.v *)

\* decode_o_reg_wen
RegWen(cls) ==
    cls \in {"load", "jalr", "opimm", "lui", "auipc", "op", "jal"}

\* regM_sel_alu_result and regW_sel_alu_result
SelAluResult(cls) == cls \in {"branch", "op", "opimm", "lui", "auipc"}

\* Whether the instruction in a later stage writes register r.
\* (Mutant: register 0 forwards like any other.)
ForwardsZero(S, r) == S.wen /\ S.rd = r
Forwards(S, r) == S.rd # 0 /\ S.wen /\ S.rd = r

\* decode_o_regdata1 and decode_o_regdata2: the youngest older instruction
\* that writes register r forwards its result, as far as its stage has it.
Operand(r) ==
    IF Forwards(E, r) THEN AluResult
    ELSE IF Forwards(M, r) /\ SelAluResult(M.cls) THEN M.alu
    ELSE IF Forwards(M, r) /\ M.cls = "load" THEN MemData
    ELSE IF Forwards(W, r) /\ SelAluResult(W.cls) THEN W.alu
    ELSE IF Forwards(W, r) /\ W.cls = "load" THEN W.mdata
    ELSE IF Forwards(W, r) /\ W.cls \in {"jal", "jalr"} THEN Add(W.pc, 4)
    ELSE IF r = 0 THEN 0 ELSE regs[r]

-----------------------------------------------------------------------------
(* ctrl.v *)

\* (Mutants: only rs1 is compared; the load is looked for in decode; an ebreak
\* waits in decode for the pipeline to drain and nothing releases it.)
LoadUseRs1 == E.cls = "load" /\ E.rd = D.instr.rs1
LoadUseOfDecode == D.instr.cls = "load" /\ E.rd \in {D.instr.rs1, D.instr.rs2}
LoadUseHoldsEbreak ==
    \/ E.cls = "load" /\ E.rd \in {D.instr.rs1, D.instr.rs2}
    \/ D.instr.cls = "ebreak"
\* load_use: it looks at the rs1 and rs2 bits of whatever is in decode.
LoadUse == E.cls = "load" /\ E.rd \in {D.instr.rs1, D.instr.rs2}

\* fetch_bubble and regD_bubble; pc, fetch and regD stall on load_use, regM and
\* regW neither stall nor bubble.
BranchBubble == NeedJump

\* regE_bubble (Mutant: a load-use stall leaves regE alone.)
RegEBubbleOnJump == BranchBubble
RegEBubble == BranchBubble \/ LoadUse

-----------------------------------------------------------------------------
(* The registered stages: the value each takes at an edge with rst low. *)

\* pc.v: a stall holds the pc, otherwise a jump redirects it.
\* (Mutant: the pc runs on in a stall.)
NextPcNoStall == IF NeedJump THEN JumpPc ELSE Add(pc, 4)
NextPc == IF LoadUse THEN pc ELSE IF NeedJump THEN JumpPc ELSE Add(pc, 4)

\* fetch.v, with the word that the instruction memory delivers.
NextF(instr) ==
    IF BranchBubble THEN BubbleF
    ELSE IF LoadUse THEN F
    ELSE [commit |-> TRUE, pc |-> pc, instr |-> instr]

\* fetch_o_commit_info
FetchCommit ==
    [commit |-> F.commit, instr |-> F.instr, pre |-> Add(F.pc, 4), pc |-> F.pc]

\* regD.v (Mutant: the instruction fetched behind a jump is decoded.)
NextDKept ==
    IF LoadUse THEN D ELSE [pc |-> F.pc, instr |-> F.instr, ci |-> FetchCommit]
NextD ==
    IF BranchBubble THEN BubbleD
    ELSE IF LoadUse THEN D
    ELSE [pc |-> F.pc, instr |-> F.instr, ci |-> FetchCommit]

\* regE.v, with what decode.v makes of the instruction in regD.
\* (Mutant: a bubble clears the commit bit and nothing else.)
NextEKept ==
    IF RegEBubble
    THEN [E EXCEPT !.ci = NoCommit]
    ELSE [cls |-> D.instr.cls, fn |-> D.instr.fn, a |-> Operand(D.instr.rs1),
          b |-> Operand(D.instr.rs2), imm |-> D.instr.imm, pc |-> D.pc,
          rd |-> D.instr.rd, wen |-> RegWen(D.instr.cls), ci |-> D.ci]
NextE ==
    IF RegEBubble
    THEN BubbleE(E.imm)
    ELSE [cls |-> D.instr.cls, fn |-> D.instr.fn, a |-> Operand(D.instr.rs1),
          b |-> Operand(D.instr.rs2), imm |-> D.instr.imm, pc |-> D.pc,
          rd |-> D.instr.rd, wen |-> RegWen(D.instr.cls), ci |-> D.ci]

\* regM.v
NextM == [cls |-> E.cls, fn |-> E.fn, b |-> E.b, alu |-> AluResult, pc |-> E.pc,
          rd |-> E.rd, wen |-> E.wen, ci |-> ExecuteCommit]

\* regW.v
NextW == [cls |-> M.cls, mdata |-> MemData, alu |-> M.alu, pc |-> M.pc,
          rd |-> M.rd, wen |-> M.wen, ci |-> M.ci]

-----------------------------------------------------------------------------
\* Power on: regfile.v initialises its registers, every other register
\* starts at 0 in the build, and npc_reset has raised the reset line.
InitCore ==
    /\ rst = TRUE
    /\ imem \in Programs
    /\ pc = 0
    /\ F = BubbleF
    /\ D = BubbleD
    /\ E = BubbleE(0)
    /\ M = BubbleM
    /\ W = BubbleW
    /\ regs = InitRegs
    /\ dmem = InitMem

\* The one clock npc_reset(1) runs with the reset line high.
ResetClock ==
    /\ rst
    /\ rst' = FALSE
    /\ pc' = ResetPc
    /\ F' = BubbleF
    /\ D' = BubbleD
    /\ E' = BubbleE(E.imm)
    /\ M' = BubbleM
    /\ W' = BubbleW
    /\ regs' = [regs EXCEPT ![0] = 0]
    /\ dmem' = StoredMem
    /\ UNCHANGED imem

\* A rising edge with rst low, the instruction memory delivering instr.
Edge(instr) ==
    /\ ~rst
    /\ pc' = NextPc
    /\ F' = NextF(instr)
    /\ D' = NextD
    /\ E' = NextE
    /\ M' = NextM
    /\ W' = NextW
    /\ regs' = WrittenRegs
    /\ dmem' = StoredMem
    /\ UNCHANGED <<rst, imem>>

\* The core with an ideal instruction memory, which delivers the word at pc.
Clock == Edge(InstrAt(imem, pc))

Init == InitCore
Next == ResetClock \/ Clock

Spec == Init /\ [][Next]_vars /\ WF_vars(Next)
=============================================================================
