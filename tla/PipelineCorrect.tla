-------------------------- MODULE PipelineCorrect --------------------------
(***************************************************************************)
(* What the pipeline of PipelineCore promises: it behaves as the           *)
(* sequential machine SingleCycleCpu, one step of which is one instruction *)
(* leaving the memory stage.                                               *)
(***************************************************************************)
EXTENDS PipelineCore

CONSTANTS CsrAddr, MstatusReset

\* decode.v gives the system instructions no effect, so the two machines
\* agree only on programs that have none of those the rv32 core executes.
ASSUME NoSystemAssumption ==
    \A prog \in Programs : \A a \in DOMAIN prog :
        prog[a].cls \notin {"csrrw", "csrrs", "ecall", "mret"}

-----------------------------------------------------------------------------
\* The address of the oldest instruction that has not entered the memory
\* stage, and of the oldest that has not left it.
PendingPc ==
    IF E.ci.commit THEN E.ci.pc
    ELSE IF D.ci.commit THEN D.ci.pc
    ELSE IF F.commit THEN F.pc
    ELSE pc
ArchPc == IF M.ci.commit THEN M.ci.pc ELSE PendingPc

\* The registers as the instructions that have left the memory stage leave
\* them: the write of the one in write back counts as done.
ArchRegs == WrittenRegs

\* What the instruction in the memory stage is about to write, and the
\* registers as it leaves them.
MemResult ==
    IF M.cls \in {"jal", "jalr"} THEN Add(M.pc, 4)
    ELSE IF M.cls = "load" THEN MemData
    ELSE M.alu
PendingRegs ==
    IF M.wen /\ M.rd # 0 THEN [ArchRegs EXCEPT ![M.rd] = MemResult] ELSE ArchRegs

\* The sequential machine that runs underneath, whose CSRs only the reset
\* changes.
SeqCsr == [c \in {"mstatus", "mtvec", "mepc", "mcause"} |->
              IF c = "mstatus" /\ ~rst THEN MstatusReset ELSE 0]
Seq == INSTANCE SingleCycleCpu WITH pc <- ArchPc, regs <- ArchRegs, csr <- SeqCsr

-----------------------------------------------------------------------------
\* The pipeline's variables keep their types: no stage register is ever read
\* as something it does not hold.
TypeOK ==
    /\ rst \in BOOLEAN
    /\ imem \in Programs
    /\ pc \in Word
    /\ F \in RegF
    /\ D \in RegD
    /\ E \in RegE
    /\ M \in RegM
    /\ W \in RegW
    /\ regs \in [Reg -> Word]
    /\ dmem \in [Word -> Word]

\* The pipeline implements the sequential machine: forwarding (decode.v),
\* the load-use stall and the branch bubbles (ctrl.v) hide the overlap of
\* instructions completely.
RefinesSequential == Seq!Spec

\* What the simulator's difftest_step compares after each commit: the pre_pc
\* committed by the instruction in write back is the address of the next
\* instruction to be executed, across branch bubbles and load-use stalls.
CommitPrePcIsNext == W.ci.commit => W.ci.pre = ArchPc

\* An instruction in execute holds in its operand registers what the older
\* instructions still in flight will have left in the register file: the
\* forwarding network missed none of them, and picked the youngest.
OperandsAreArchitectural ==
    E.ci.commit => /\ E.a = PendingRegs[E.ci.instr.rs1]
                   /\ E.b = PendingRegs[E.ci.instr.rs2]

\* A bubble changes nothing: what is in a stage without its commit bit
\* neither writes a register or the memory nor redirects the pc.
BubblesAreInert ==
    /\ ~E.ci.commit => ~NeedJump /\ ~E.wen /\ E.cls # "store" /\ ~LoadUse
    /\ ~M.ci.commit => StoredMem = dmem /\ ~M.wen
    /\ ~W.ci.commit => WrittenRegs = regs

\* Instructions sit in the stages in program order without a gap that a
\* fetch could have filled, and what follows the instruction in the memory
\* stage, behind any bubbles, is the one its pre_pc names.
InProgramOrder ==
    /\ F.commit => pc = Add(F.pc, 4)
    /\ D.ci.commit => F.commit /\ F.pc = D.ci.pre
    /\ E.ci.commit => D.ci.commit /\ D.ci.pc = E.ci.pre
    /\ M.ci.commit => M.ci.pre = PendingPc

\* Each stage's control bits are those of the instruction whose commit_info
\* it carries, and that instruction is the one at its pc.
FetchHoldsItsInstr ==
    F.instr = IF F.commit THEN InstrAt(imem, F.pc) ELSE ZeroInstr
DecodeHoldsItsInstr ==
    /\ D.ci.instr = D.instr /\ D.ci.pc = D.pc
    /\ D.instr = IF D.ci.commit THEN InstrAt(imem, D.pc) ELSE ZeroInstr
    /\ D.ci.commit => D.ci.pre = Add(D.pc, 4)
ExecuteHoldsItsInstr ==
    /\ E.wen = RegWen(E.cls)
    /\ ~E.ci.commit => E.cls = "none"
    /\ E.ci.commit =>
          /\ E.ci.instr = InstrAt(imem, E.pc) /\ E.ci.pc = E.pc
          /\ E.ci.pre = Add(E.pc, 4)
          /\ E.cls = E.ci.instr.cls /\ E.fn = E.ci.instr.fn
          /\ E.imm = E.ci.instr.imm /\ E.rd = E.ci.instr.rd
MemoryHoldsItsInstr ==
    /\ M.wen = RegWen(M.cls)
    /\ ~M.ci.commit => M.cls = "none"
    /\ M.ci.commit =>
          /\ M.ci.instr = InstrAt(imem, M.pc) /\ M.ci.pc = M.pc
          /\ M.cls = M.ci.instr.cls /\ M.fn = M.ci.instr.fn
          /\ M.rd = M.ci.instr.rd
WriteBackHoldsItsInstr ==
    /\ W.wen = RegWen(W.cls)
    /\ ~W.ci.commit => W.cls = "none"
StagesHoldTheirInstructions ==
    /\ FetchHoldsItsInstr
    /\ DecodeHoldsItsInstr
    /\ ExecuteHoldsItsInstr
    /\ MemoryHoldsItsInstr
    /\ WriteBackHoldsItsInstr

\* The instruction in the memory stage carries what the sequential machine
\* computes for it from the registers its predecessors leave: the address or
\* result, the data to store and the address of its successor.
MemoryStageIsSequential ==
    M.ci.commit =>
        /\ M.cls \in {"lui", "auipc", "op", "opimm", "load", "store"}
              => M.alu = Seq!ValE
        /\ M.b = Seq!ValB
        /\ M.ci.pre = Seq!NextPc

\* Only bubbles follow a jal or jalr into the stages before it: decode.v has
\* no path that forwards a link address from the memory stage, and needs none.
NothingBehindALink ==
    M.cls \in {"jal", "jalr"} => ~E.ci.commit /\ ~D.ci.commit /\ ~F.commit

\* Before the reset clock there is nothing in the stages.
NothingInReset ==
    rst => /\ pc = 0
           /\ ~F.commit /\ ~D.ci.commit /\ ~E.ci.commit /\ ~M.ci.commit
           /\ ~W.ci.commit

\* The invariant that makes all of these inductive.
PipelineInv ==
    /\ TypeOK
    /\ regs[0] = 0
    /\ NothingInReset
    /\ StagesHoldTheirInstructions
    /\ InProgramOrder
    /\ NothingBehindALink
    /\ OperandsAreArchitectural
    /\ MemoryStageIsSequential
    /\ CommitPrePcIsNext

\* A load-use stall lasts one clock: the load leaves execute and its result
\* is forwarded from the memory stage, so the stall can never hold itself.
StallLastsOneClock == [][~rst /\ LoadUse => ~LoadUse']_vars

\* The simulator's loop while (dut.commit != 1) ends each time it is
\* entered: whatever the program, an instruction commits again and again.
CommitsForever == []<>(W.ci.commit)
=============================================================================
