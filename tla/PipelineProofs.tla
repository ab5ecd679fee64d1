--------------------------- MODULE PipelineProofs ---------------------------
(***************************************************************************)
(* Proofs about the pipeline, for every program, every data path and every *)
(* number of registers and words.                                          *)
(***************************************************************************)
EXTENDS PipelineCorrect, TLAPS

\* The functions the data path is made of return words.
LEMMA AddType ==
  ASSUME NEW a \in Word, NEW b \in Word
  PROVE  Add(a, b) \in Word
  BY SizesAssumption DEF Add, Word

\* The target of a jalr is a word.
LEMMA ClearBit0Type ==
  ASSUME NEW a \in Word
  PROVE  ClearBit0(a) \in Word
  BY SizesAssumption DEF ClearBit0, Word

\* The constants of the design and its bubbles are of their types.
LEMMA ConstantTypes ==
  /\ 0 \in Word /\ 4 % Modulus \in Word /\ 0 \in Reg
  /\ ZeroInstr \in Instr
  /\ NoCommit \in CommitInfo
  /\ BubbleF \in RegF /\ BubbleD \in RegD /\ BubbleM \in RegM /\ BubbleW \in RegW
<1>1. 0 \in Word /\ 0 \in Reg /\ 4 % Modulus \in Word
  BY SizesAssumption DEF Word, Reg
<1>2. ZeroInstr \in Instr
  BY <1>1, SizesAssumption DEF ZeroInstr, Instr, Class
<1>3. NoCommit \in CommitInfo
  BY <1>1, <1>2 DEF NoCommit, CommitInfo
<1>4. BubbleF \in RegF
  BY <1>1, <1>2 DEF BubbleF, RegF
<1>5. BubbleD \in RegD
  BY <1>1, <1>2, <1>3 DEF BubbleD, RegD
<1>6. BubbleM \in RegM
  BY <1>1, <1>3, SizesAssumption DEF BubbleM, RegM, Class
<1>7. BubbleW \in RegW
  BY <1>1, <1>3, SizesAssumption DEF BubbleW, RegW, Class
<1>8. QED
  BY <1>1, <1>2, <1>3, <1>4, <1>5, <1>6, <1>7

\* Whatever is fetched is an instruction.
LEMMA InstrAtType ==
  ASSUME NEW prog \in Programs, NEW a
  PROVE  InstrAt(prog, a) \in Instr
  BY ConstantTypes, PowerOnAssumption DEF InstrAt

\* The address behind a word is a word.
LEMMA AddFour ==
  ASSUME NEW a \in Word
  PROVE  Add(a, 4) \in Word
  BY SizesAssumption DEF Add, Word

\* Execute computes a word and jumps to one.
LEMMA AluResultType ==
  ASSUME E \in RegE
  PROVE  AluResult \in Word /\ JumpPc \in Word
<1>1. E.a \in Word /\ E.b \in Word /\ E.imm \in Word /\ E.pc \in Word /\ E.fn \in Fn
  BY DEF RegE
<1>2. /\ Add(E.pc, E.imm) \in Word
      /\ Add(E.a, E.imm) \in Word
  BY <1>1, AddType
<1>3. /\ Alu[<<E.fn, E.a, E.b>>] \in Word
      /\ Alu[<<E.fn, E.a, E.imm>>] \in Word
  BY <1>1, DataPathAssumption
<1>4. AluResult \in Word
  BY <1>1, <1>2, <1>3, ConstantTypes DEF AluResult
<1>5. QED
  BY <1>4, ClearBit0Type DEF JumpPc

\* A load returns a word.
LEMMA MemDataType ==
  ASSUME M \in RegM, dmem \in [Word -> Word]
  PROVE  MemData \in Word
<1>1. M.alu \in Word /\ M.fn \in Fn
  BY DEF RegM
<1>2. DpiMemRead(dmem, M.alu) \in Word
  BY <1>1, ConstantTypes DEF DpiMemRead
<1>3. QED
  BY <1>1, <1>2, DataPathAssumption, ConstantTypes DEF MemData

\* A store leaves words in memory.
LEMMA StoredMemType ==
  ASSUME M \in RegM, dmem \in [Word -> Word]
  PROVE  StoredMem \in [Word -> Word]
<1>1. M.alu \in Word /\ M.b \in Word /\ M.fn \in Fn
  BY DEF RegM
<1>2. StoreMerge[<<M.fn, dmem[M.alu], M.b>>] \in Word
  BY <1>1, DataPathAssumption
<1>3. QED
  BY <1>1, <1>2 DEF StoredMem, DpiMemWrite

\* Write back writes a word to the register file.
LEMMA WriteBackType ==
  ASSUME W \in RegW, regs \in [Reg -> Word]
  PROVE  WriteBackData \in Word /\ WrittenRegs \in [Reg -> Word]
<1>1. W.alu \in Word /\ W.pc \in Word /\ W.mdata \in Word /\ W.rd \in Reg
  BY DEF RegW
<1>2. WriteBackData \in Word
  BY <1>1, AddFour DEF WriteBackData
<1>3. QED
  BY <1>1, <1>2 DEF WrittenRegs

\* An operand is a word, wherever it is forwarded from.
LEMMA OperandType ==
  ASSUME TypeOK, NEW r \in Reg
  PROVE  Operand(r) \in Word
<1>1. E \in RegE /\ M \in RegM /\ W \in RegW
  BY DEF TypeOK
<1>2. M.alu \in Word /\ W.alu \in Word /\ W.mdata \in Word /\ W.pc \in Word
  BY <1>1 DEF RegM, RegW
<1>3. AluResult \in Word
  BY <1>1, AluResultType
<1>4. MemData \in Word
  BY <1>1, MemDataType DEF TypeOK
<1>5. regs[r] \in Word
  BY DEF TypeOK
<1>6. Add(W.pc, 4) \in Word
  BY <1>2, AddFour
<1>7. QED
  BY <1>2, <1>3, <1>4, <1>5, <1>6, ConstantTypes DEF Operand, Forwards

\* The result in the memory stage and the architectural registers are words.
LEMMA MemResultType ==
  ASSUME TypeOK
  PROVE  MemResult \in Word /\ ArchRegs \in [Reg -> Word] /\ PendingRegs \in [Reg -> Word]
<1>1. M \in RegM /\ M.alu \in Word /\ M.pc \in Word
  BY DEF TypeOK, RegM
<1>2. MemResult \in Word
  BY <1>1, MemDataType, AddFour DEF MemResult, TypeOK
<1>3. ArchRegs \in [Reg -> Word]
  BY WriteBackType DEF ArchRegs, TypeOK
<1>4. QED
  BY <1>2, <1>3 DEF PendingRegs

-----------------------------------------------------------------------------
\* Every stage register keeps its type, whatever is fetched.
LEMMA EdgeType ==
  ASSUME TypeOK, NEW instr \in Instr, Edge(instr)
  PROVE  TypeOK'
<1>1. /\ pc \in Word /\ F \in RegF /\ D \in RegD /\ E \in RegE /\ M \in RegM
      /\ W \in RegW /\ regs \in [Reg -> Word] /\ dmem \in [Word -> Word]
  BY DEF TypeOK
<1>2. F.pc \in Word /\ F.commit \in BOOLEAN /\ F.instr \in Instr
  BY <1>1 DEF RegF
<1>3. D.pc \in Word /\ D.instr \in Instr /\ D.ci \in CommitInfo
  BY <1>1 DEF RegD
<1>4. /\ E.cls \in Class /\ E.fn \in Fn /\ E.b \in Word /\ E.imm \in Word
      /\ E.pc \in Word /\ E.rd \in Reg /\ E.wen \in BOOLEAN /\ E.ci \in CommitInfo
  BY <1>1 DEF RegE
<1>5. /\ M.cls \in Class /\ M.alu \in Word /\ M.pc \in Word /\ M.rd \in Reg
      /\ M.wen \in BOOLEAN /\ M.ci \in CommitInfo
  BY <1>1 DEF RegM
<1>6. AluResult \in Word /\ JumpPc \in Word
  BY <1>1, AluResultType
<1>7. pc' \in Word
  BY <1>1, <1>6, AddFour DEF Edge, NextPc
<1>8. F' \in RegF
  BY <1>1, ConstantTypes DEF Edge, NextF, RegF
<1>9. D' \in RegD
  <2>1. FetchCommit \in CommitInfo
    BY <1>2, AddFour DEF FetchCommit, CommitInfo
  <2>2. [pc |-> F.pc, instr |-> F.instr, ci |-> FetchCommit] \in RegD
    BY <1>2, <2>1 DEF RegD
  <2>3. QED
    BY <1>1, <2>2, ConstantTypes DEF Edge, NextD
<1>10. E' \in RegE
  <2>1. BubbleE(E.imm) \in RegE
    BY <1>4, ConstantTypes, SizesAssumption DEF BubbleE, RegE, Class
  <2>2. /\ D.instr.cls \in Class /\ D.instr.fn \in Fn /\ D.instr.imm \in Word
        /\ D.instr.rd \in Reg /\ D.instr.rs1 \in Reg /\ D.instr.rs2 \in Reg
    BY <1>3 DEF Instr
  <2>3. Operand(D.instr.rs1) \in Word /\ Operand(D.instr.rs2) \in Word
    BY <2>2, OperandType
  <2>4. RegWen(D.instr.cls) \in BOOLEAN
    BY DEF RegWen
  <2>5. QED
    BY <1>3, <2>1, <2>2, <2>3, <2>4 DEF Edge, NextE, RegE
<1>11. M' \in RegM
  <2>1. ExecuteCommit \in CommitInfo
    BY <1>4, <1>6 DEF ExecuteCommit, CommitInfo
  <2>2. QED
    BY <1>4, <1>6, <2>1 DEF Edge, NextM, RegM
<1>12. W' \in RegW
  BY <1>1, <1>5, MemDataType DEF Edge, NextW, RegW
<1>13. regs' \in [Reg -> Word] /\ dmem' \in [Word -> Word]
  BY <1>1, WriteBackType, StoredMemType DEF Edge
<1>14. QED
  BY <1>7, <1>8, <1>9, <1>10, <1>11, <1>12, <1>13 DEF Edge, TypeOK

\* Reset keeps the types.
LEMMA ResetType ==
  ASSUME TypeOK, ResetClock
  PROVE  TypeOK'
<1>1. E'= BubbleE(E.imm) /\ BubbleE(E.imm) \in RegE
  BY ConstantTypes, SizesAssumption DEF ResetClock, BubbleE, RegE, Class, TypeOK
<1>2. regs' \in [Reg -> Word]
  BY ConstantTypes DEF ResetClock, TypeOK
<1>3. dmem' \in [Word -> Word]
  BY StoredMemType DEF ResetClock, TypeOK
<1>4. QED
  BY <1>1, <1>2, <1>3, ConstantTypes, SizesAssumption DEF ResetClock, TypeOK

\* The registers at power on are of their types.
LEMMA InitType ==
  ASSUME InitCore
  PROVE  TypeOK
<1>1. BubbleE(0) \in RegE
  BY ConstantTypes, SizesAssumption DEF BubbleE, RegE, Class
<1>2. QED
  BY <1>1, ConstantTypes, PowerOnAssumption DEF InitCore, TypeOK

\* The registers between the stages, the register file and the memory keep
\* their types.
THEOREM TypeCorrect == Spec => []TypeOK
<1>1. Init => TypeOK
  BY InitType DEF Init
<1>2. TypeOK /\ [Next]_vars => TypeOK'
  <2> SUFFICES ASSUME TypeOK, [Next]_vars PROVE TypeOK'
    OBVIOUS
  <2>1. CASE ResetClock
    BY <2>1, ResetType
  <2>2. CASE Clock
    <3>1. InstrAt(imem, pc) \in Instr
      BY InstrAtType DEF TypeOK
    <3>2. QED
      BY <2>2, <3>1, EdgeType DEF Clock
  <2>3. CASE UNCHANGED vars
    BY <2>3 DEF vars, stages, TypeOK
  <2>4. QED
    BY <2>1, <2>2, <2>3 DEF Next
<1>3. QED
  BY <1>1, <1>2, PTL DEF Spec

-----------------------------------------------------------------------------
\* The three things an edge can do, by the wires of ctrl.v.
LEMMA EdgeModes ==
  ASSUME NEW instr, Edge(instr)
  PROVE  /\ NeedJump => /\ pc' = JumpPc /\ F' = BubbleF /\ D' = BubbleD
                        /\ E' = BubbleE(E.imm)
         /\ LoadUse => /\ pc' = pc /\ F' = F /\ D' = D /\ E' = BubbleE(E.imm)
         /\ ~LoadUse /\ ~NeedJump =>
              /\ pc' = Add(pc, 4)
              /\ F' = [commit |-> TRUE, pc |-> pc, instr |-> instr]
              /\ D' = [pc |-> F.pc, instr |-> F.instr, ci |-> FetchCommit]
              /\ E' = [cls |-> D.instr.cls, fn |-> D.instr.fn,
                       a |-> Operand(D.instr.rs1), b |-> Operand(D.instr.rs2),
                       imm |-> D.instr.imm, pc |-> D.pc, rd |-> D.instr.rd,
                       wen |-> RegWen(D.instr.cls), ci |-> D.ci]
         /\ M' = NextM /\ W' = NextW /\ regs' = WrittenRegs /\ dmem' = StoredMem
         /\ rst' = rst /\ imem' = imem /\ ~rst
<1>1. ~(NeedJump /\ LoadUse)
  BY DEF NeedJump, LoadUse
<1>2. /\ pc' = NextPc /\ F' = NextF(instr) /\ D' = NextD /\ E' = NextE
      /\ M' = NextM /\ W' = NextW /\ regs' = WrittenRegs /\ dmem' = StoredMem
      /\ rst' = rst /\ imem' = imem /\ ~rst
  BY DEF Edge
<1>3. CASE NeedJump
  BY <1>1, <1>2, <1>3 DEF NextPc, NextF, NextD, NextE, BranchBubble, RegEBubble
<1>4. CASE LoadUse
  BY <1>1, <1>2, <1>4 DEF NextPc, NextF, NextD, NextE, BranchBubble, RegEBubble
<1>5. CASE ~LoadUse /\ ~NeedJump
  BY <1>2, <1>5, Zenon DEF NextPc, NextF, NextD, NextE, BranchBubble, RegEBubble
<1>6. QED
  BY <1>3, <1>4, <1>5, <1>2

\* Neither a jump nor a load-use stall comes from a bubble.
LEMMA ModesCommit ==
  ASSUME StagesHoldTheirInstructions, NeedJump \/ LoadUse
  PROVE  E.ci.commit
  BY DEF StagesHoldTheirInstructions, ExecuteHoldsItsInstr, NeedJump, LoadUse

\* The value a load-use stall waits for is in the memory stage at the next
\* edge: the registers an edge leaves behind are those that were pending.
LEMMA ArchRegsShift ==
  ASSUME NEW instr, Edge(instr), W' = NextW, regs' = WrittenRegs
  PROVE  ArchRegs' = PendingRegs
<1>1. /\ W'.wen = M.wen /\ W'.rd = M.rd /\ W'.cls = M.cls /\ W'.pc = M.pc
      /\ W'.mdata = MemData /\ W'.alu = M.alu
  BY DEF NextW
<1>2. WriteBackData' = MemResult
  BY <1>1 DEF WriteBackData, MemResult
<1>3. regs' = ArchRegs
  BY DEF ArchRegs
<1>4. ArchRegs' = IF W'.wen /\ W'.rd # 0 THEN [regs' EXCEPT ![W'.rd] = WriteBackData'] ELSE regs'
  BY DEF ArchRegs, WrittenRegs
<1>5. QED
  BY <1>1, <1>2, <1>3, <1>4, Zenon DEF PendingRegs

\* The oldest instruction before the memory stage is the oldest one in it or
\* before it after the edge, and the pre_pc an instruction takes into the
\* memory stage is the address of the one behind it.
LEMMA PendingPcShift ==
  ASSUME TypeOK, StagesHoldTheirInstructions, InProgramOrder, NEW instr, Edge(instr)
  PROVE  /\ ArchPc' = PendingPc
         /\ E.ci.commit => ExecuteCommit.pre = PendingPc'
         /\ M'.ci.commit = E.ci.commit
<1>1. M'.ci.commit = E.ci.commit /\ M'.ci.pc = E.ci.pc
  BY EdgeModes DEF NextM, ExecuteCommit, TypeOK, RegE, CommitInfo
<1>2. CASE NeedJump
  BY <1>1, <1>2, EdgeModes, ModesCommit
     DEF ArchPc, PendingPc, BubbleF, BubbleD, BubbleE, NoCommit, ExecuteCommit
<1>3. CASE LoadUse
  BY <1>1, <1>3, EdgeModes, ModesCommit
     DEF ArchPc, PendingPc, BubbleE, NoCommit, ExecuteCommit, InProgramOrder, NeedJump, LoadUse
<1>4. CASE ~LoadUse /\ ~NeedJump
  BY <1>1, <1>4, EdgeModes
     DEF ArchPc, PendingPc, FetchCommit, ExecuteCommit, InProgramOrder,
         StagesHoldTheirInstructions, DecodeHoldsItsInstr, ExecuteHoldsItsInstr
<1>5. QED
  BY <1>2, <1>3, <1>4

\* The registers that will be pending after an edge that does not fetch
\* anything wrong: those pending now and the result in execute, which is a
\* link address only for a jump and a loaded word only for a load.
LEMMA PendingRegsShift ==
  ASSUME TypeOK, NEW instr, Edge(instr), E.cls \notin {"jal", "jalr", "load"}
  PROVE  PendingRegs' =
            IF E.wen /\ E.rd # 0 THEN [PendingRegs EXCEPT ![E.rd] = AluResult]
            ELSE PendingRegs
<1>1. ArchRegs' = PendingRegs
  BY EdgeModes, ArchRegsShift
<1>2. M'.wen = E.wen /\ M'.rd = E.rd /\ M'.cls = E.cls /\ M'.alu = AluResult
  BY EdgeModes DEF NextM
<1>3. MemResult' = AluResult
  BY <1>2 DEF MemResult
<1>4. PendingRegs' = IF M'.wen /\ M'.rd # 0 THEN [ArchRegs' EXCEPT ![M'.rd] = MemResult']
                     ELSE ArchRegs'
  BY DEF PendingRegs
<1>5. QED
  BY <1>1, <1>2, <1>3, <1>4, Zenon

\* The forwarding network finds, for an instruction that leaves decode, the
\* value its predecessors leave in each register.
LEMMA OperandIsPending ==
  ASSUME PipelineInv, NEW r \in Reg, D.ci.commit, ~NeedJump,
         E.cls = "load" => E.rd # r
  PROVE  Operand(r) = IF E.wen /\ E.rd # 0 /\ E.rd = r THEN AluResult ELSE PendingRegs[r]
<1> USE DEF PipelineInv
<1>1. CASE E.rd # 0 /\ E.wen /\ E.rd = r
  BY <1>1 DEF Operand, Forwards
<1>2. CASE ~(E.rd # 0 /\ E.wen /\ E.rd = r)
  <2>1. M.cls \notin {"jal", "jalr"}
    BY DEF NothingBehindALink
  <2>2. /\ M.wen = RegWen(M.cls) /\ W.wen = RegWen(W.cls)
    BY DEF StagesHoldTheirInstructions, MemoryHoldsItsInstr, WriteBackHoldsItsInstr
  <2>3. ArchRegs \in [Reg -> Word]
    BY MemResultType
  <2>4. CASE M.rd # 0 /\ M.wen /\ M.rd = r
    <3>1. PendingRegs[r] = MemResult
      BY <2>3, <2>4 DEF PendingRegs
    <3>2. CASE M.cls = "load"
      <4>1. ~SelAluResult(M.cls)
        BY <3>2 DEF SelAluResult
      <4>2. Operand(r) = MemData
        BY <1>2, <2>4, <3>2, <4>1, Zenon DEF Operand, Forwards
      <4>3. QED
        BY <1>2, <3>1, <3>2, <4>2 DEF MemResult
    <3>3. CASE M.cls # "load"
      <4>1. SelAluResult(M.cls)
        BY <2>1, <2>2, <2>4, <3>3 DEF SelAluResult, RegWen
      <4>2. Operand(r) = M.alu
        BY <1>2, <2>4, <3>3, <4>1, Zenon DEF Operand, Forwards
      <4>3. QED
        BY <1>2, <2>1, <3>1, <3>3, <4>2 DEF MemResult
    <3>4. QED
      BY <3>2, <3>3
  <2>5. CASE ~(M.rd # 0 /\ M.wen /\ M.rd = r)
    <3>1. PendingRegs[r] = ArchRegs[r]
      BY <2>3, <2>5 DEF PendingRegs
    <3>2. CASE W.rd # 0 /\ W.wen /\ W.rd = r
      <4>1. ArchRegs[r] = WriteBackData
        BY <3>2 DEF ArchRegs, WrittenRegs, TypeOK
      <4>2. CASE W.cls = "load"
        <5>1. ~SelAluResult(W.cls)
          BY <4>2 DEF SelAluResult
        <5>2. Operand(r) = W.mdata
          BY <1>2, <2>5, <3>2, <4>2, <5>1 DEF Operand, Forwards
        <5>3. QED
          BY <1>2, <3>1, <4>1, <4>2, <5>2 DEF WriteBackData
      <4>3. CASE W.cls \in {"jal", "jalr"}
        <5>1. ~SelAluResult(W.cls)
          BY <4>3 DEF SelAluResult
        <5>2. Operand(r) = Add(W.pc, 4)
          BY <1>2, <2>5, <3>2, <4>3, <5>1 DEF Operand, Forwards
        <5>3. QED
          BY <1>2, <3>1, <4>1, <4>3, <5>2 DEF WriteBackData
      <4>4. CASE W.cls \notin {"load", "jal", "jalr"}
        <5>1. SelAluResult(W.cls)
          BY <2>2, <3>2, <4>4 DEF SelAluResult, RegWen
        <5>2. Operand(r) = W.alu
          BY <1>2, <2>5, <3>2, <4>4, <5>1 DEF Operand, Forwards
        <5>3. QED
          BY <1>2, <3>1, <4>1, <4>4, <5>2 DEF WriteBackData
      <4>5. QED
        BY <4>2, <4>3, <4>4
    <3>3. CASE ~(W.rd # 0 /\ W.wen /\ W.rd = r)
      <4>1. ArchRegs[r] = regs[r]
        BY <3>3 DEF ArchRegs, WrittenRegs, TypeOK
      <4>2. Operand(r) = IF r = 0 THEN 0 ELSE regs[r]
        BY <1>2, <2>5, <3>3 DEF Operand, Forwards
      <4>3. QED
        BY <1>2, <3>1, <4>1, <4>2
    <3>4. QED
      BY <3>2, <3>3
  <2>6. QED
    BY <2>4, <2>5
<1>3. QED
  BY <1>1, <1>2

-----------------------------------------------------------------------------
\* One edge preserves each part of the invariant, given the word at pc when
\* it fetches one.
LEMMA StagesStep ==
  ASSUME PipelineInv, NEW instr, Edge(instr),
         ~LoadUse /\ ~NeedJump => instr = InstrAt(imem, pc)
  PROVE  StagesHoldTheirInstructions'
<1> USE DEF PipelineInv, StagesHoldTheirInstructions
<1>1. E \in RegE /\ E.ci \in CommitInfo /\ M \in RegM
  BY DEF TypeOK, RegE
<1>2. FetchHoldsItsInstr'
  BY EdgeModes DEF FetchHoldsItsInstr, BubbleF
<1>3. DecodeHoldsItsInstr'
  <2>1. CASE NeedJump
    BY <2>1, EdgeModes DEF DecodeHoldsItsInstr, BubbleD, NoCommit
  <2>2. CASE LoadUse
    BY <2>2, EdgeModes DEF DecodeHoldsItsInstr
  <2>3. CASE ~LoadUse /\ ~NeedJump
    BY <2>3, EdgeModes DEF DecodeHoldsItsInstr, FetchHoldsItsInstr, FetchCommit
  <2>4. QED
    BY <2>1, <2>2, <2>3
<1>4. ExecuteHoldsItsInstr'
  <2>1. CASE NeedJump \/ LoadUse
    <3>1. E' = BubbleE(E.imm)
      BY <2>1, EdgeModes
    <3>2. E'.wen = FALSE /\ E'.cls = "none" /\ ~E'.ci.commit
      BY <3>1 DEF BubbleE, NoCommit
    <3>3. RegWen(E'.cls) = FALSE
      BY <3>2 DEF RegWen
    <3>4. QED
      BY <3>2, <3>3 DEF ExecuteHoldsItsInstr
  <2>2. CASE ~LoadUse /\ ~NeedJump
    <3>1. /\ E'.cls = D.instr.cls /\ E'.fn = D.instr.fn /\ E'.imm = D.instr.imm
          /\ E'.pc = D.pc /\ E'.rd = D.instr.rd /\ E'.wen = RegWen(D.instr.cls)
          /\ E'.ci = D.ci /\ imem' = imem
      BY <2>2, EdgeModes
    <3>2. E'.wen = RegWen(E'.cls)
      BY <3>1 DEF RegWen
    <3>3. ~E'.ci.commit => E'.cls = "none"
      BY <3>1 DEF DecodeHoldsItsInstr, ZeroInstr
    <3>4. E'.ci.commit =>
            /\ E'.ci.instr = InstrAt(imem', E'.pc) /\ E'.ci.pc = E'.pc
            /\ E'.ci.pre = Add(E'.pc, 4)
            /\ E'.cls = E'.ci.instr.cls /\ E'.fn = E'.ci.instr.fn
            /\ E'.imm = E'.ci.instr.imm /\ E'.rd = E'.ci.instr.rd
      BY <3>1 DEF DecodeHoldsItsInstr
    <3>5. QED
      BY <3>2, <3>3, <3>4 DEF ExecuteHoldsItsInstr
  <2>3. QED
    BY <2>1, <2>2
<1>5. MemoryHoldsItsInstr'
  <2>1. /\ M'.cls = E.cls /\ M'.fn = E.fn /\ M'.rd = E.rd /\ M'.wen = E.wen
        /\ M'.pc = E.pc /\ M'.ci = ExecuteCommit /\ imem' = imem
    BY EdgeModes DEF NextM
  <2>2. /\ ExecuteCommit.commit = E.ci.commit /\ ExecuteCommit.instr = E.ci.instr
        /\ ExecuteCommit.pc = E.ci.pc
    BY <1>1 DEF ExecuteCommit, CommitInfo
  <2>3. QED
    BY <2>1, <2>2 DEF MemoryHoldsItsInstr, ExecuteHoldsItsInstr
<1>6. WriteBackHoldsItsInstr'
  BY EdgeModes DEF WriteBackHoldsItsInstr, MemoryHoldsItsInstr, NextW
<1>7. QED
  BY <1>2, <1>3, <1>4, <1>5, <1>6

\* An edge leaves the stages in program order, nothing behind a link, and commit
\* records that name the next instruction.
LEMMA OrderStep ==
  ASSUME PipelineInv, NEW instr, Edge(instr)
  PROVE  InProgramOrder' /\ NothingBehindALink' /\ CommitPrePcIsNext'
<1> USE DEF PipelineInv
<1>1. /\ ArchPc' = PendingPc /\ M'.ci.commit = E.ci.commit
      /\ E.ci.commit => ExecuteCommit.pre = PendingPc'
  BY PendingPcShift
<1>2. M'.ci = ExecuteCommit /\ M'.cls = E.cls /\ W'.ci = M.ci
  BY EdgeModes DEF NextM, NextW
<1>3. CASE NeedJump
  <2>1. ~F'.commit /\ ~D'.ci.commit /\ ~E'.ci.commit
    BY <1>3, EdgeModes DEF BubbleF, BubbleD, BubbleE, NoCommit
  <2>2. QED
    BY <1>1, <1>2, <2>1 DEF InProgramOrder, NothingBehindALink, CommitPrePcIsNext
<1>4. CASE LoadUse
  <2>1. ~E'.ci.commit /\ F' = F /\ D' = D /\ pc' = pc /\ E.cls = "load"
    BY <1>4, EdgeModes DEF BubbleE, NoCommit, LoadUse
  <2>2. QED
    BY <1>1, <1>2, <2>1 DEF InProgramOrder, NothingBehindALink, CommitPrePcIsNext
<1>5. CASE ~LoadUse /\ ~NeedJump
  <2>1. /\ pc' = Add(pc, 4) /\ F'.commit /\ F'.pc = pc /\ D'.ci = FetchCommit
        /\ D'.pc = F.pc /\ E'.ci = D.ci
    BY <1>5, EdgeModes
  <2>2. E.cls \notin {"jal", "jalr"}
    BY <1>5 DEF NeedJump
  <2>3. D.ci.commit => D.ci.pre = Add(D.pc, 4) /\ D.ci.pc = D.pc
    BY DEF StagesHoldTheirInstructions, DecodeHoldsItsInstr
  <2>4. QED
    BY <1>1, <1>2, <2>1, <2>2, <2>3
       DEF InProgramOrder, NothingBehindALink, CommitPrePcIsNext, FetchCommit
<1>6. QED
  BY <1>3, <1>4, <1>5

\* An edge leaves execute with the operands its elders will leave.
LEMMA OperandsStep ==
  ASSUME PipelineInv, NEW instr, Edge(instr)
  PROVE  OperandsAreArchitectural'
<1> USE DEF PipelineInv
<1>1. CASE NeedJump \/ LoadUse
  <2>1. ~E'.ci.commit
    BY <1>1, EdgeModes DEF BubbleE, NoCommit
  <2>2. QED
    BY <2>1 DEF OperandsAreArchitectural
<1>2. CASE ~LoadUse /\ ~NeedJump /\ ~D.ci.commit
  BY <1>2, EdgeModes DEF OperandsAreArchitectural
<1>3. CASE ~LoadUse /\ ~NeedJump /\ D.ci.commit
  <2> DEFINE Value(r) == IF E.wen /\ E.rd # 0 /\ E.rd = r THEN AluResult ELSE PendingRegs[r]
  <2>1. /\ E'.a = Operand(D.instr.rs1) /\ E'.b = Operand(D.instr.rs2)
        /\ E'.ci.instr = D.instr
    BY <1>3, EdgeModes DEF StagesHoldTheirInstructions, DecodeHoldsItsInstr
  <2>2. D.instr.rs1 \in Reg /\ D.instr.rs2 \in Reg
    BY DEF TypeOK, RegD, Instr
  <2>3. /\ E.cls = "load" => E.rd # D.instr.rs1 /\ E.rd # D.instr.rs2
        /\ E.cls \notin {"jal", "jalr"}
    BY <1>3 DEF LoadUse, NeedJump
  <2>4. /\ Operand(D.instr.rs1) = Value(D.instr.rs1)
        /\ Operand(D.instr.rs2) = Value(D.instr.rs2)
    BY <1>3, <2>2, <2>3, OperandIsPending
  <2>5. ASSUME NEW r \in Reg, E.cls = "load" => E.rd # r
        PROVE  PendingRegs'[r] = Value(r)
    <3>1. PendingRegs \in [Reg -> Word]
      BY MemResultType
    <3>2. CASE E.cls # "load"
      <4>1. PendingRegs' = IF E.wen /\ E.rd # 0
                           THEN [PendingRegs EXCEPT ![E.rd] = AluResult] ELSE PendingRegs
        BY <2>3, <3>2, PendingRegsShift
      <4>2. QED
        BY <2>5, <3>1, <4>1
    <3>3. CASE E.cls = "load"
      <4>1. ArchRegs' = PendingRegs
        BY EdgeModes, ArchRegsShift
      <4>2. M'.rd = E.rd
        BY EdgeModes DEF NextM
      <4>3. PendingRegs'[r] = PendingRegs[r]
        BY <2>5, <3>1, <3>3, <4>1, <4>2 DEF PendingRegs
      <4>4. QED
        BY <2>5, <3>3, <4>3
    <3>4. QED
      BY <3>2, <3>3
  <2>6. QED
    BY <2>1, <2>2, <2>3, <2>4, <2>5 DEF OperandsAreArchitectural
<1>4. QED
  BY <1>1, <1>2, <1>3

\* The operators of the sequential machine that its instance renames.
LEMMA SeqOperators ==
  /\ \A a, b : Seq!Add(a, b) = Add(a, b)
  /\ \A a : Seq!ClearBit0(a) = ClearBit0(a)
  /\ \A prog, a : Seq!InstrAt(prog, a) = InstrAt(prog, a)
  /\ \A mem, a : Seq!DpiMemRead(mem, a) = DpiMemRead(mem, a)
  /\ \A mem, fn, a, v : Seq!DpiMemWrite(mem, fn, a, v) = DpiMemWrite(mem, fn, a, v)
  BY Zenon DEF Seq!Add, Add, Seq!ClearBit0, ClearBit0, Seq!InstrAt, InstrAt,
     Seq!ZeroInstr, ZeroInstr, Seq!DpiMemRead, DpiMemRead, Seq!DpiMemWrite, DpiMemWrite

\* What execute computes for an instruction that commits is what the
\* sequential machine computes for it one edge later.
LEMMA MemoryStep ==
  ASSUME PipelineInv, NEW instr, Edge(instr)
  PROVE  MemoryStageIsSequential'
<1> SUFFICES ASSUME M'.ci.commit
             PROVE  /\ M'.cls \in {"lui", "auipc", "op", "opimm", "load", "store"}
                         => M'.alu = Seq!ValE'
                    /\ M'.b = Seq!ValB'
                    /\ M'.ci.pre = Seq!NextPc'
  BY DEF MemoryStageIsSequential
<1> USE DEF PipelineInv
<1>1. E \in RegE /\ E.ci \in CommitInfo /\ M'.ci = ExecuteCommit
  BY EdgeModes DEF NextM, TypeOK, RegE
<1>2. E.ci.commit
  BY <1>1 DEF ExecuteCommit, CommitInfo
<1>3. /\ E.ci.instr = InstrAt(imem, E.pc) /\ E.ci.pc = E.pc /\ E.ci.pre = Add(E.pc, 4)
      /\ E.cls = E.ci.instr.cls /\ E.fn = E.ci.instr.fn /\ E.imm = E.ci.instr.imm
  BY <1>2 DEF StagesHoldTheirInstructions, ExecuteHoldsItsInstr
<1>4. ArchPc' = E.pc
  BY <1>2, <1>3, PendingPcShift DEF PendingPc
<1>5. Seq!Current' = E.ci.instr
  BY <1>3, <1>4, EdgeModes, SeqOperators DEF Seq!Current
<1>6. Seq!ValA' = E.a /\ Seq!ValB' = E.b
  <2>1. ArchRegs' = PendingRegs
    BY EdgeModes, ArchRegsShift
  <2>2. E.a = PendingRegs[E.ci.instr.rs1] /\ E.b = PendingRegs[E.ci.instr.rs2]
    BY <1>2 DEF OperandsAreArchitectural
  <2>3. QED
    BY <1>5, <2>1, <2>2 DEF Seq!ValA, Seq!ValB
<1>7. /\ M'.cls = E.cls /\ M'.alu = AluResult /\ M'.b = E.b
  BY EdgeModes DEF NextM
<1>8. /\ Seq!ExuA' = IF E.cls \in {"lui", "auipc", "jal", "branch"} THEN E.pc ELSE E.a
      /\ Seq!ExuB' = IF E.cls \in {"load", "opimm", "jalr", "csrrs", "csrrw", "store",
                                   "branch", "lui", "auipc", "jal"}
                     THEN E.imm ELSE E.b
  BY <1>3, <1>4, <1>5, <1>6 DEF Seq!ExuA, Seq!ExuB
<1>9. /\ E.cls = "jalr" => Seq!ValE' = ClearBit0(AluResult)
      /\ E.cls \in {"lui", "auipc", "op", "opimm", "load", "store", "jal", "branch"}
            => Seq!ValE' = AluResult
  BY <1>3, <1>5, <1>8, SeqOperators DEF Seq!ValE, AluResult
<1>10. Seq!NextPc' = IF NeedJump THEN JumpPc ELSE Add(E.pc, 4)
  <2>1. Seq!ValP' = Add(E.pc, 4)
    BY <1>4, SeqOperators DEF Seq!ValP
  <2>2. E.cls \notin {"ecall", "mret"}
    <3>1. CASE E.pc \in DOMAIN imem
      BY <1>3, <3>1, NoSystemAssumption DEF InstrAt, TypeOK
    <3>2. CASE E.pc \notin DOMAIN imem
      BY <1>3, <3>2 DEF InstrAt, ZeroInstr
    <3>3. QED
      BY <3>1, <3>2
  <2>3. CASE NeedJump
    <3>1. Seq!NextPc' = Seq!ValE'
      BY <1>3, <1>5, <1>6, <2>3 DEF Seq!NextPc, NeedJump
    <3>2. E.cls \in {"jal", "jalr", "branch"}
      BY <2>3 DEF NeedJump
    <3>3. QED
      BY <1>9, <2>3, <3>1, <3>2 DEF JumpPc
  <2>4. CASE ~NeedJump
    BY <1>3, <1>5, <1>6, <2>1, <2>2, <2>4 DEF Seq!NextPc, NeedJump
  <2>5. QED
    BY <2>3, <2>4
<1>11. M'.ci.pre = IF NeedJump THEN JumpPc ELSE Add(E.pc, 4)
  BY <1>1, <1>3 DEF ExecuteCommit, CommitInfo
<1>12. QED
  BY <1>6, <1>7, <1>9, <1>10, <1>11

-----------------------------------------------------------------------------
\* The invariant, for every instruction memory behind the read port that
\* delivers the word at pc whenever one is fetched.
LEMMA InvEdge ==
  ASSUME PipelineInv, NEW instr \in Instr, Edge(instr),
         ~LoadUse /\ ~NeedJump => instr = InstrAt(imem, pc)
  PROVE  PipelineInv'
<1>1. TypeOK'
  BY EdgeType DEF PipelineInv
<1>2. regs'[0] = 0
  BY DEF Edge, WrittenRegs, PipelineInv, TypeOK
<1>3. NothingInReset'
  BY DEF Edge, NothingInReset
<1>4. QED
  BY <1>1, <1>2, <1>3, StagesStep, OrderStep, OperandsStep, MemoryStep DEF PipelineInv

\* What an empty pipeline satisfies.
LEMMA InvEmpty ==
  ASSUME TypeOK, regs[0] = 0, F = BubbleF, D = BubbleD, NEW i, E = BubbleE(i),
         M = BubbleM, W = BubbleW, rst => pc = 0
  PROVE  PipelineInv
<1>1. /\ ~F.commit /\ ~D.ci.commit /\ ~E.ci.commit /\ ~M.ci.commit /\ ~W.ci.commit
      /\ M.cls = "none"
  BY DEF BubbleF, BubbleD, BubbleE, BubbleM, BubbleW, NoCommit
<1>2. StagesHoldTheirInstructions
  <2>1. FetchHoldsItsInstr /\ DecodeHoldsItsInstr
    BY DEF FetchHoldsItsInstr, DecodeHoldsItsInstr, BubbleF, BubbleD, NoCommit
  <2>2. RegWen("none") = FALSE
    BY DEF RegWen
  <2>3. ExecuteHoldsItsInstr /\ MemoryHoldsItsInstr /\ WriteBackHoldsItsInstr
    BY <1>1, <2>2 DEF ExecuteHoldsItsInstr, MemoryHoldsItsInstr, WriteBackHoldsItsInstr,
       BubbleE, BubbleM, BubbleW
  <2>4. QED
    BY <2>1, <2>3 DEF StagesHoldTheirInstructions
<1>3. QED
  BY <1>1, <1>2 DEF PipelineInv, NothingInReset, InProgramOrder, NothingBehindALink,
     OperandsAreArchitectural, MemoryStageIsSequential, CommitPrePcIsNext

\* At power on nothing is in flight, and the invariant holds.
LEMMA InvInit ==
  ASSUME InitCore
  PROVE  PipelineInv
<1>1. TypeOK
  BY InitType
<1>2. regs[0] = 0
  BY PowerOnAssumption DEF InitCore
<1>3. QED
  BY <1>1, <1>2, InvEmpty DEF InitCore

\* Reset empties the pipeline and keeps the invariant.
LEMMA InvReset ==
  ASSUME PipelineInv, ResetClock
  PROVE  PipelineInv'
<1>1. TypeOK'
  BY ResetType DEF PipelineInv
<1>2. regs'[0] = 0
  BY ConstantTypes DEF ResetClock, PipelineInv, TypeOK
<1>3. /\ F' = BubbleF /\ D' = BubbleD /\ E' = BubbleE(E.imm) /\ M' = BubbleM
      /\ W' = BubbleW /\ ~rst'
  BY DEF ResetClock
<1>4. /\ ~F'.commit /\ ~D'.ci.commit /\ ~E'.ci.commit /\ ~M'.ci.commit
      /\ ~W'.ci.commit /\ M'.cls = "none"
  BY <1>3 DEF BubbleF, BubbleD, BubbleE, BubbleM, BubbleW, NoCommit
<1>5. StagesHoldTheirInstructions'
  <2>1. FetchHoldsItsInstr' /\ DecodeHoldsItsInstr'
    BY <1>3 DEF FetchHoldsItsInstr, DecodeHoldsItsInstr, BubbleF, BubbleD, NoCommit
  <2>2. RegWen("none") = FALSE
    BY DEF RegWen
  <2>3. ExecuteHoldsItsInstr' /\ MemoryHoldsItsInstr' /\ WriteBackHoldsItsInstr'
    BY <1>3, <1>4, <2>2 DEF ExecuteHoldsItsInstr, MemoryHoldsItsInstr,
       WriteBackHoldsItsInstr, BubbleE, BubbleM, BubbleW
  <2>4. QED
    BY <2>1, <2>3 DEF StagesHoldTheirInstructions
<1>6. QED
  BY <1>1, <1>2, <1>3, <1>4, <1>5
     DEF PipelineInv, NothingInReset, InProgramOrder, NothingBehindALink,
     OperandsAreArchitectural, MemoryStageIsSequential, CommitPrePcIsNext

\* A stuttering step leaves it as it is.
LEMMA InvStutter ==
  ASSUME PipelineInv, UNCHANGED vars
  PROVE  PipelineInv'
<1>1. /\ rst' = rst /\ imem' = imem /\ pc' = pc /\ F' = F /\ D' = D /\ E' = E
      /\ M' = M /\ W' = W /\ regs' = regs /\ dmem' = dmem
  BY DEF vars, stages
<1>2. TypeOK' /\ NothingInReset' /\ NothingBehindALink'
  BY <1>1 DEF PipelineInv, TypeOK, NothingInReset, NothingBehindALink
<1>3. StagesHoldTheirInstructions'
  BY <1>1 DEF PipelineInv, StagesHoldTheirInstructions, FetchHoldsItsInstr,
     DecodeHoldsItsInstr, ExecuteHoldsItsInstr, MemoryHoldsItsInstr,
     WriteBackHoldsItsInstr
<1>4. PendingPc' = PendingPc /\ ArchPc' = ArchPc
  BY <1>1 DEF PendingPc, ArchPc
<1>5. ArchRegs' = ArchRegs
  <2>1. WriteBackData' = WriteBackData
    BY <1>1 DEF WriteBackData
  <2>2. QED
    BY <1>1, <2>1 DEF ArchRegs, WrittenRegs
<1>6. PendingRegs' = PendingRegs
  <2>1. MemResult' = MemResult
    BY <1>1 DEF MemResult, MemData
  <2>2. QED
    BY <1>1, <1>5, <2>1 DEF PendingRegs
<1>7. InProgramOrder' /\ CommitPrePcIsNext'
  BY <1>1, <1>4 DEF PipelineInv, InProgramOrder, CommitPrePcIsNext
<1>8. OperandsAreArchitectural'
  BY <1>1, <1>6 DEF PipelineInv, OperandsAreArchitectural
<1>9. Seq!ValA' = Seq!ValA /\ Seq!ValB' = Seq!ValB /\ Seq!Current' = Seq!Current
  <2>1. Seq!Current' = Seq!Current
    BY <1>1, <1>4 DEF Seq!Current
  <2>2. QED
    BY <1>5, <2>1 DEF Seq!ValA, Seq!ValB
<1>10. Seq!ValE' = Seq!ValE
  <2>1. Seq!ExuA' = Seq!ExuA /\ Seq!ExuB' = Seq!ExuB
    BY <1>4, <1>9 DEF Seq!ExuA, Seq!ExuB
  <2>2. QED
    BY <1>9, <2>1 DEF Seq!ValE
<1>11. Seq!NextPc' = Seq!NextPc
  <2>1. SeqCsr' = SeqCsr /\ Seq!ValP' = Seq!ValP
    BY <1>1, <1>4 DEF SeqCsr, Seq!ValP
  <2>2. QED
    BY <1>9, <1>10, <2>1 DEF Seq!NextPc
<1>12. MemoryStageIsSequential'
  BY <1>1, <1>9, <1>10, <1>11 DEF PipelineInv, MemoryStageIsSequential
<1>13. QED
  BY <1>1, <1>2, <1>3, <1>7, <1>8, <1>12 DEF PipelineInv

\* The invariant holds in every reachable state.
THEOREM PipelineInvariant == Spec => []PipelineInv
<1>1. Init => PipelineInv
  BY InvInit DEF Init
<1>2. PipelineInv /\ [Next]_vars => PipelineInv'
  <2> SUFFICES ASSUME PipelineInv, [Next]_vars PROVE PipelineInv'
    OBVIOUS
  <2>1. CASE ResetClock
    BY <2>1, InvReset
  <2>2. CASE Clock
    <3>1. InstrAt(imem, pc) \in Instr
      BY InstrAtType DEF PipelineInv, TypeOK
    <3>2. QED
      BY <2>2, <3>1, InvEdge DEF Clock
  <2>3. CASE UNCHANGED vars
    BY <2>3, InvStutter
  <2>4. QED
    BY <2>1, <2>2, <2>3 DEF Next
<1>3. QED
  BY <1>1, <1>2, PTL DEF Spec

\* Operands, commit records and bubbles are right in every reachable state.
THEOREM OperandsCorrect == Spec => []OperandsAreArchitectural
  BY PipelineInvariant, PTL DEF PipelineInv

\* A commit record names the instruction that commits next.
THEOREM CommitRecordsCorrect == Spec => []CommitPrePcIsNext
  BY PipelineInvariant, PTL DEF PipelineInv

\* A bubble writes nothing, stores nothing and does not jump.
THEOREM BubblesInert == Spec => []BubblesAreInert
<1>1. PipelineInv => BubblesAreInert
  BY DEF PipelineInv, StagesHoldTheirInstructions, ExecuteHoldsItsInstr,
     MemoryHoldsItsInstr, WriteBackHoldsItsInstr, BubblesAreInert, NeedJump, LoadUse,
     RegWen, StoredMem, WrittenRegs
<1>2. QED
  BY <1>1, PipelineInvariant, PTL

\* A load-use stall never lasts.
THEOREM StallsAreShort == Spec => StallLastsOneClock
<1>1. [Next]_vars => [~rst /\ LoadUse => ~LoadUse']_vars
  <2> SUFFICES ASSUME Next, ~rst, LoadUse PROVE ~LoadUse'
    BY DEF LoadUse, vars
  <2>1. PICK instr : Edge(instr)
    BY DEF Next, ResetClock, Clock
  <2>2. E'.cls = "none"
    BY <2>1, EdgeModes DEF BubbleE
  <2>3. QED
    BY <2>2 DEF LoadUse
<1>2. QED
  BY <1>1, PTL DEF Spec, StallLastsOneClock

-----------------------------------------------------------------------------
\* An edge is a step of the sequential machine if an instruction leaves the
\* memory stage, and none if a bubble does.
LEMMA EdgeRefines ==
  ASSUME PipelineInv, NEW instr, Edge(instr)
  PROVE  /\ M.ci.commit => Seq!Clock /\ Seq!Current = M.ci.instr
         /\ ~M.ci.commit => UNCHANGED Seq!vars
<1> USE DEF PipelineInv
<1>1. /\ ~rst /\ rst' = rst /\ imem' = imem /\ dmem' = StoredMem
      /\ ArchPc' = PendingPc /\ ArchRegs' = PendingRegs
  BY EdgeModes, ArchRegsShift, PendingPcShift
<1>2. SeqCsr' = SeqCsr
  BY <1>1 DEF SeqCsr
<1>3. CASE ~M.ci.commit
  <2>1. M.cls = "none" /\ ~M.wen
    BY <1>3 DEF StagesHoldTheirInstructions, MemoryHoldsItsInstr, RegWen
  <2>2. ArchPc' = ArchPc /\ ArchRegs' = ArchRegs /\ dmem' = dmem
    BY <1>1, <1>3, <2>1 DEF ArchPc, PendingRegs, StoredMem
  <2>3. UNCHANGED Seq!vars
    BY <1>1, <1>2, <2>2 DEF Seq!vars
  <2>4. QED
    BY <1>3, <2>3
<1>4. CASE M.ci.commit
  <2>1. /\ ArchPc = M.pc /\ M.ci.instr = InstrAt(imem, M.pc)
        /\ M.cls = M.ci.instr.cls /\ M.fn = M.ci.instr.fn /\ M.rd = M.ci.instr.rd
        /\ M.wen = RegWen(M.cls)
    BY <1>4 DEF ArchPc, StagesHoldTheirInstructions, MemoryHoldsItsInstr
  <2>2. Seq!Current = M.ci.instr
    BY <2>1, SeqOperators DEF Seq!Current
  <2>3. /\ M.cls \in {"lui", "auipc", "op", "opimm", "load", "store"} => M.alu = Seq!ValE
        /\ M.b = Seq!ValB
        /\ M.ci.pre = Seq!NextPc
    BY <1>4 DEF MemoryStageIsSequential
  <2>4. M.cls \notin {"csrrw", "csrrs", "ecall", "mret"}
    <3>1. CASE M.pc \in DOMAIN imem
      BY <2>1, <3>1, NoSystemAssumption DEF InstrAt, TypeOK
    <3>2. CASE M.pc \notin DOMAIN imem
      BY <2>1, <3>2 DEF InstrAt, ZeroInstr
    <3>3. QED
      BY <3>1, <3>2
  <2>5. ArchPc' = Seq!NextPc
    BY <1>1, <1>4, <2>3 DEF InProgramOrder
  <2>6. ArchRegs' = Seq!NextRegs
    <3>1. Seq!RegWen <=> M.wen
      BY <2>1, <2>2, <2>4 DEF Seq!RegWen, RegWen
    <3>2. ASSUME M.wen PROVE MemResult = Seq!ValW
      <4>1. CASE M.cls \in {"jal", "jalr"}
        <5>1. Seq!ValW = Seq!ValP
          BY <2>1, <2>2, <4>1 DEF Seq!ValW
        <5>2. Seq!ValP = Add(M.pc, 4)
          BY <2>1, SeqOperators DEF Seq!ValP
        <5>3. QED
          BY <4>1, <5>1, <5>2 DEF MemResult
      <4>2. CASE M.cls = "load"
        <5>1. Seq!ValW = Seq!ValM
          BY <2>1, <2>2, <4>2 DEF Seq!ValW
        <5>2. Seq!ValM = LoadExt[<<M.fn, DpiMemRead(dmem, M.alu)>>]
          BY <2>1, <2>2, <2>3, <4>2, SeqOperators DEF Seq!ValM
        <5>3. QED
          BY <4>2, <5>1, <5>2 DEF MemResult, MemData
      <4>3. CASE M.cls \notin {"jal", "jalr", "load"}
        <5>1. M.cls \in {"op", "opimm", "lui", "auipc"}
          BY <2>1, <3>2, <4>3 DEF RegWen
        <5>2. Seq!ValW = Seq!ValE
          BY <2>1, <2>2, <5>1 DEF Seq!ValW
        <5>3. QED
          BY <2>3, <5>1, <5>2 DEF MemResult
      <4>4. QED
        BY <4>1, <4>2, <4>3
    <3>3. QED
      BY <1>1, <2>1, <2>2, <3>1, <3>2 DEF Seq!NextRegs, PendingRegs
  <2>7. dmem' = Seq!NextMem
    BY <1>1, <2>1, <2>2, <2>3, SeqOperators DEF Seq!NextMem, StoredMem
  <2>8. SeqCsr' = Seq!NextCsr
    BY <1>2, <2>1, <2>2, <2>4 DEF Seq!NextCsr
  <2>9. Seq!Clock
    BY <1>1, <2>5, <2>6, <2>7, <2>8 DEF Seq!Clock
  <2>10. QED
    BY <1>4, <2>2, <2>9
<1>5. QED
  BY <1>3, <1>4

\* With empty stages the sequential machine is where the pipeline is.
LEMMA ResetRefines ==
  ASSUME PipelineInv, ResetClock
  PROVE  Seq!ResetClock
<1> USE DEF PipelineInv
<1>1. /\ rst /\ rst' = FALSE /\ imem' = imem /\ pc' = ResetPc
      /\ regs' = [regs EXCEPT ![0] = 0] /\ dmem' = StoredMem
      /\ F' = BubbleF /\ D' = BubbleD /\ E' = BubbleE(E.imm) /\ M' = BubbleM /\ W' = BubbleW
  BY DEF ResetClock
<1>2. ArchPc' = ResetPc
  BY <1>1 DEF ArchPc, PendingPc, BubbleF, BubbleD, BubbleE, BubbleM, NoCommit
<1>3. ArchRegs = regs
  BY <1>1 DEF NothingInReset, StagesHoldTheirInstructions, WriteBackHoldsItsInstr,
     RegWen, ArchRegs, WrittenRegs
<1>4. ArchRegs' = regs'
  BY <1>1 DEF ArchRegs, WrittenRegs, BubbleW
<1>5. dmem' = Seq!NextMem
  <2>1. ArchPc = 0
    BY <1>1 DEF NothingInReset, ArchPc, PendingPc
  <2>2. Seq!Current = ZeroInstr
    BY <2>1, SeqOperators, PowerOnAssumption DEF Seq!Current, InstrAt, TypeOK
  <2>3. dmem' = dmem
    BY <1>1 DEF NothingInReset, StagesHoldTheirInstructions, MemoryHoldsItsInstr, StoredMem
  <2>4. QED
    BY <2>2, <2>3 DEF Seq!NextMem, ZeroInstr
<1>6. SeqCsr' = Seq!CsrReset
  BY <1>1 DEF SeqCsr, Seq!CsrReset, Seq!CsrName
<1>7. QED
  BY <1>1, <1>2, <1>3, <1>4, <1>5, <1>6 DEF Seq!ResetClock

\* At power on the sequential machine is in its initial state.
LEMMA InitRefines ==
  ASSUME InitCore
  PROVE  Seq!Init
<1>1. ArchPc = 0
  BY DEF InitCore, ArchPc, PendingPc, BubbleF, BubbleD, BubbleE, BubbleM, NoCommit
<1>2. ArchRegs = InitRegs
  BY DEF InitCore, ArchRegs, WrittenRegs, BubbleW
<1>3. SeqCsr = [c \in Seq!CsrName |-> 0]
  BY DEF InitCore, SeqCsr, Seq!CsrName
<1>4. QED
  BY <1>1, <1>2, <1>3 DEF InitCore, Seq!Init

\* A step that leaves the pipeline alone leaves the sequential machine alone.
LEMMA StutterRefines ==
  ASSUME UNCHANGED vars
  PROVE  UNCHANGED Seq!vars
<1>1. /\ rst' = rst /\ imem' = imem /\ pc' = pc /\ F' = F /\ D' = D /\ E' = E
      /\ M' = M /\ W' = W /\ regs' = regs /\ dmem' = dmem
  BY DEF vars, stages
<1>2. ArchPc' = ArchPc /\ WriteBackData' = WriteBackData /\ SeqCsr' = SeqCsr
  BY <1>1 DEF ArchPc, PendingPc, WriteBackData, SeqCsr
<1>3. ArchRegs' = ArchRegs
  BY <1>1, <1>2 DEF ArchRegs, WrittenRegs
<1>4. QED
  BY <1>1, <1>2, <1>3 DEF Seq!vars

\* The pipeline is the sequential machine, for every program without system
\* instructions, every data path and every size of the register file.
THEOREM Refinement == Spec => RefinesSequential
<1>1. Init => Seq!Init
  BY InitRefines DEF Init
<1>2. PipelineInv /\ [Next]_vars => [Seq!Next]_Seq!vars
  <2> SUFFICES ASSUME PipelineInv, [Next]_vars
               PROVE  Seq!Next \/ UNCHANGED Seq!vars
    OBVIOUS
  <2>1. CASE ResetClock
    BY <2>1, ResetRefines DEF Seq!Next
  <2>2. CASE Clock
    BY <2>2, EdgeRefines DEF Clock, Seq!Next
  <2>3. CASE UNCHANGED vars
    BY <2>3, StutterRefines
  <2>4. QED
    BY <2>1, <2>2, <2>3 DEF Next
<1>3. QED
  BY <1>1, <1>2, PipelineInvariant, PTL DEF Spec, RefinesSequential, Seq!Spec
=============================================================================
