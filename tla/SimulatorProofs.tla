-------------------------- MODULE SimulatorProofs --------------------------
(***************************************************************************)
(* Proofs about the processor as it is built, the pipeline with the cache  *)
(* on its fetch port, and about the simulator that compares it with the    *)
(* reference: for every program that jumps to the first words of lines,    *)
(* every data path, and caches, register files and memories of any size.   *)
(***************************************************************************)
EXTENDS Simulator, PipelineProofs

\* The theorems of ICacheProofs, for the core in the environment's place.
ICP == INSTANCE ICacheProofs WITH
    bubble         <- BranchBubble,
    stall          <- LoadUse,
    icache_o_instr <- F.instr

\* The joint invariant of core and cache.
CpuInv == PipelineInv /\ ICP!CacheInv

-----------------------------------------------------------------------------
\* The two instances name the same operators.
LEMMA SameVocabulary ==
  /\ ICP!Reg = Reg /\ ICP!Word = Word /\ ICP!Instr = Instr
  /\ \A prog, a : ICP!InstrAt(prog, a) = InstrAt(prog, a)
  /\ \A a, b : ICP!Add(a, b) = Add(a, b)
  BY DEF Reg, Word, Instr, Class, InstrAt, ZeroInstr, Add, ICP!Reg, ICP!Word,
     ICP!Instr, ICP!Class, ICP!InstrAt, ICP!ZeroInstr, ICP!Add

\* Both instances of the cache split an address the same way,
LEMMA SameAddresses ==
  \A a : /\ ICP!TagOf(a) = IC!TagOf(a) /\ ICP!IndexOf(a) = IC!IndexOf(a)
         /\ ICP!OffsetOf(a) = IC!OffsetOf(a)
  BY DEF ICP!TagOf, IC!TagOf, ICP!IndexOf, IC!IndexOf, ICP!OffsetOf, IC!OffsetOf,
     ICP!LineBytes, IC!LineBytes

\* and so have the same read port and the same next lines.
LEMMA SameCache ==
  /\ CacheFits <=> ICP!CacheFits
  /\ ICP!NextInstr = IC!NextInstr
  /\ \A way : ICP!NextCache(way) = IC!NextCache(way)
<1>1. \A way : ICP!Hit(way) = IC!Hit(way)
  BY SameAddresses DEF ICP!Hit, IC!Hit
<1>2. ICP!MemoryData = IC!MemoryData /\ ICP!ZeroInstr = IC!ZeroInstr
  BY DEF ICP!MemoryData, IC!MemoryData, ICP!InstrAt, IC!InstrAt, ICP!ZeroInstr,
     IC!ZeroInstr, ICP!Add, IC!Add
<1>3. ICP!SelectedData = IC!SelectedData
  BY <1>1, <1>2, SameAddresses DEF ICP!SelectedData, IC!SelectedData
<1>4. ICP!NextInstr = IC!NextInstr
  BY <1>2, <1>3, SameAddresses DEF ICP!NextInstr, IC!NextInstr
<1>5. \A way : ICP!NextCache(way) = IC!NextCache(way)
  BY <1>1, <1>2, SameAddresses DEF ICP!NextCache, IC!NextCache, ICP!Filling, IC!Filling
<1>6. CacheFits <=> ICP!CacheFits
  BY DEF CacheFits, ICP!CacheFits, ICP!CacheSizes, IC!CacheSizes, ICP!AlignedJumps,
     IC!AlignedJumps, ICP!LineBytes, IC!LineBytes, ICP!Word, IC!Word
<1>7. QED
  BY <1>4, <1>5, <1>6

\* The lemmas of ICacheProofs with the assumptions they were proved from.
LEMMA FetchedWord ==
  ASSUME CacheFits, ICP!CacheInv, ~rst, ~BranchBubble, ~LoadUse
  PROVE  IC!NextInstr = InstrAt(imem, pc)
<1>1. ICP!CacheFits /\ ICP!CacheSizes
  BY SameCache DEF ICP!CacheFits
<1>2. ICP!NextInstr = ICP!InstrAt(imem, pc)
  BY <1>1, SameVocabulary, ICP!FetchIsMemory, SizesAssumption, DataPathAssumption,
     PowerOnAssumption
<1>3. QED
  BY <1>2, SameCache, SameVocabulary

\* A step of the core's cache keeps the cache's invariant,
LEMMA CacheKept ==
  ASSUME CacheFits, ICP!CacheInv, [ICP!Next]_ICP!vars
  PROVE  ICP!CacheInv'
<1>1. ICP!CacheFits /\ ICP!CacheSizes
  BY SameCache DEF ICP!CacheFits
<1>2. QED
  BY <1>1, SameVocabulary, ICP!CacheStep, SizesAssumption, DataPathAssumption,
     PowerOnAssumption

\* which holds of the empty cache.
LEMMA CacheEmpty ==
  ASSUME CacheFits, ICP!Init
  PROVE  ICP!CacheInv
<1>1. ICP!CacheFits /\ ICP!CacheSizes
  BY SameCache DEF ICP!CacheFits
<1>2. QED
  BY <1>1, SameVocabulary, ICP!CacheStarts, SizesAssumption, DataPathAssumption,
     PowerOnAssumption

-----------------------------------------------------------------------------
\* A jump in execute goes where the sequential machine goes when, one edge
\* later, it executes that instruction: to the first word of a line.
LEMMA JumpsAligned ==
  ASSUME PipelineInv, NEW instr, Edge(instr), PipelineInv', NeedJump, JumpsToLineBases'
  PROVE  pc' \in JumpTargets
<1> USE DEF PipelineInv
<1>1. E.ci.commit /\ pc' = JumpPc /\ M' = NextM /\ imem' = imem
  BY EdgeModes, ModesCommit
<1>2. /\ M'.ci.commit /\ M'.ci.pre = JumpPc /\ M'.ci.instr = E.ci.instr
      /\ M'.ci.pc = E.ci.pc /\ M'.pc = E.pc /\ M'.b = E.b
  BY <1>1 DEF NextM, ExecuteCommit, TypeOK, RegE, CommitInfo
<1>3. /\ E.ci.instr = InstrAt(imem, E.pc) /\ E.ci.pc = E.pc
      /\ E.cls = E.ci.instr.cls /\ E.fn = E.ci.instr.fn
  BY <1>1 DEF StagesHoldTheirInstructions, ExecuteHoldsItsInstr
<1>4. Seq!Current' = E.ci.instr
  BY <1>1, <1>2, <1>3, SeqOperators DEF Seq!Current, ArchPc
<1>5. Seq!ValA' = E.a
  <2>1. ArchRegs' = PendingRegs
    BY EdgeModes, ArchRegsShift
  <2>2. Seq!ValA' = ArchRegs'[E.ci.instr.rs1]
    BY <1>4 DEF Seq!ValA
  <2>3. QED
    BY <1>1, <2>1, <2>2 DEF OperandsAreArchitectural
<1>6. Seq!ValB' = E.b
  BY <1>2 DEF MemoryStageIsSequential
<1>7. SeqJumps'
  BY <1>3, <1>4, <1>5, <1>6 DEF NeedJump, SeqJumps
<1>8. Seq!NextPc' = JumpPc
  BY <1>2 DEF MemoryStageIsSequential
<1>9. QED
  BY <1>1, <1>7, <1>8 DEF JumpsToLineBases

\* Stall and bubble are wires, and never both high (ctrl.v).
LEMMA ControlWires ==
  ASSUME TypeOK
  PROVE  /\ BranchBubble \in BOOLEAN /\ LoadUse \in BOOLEAN
         /\ ~(BranchBubble /\ LoadUse)
<1>1. E.a \in Word /\ E.b \in Word /\ E.fn \in Fn
  BY DEF TypeOK, RegE
<1>2. Taken[<<E.fn, E.a, E.b>>] \in BOOLEAN
  BY <1>1, DataPathAssumption
<1>3. QED
  BY <1>2 DEF BranchBubble, NeedJump, LoadUse

\* An edge of the processor is an edge of the ideal pipeline, and one of the
\* cache in an environment that keeps to what ICache assumes of it.
LEMMA CpuClockKeeps ==
  ASSUME CacheFits, CpuInv, CpuClock, JumpsToLineBases'
  PROVE  CpuInv' /\ ICP!Clock
<1> DEFINE instr == IC!NextInstr
<1>1. Edge(instr) /\ ~rst /\ rst' = rst /\ imem' = imem
  BY DEF CpuClock, Edge
<1>2. BranchBubble \in BOOLEAN /\ LoadUse \in BOOLEAN /\ ~(BranchBubble /\ LoadUse)
  BY ControlWires DEF CpuInv, PipelineInv
<1>3. ~LoadUse /\ ~NeedJump => instr = InstrAt(imem, pc)
  BY <1>1, FetchedWord DEF CpuInv, BranchBubble
<1>4. BranchBubble => instr = ZeroInstr
  BY DEF IC!NextInstr, IC!ZeroInstr, ZeroInstr
<1>5. LoadUse => instr = F.instr
  BY <1>1, <1>2 DEF IC!NextInstr
<1> HIDE DEF instr
<1>6. instr \in Instr
  <2>1. F.instr \in Instr /\ InstrAt(imem, pc) \in Instr
    BY InstrAtType DEF CpuInv, PipelineInv, TypeOK, RegF
  <2>2. QED
    BY <1>3, <1>4, <1>5, <2>1, ConstantTypes DEF BranchBubble
<1>7. PipelineInv'
  BY <1>1, <1>3, <1>6, InvEdge DEF CpuInv
<1>8. BranchBubble => pc' \in JumpTargets
  BY <1>1, <1>7, JumpsAligned DEF CpuInv, BranchBubble
<1>9. ~BranchBubble => pc' = IF LoadUse THEN pc ELSE Add(pc, 4)
  BY <1>1, EdgeModes DEF BranchBubble
<1>10. F'.instr = instr
  BY <1>1, <1>2, <1>3, <1>4, <1>5, EdgeModes DEF BranchBubble, BubbleF
<1>11. BranchBubble' \in BOOLEAN /\ LoadUse' \in BOOLEAN /\ ~(BranchBubble' /\ LoadUse')
  <2>1. TypeOK'
    BY <1>7 DEF PipelineInv
  <2>2. E'.a \in Word /\ E'.b \in Word /\ E'.fn \in Fn
    BY <2>1 DEF TypeOK, RegE
  <2>3. Taken[<<E'.fn, E'.a, E'.b>>] \in BOOLEAN
    BY <2>2, DataPathAssumption
  <2>4. QED
    BY <2>3 DEF BranchBubble, NeedJump, LoadUse
<1>12. ICP!CacheEdge
  BY <1>1, <1>10, SameCache DEF CpuClock, ICP!CacheEdge, instr
<1>13. ICP!Clock
  BY <1>1, <1>2, <1>8, <1>9, <1>11, <1>12, SameVocabulary DEF ICP!Clock
<1>14. ICP!CacheInv'
  BY <1>13, CacheKept DEF CpuInv, ICP!Next
<1>15. QED
  BY <1>7, <1>13, <1>14 DEF CpuInv

\* In reset the read port holds a bubble and nothing is filled.
LEMMA CpuResetKeeps ==
  ASSUME CacheFits, CpuInv, CpuResetClock
  PROVE  CpuInv' /\ ICP!ResetClock
<1>1. /\ rst /\ rst' = FALSE /\ pc' = ResetPc /\ cache' = cache /\ imem' = imem
      /\ F' = BubbleF /\ E' = BubbleE(E.imm) /\ ResetClock
  BY DEF CpuResetClock, ResetClock
<1>2. PipelineInv'
  BY <1>1, InvReset DEF CpuInv
<1>3. BranchBubble' = FALSE /\ LoadUse' = FALSE
  BY <1>1 DEF BranchBubble, NeedJump, LoadUse, BubbleE
<1>4. F'.instr = ICP!NextInstr
  BY <1>1 DEF ICP!NextInstr, ICP!ZeroInstr, BubbleF, ZeroInstr
<1>5. \E way \in FillWays : cache' = ICP!NextCache(way)
  <2>1. FillWays # {}
    BY DEF CacheFits, IC!CacheSizes
  <2>2. \A way : cache = ICP!NextCache(way)
    BY <1>1 DEF ICP!NextCache, ICP!Filling
  <2>3. QED
    BY <1>1, <2>1, <2>2
<1>6. ICP!ResetClock
  BY <1>1, <1>3, <1>4, <1>5 DEF ICP!ResetClock, ICP!CacheEdge
<1>7. ICP!CacheInv'
  BY <1>6, CacheKept DEF CpuInv, ICP!Next
<1>8. QED
  BY <1>2, <1>6, <1>7 DEF CpuInv

\* Where nothing moves, neither part does.
LEMMA CpuStutter ==
  ASSUME CacheFits, CpuInv, UNCHANGED cpuVars
  PROVE  CpuInv' /\ UNCHANGED ICP!vars
<1>1. UNCHANGED vars /\ cache' = cache
  BY DEF cpuVars, vars
<1>2. UNCHANGED ICP!vars
  BY <1>1 DEF ICP!vars, vars, stages, BranchBubble, NeedJump, LoadUse
<1>3. QED
  BY <1>1, <1>2, InvStutter, CacheKept DEF CpuInv

\* Core and cache start as each of them starts alone.
LEMMA CpuStarts ==
  ASSUME CacheFits, CpuInit
  PROVE  CpuInv /\ ICP!Init
<1>1. PipelineInv
  BY InvInit DEF CpuInit
<1>2. BranchBubble = FALSE /\ LoadUse = FALSE
  BY DEF CpuInit, InitCore, BubbleE, BranchBubble, NeedJump, LoadUse
<1>3. ICP!EmptyLine = IC!EmptyLine
  BY DEF ICP!EmptyLine, IC!EmptyLine, ICP!ZeroInstr, IC!ZeroInstr
<1>4. ICP!Init
  BY <1>2, <1>3 DEF CpuInit, InitCore, BubbleF, ZeroInstr, ICP!Init, ICP!ZeroInstr
<1>5. QED
  BY <1>1, <1>4, CacheEmpty DEF CpuInv

\* One step of the processor, whatever it is.
LEMMA CpuStep ==
  ASSUME CacheFits, CpuInv, [CpuNext]_cpuVars, JumpsToLineBases'
  PROVE  /\ CpuInv'
         /\ [Seq!Next]_Seq!vars
         /\ [ICP!Next]_ICP!vars
<1>1. CASE CpuResetClock
  <2>1. CpuInv' /\ ICP!ResetClock
    BY <1>1, CpuResetKeeps
  <2>2. Seq!ResetClock
    BY <1>1, ResetRefines DEF CpuInv, CpuResetClock
  <2>3. QED
    BY <2>1, <2>2 DEF Seq!Next, ICP!Next
<1>2. CASE CpuClock
  <2>1. CpuInv' /\ ICP!Clock
    BY <1>2, CpuClockKeeps
  <2>2. Seq!Clock \/ UNCHANGED Seq!vars
    BY <1>2, EdgeRefines DEF CpuInv, CpuClock
  <2>3. QED
    BY <2>1, <2>2 DEF Seq!Next, ICP!Next
<1>3. CASE UNCHANGED cpuVars
  <2>1. CpuInv' /\ UNCHANGED ICP!vars
    BY <1>3, CpuStutter
  <2>2. UNCHANGED Seq!vars
    BY <1>3, StutterRefines DEF cpuVars, vars
  <2>3. QED
    BY <2>1, <2>2
<1>4. QED
  BY <1>1, <1>2, <1>3 DEF CpuNext

\* A step of the cache, in the words of CachedCpu's own instance.
LEMMA SameCacheStep ==
  /\ ICP!Init <=> IC!Init
  /\ [ICP!Next]_ICP!vars <=> [IC!Next]_IC!vars
<1>1. ICP!EmptyLine = IC!EmptyLine /\ ICP!ZeroInstr = IC!ZeroInstr
  BY DEF ICP!EmptyLine, IC!EmptyLine, ICP!ZeroInstr, IC!ZeroInstr
<1>2. ICP!Init <=> IC!Init
  BY <1>1 DEF ICP!Init, IC!Init
<1>3. ICP!CacheEdge <=> IC!CacheEdge
  BY SameCache DEF ICP!CacheEdge, IC!CacheEdge
<1>4. ICP!ResetClock <=> IC!ResetClock
  BY <1>3 DEF ICP!ResetClock, IC!ResetClock
<1>5. ICP!Clock <=> IC!Clock
  BY <1>3 DEF ICP!Clock, IC!Clock, ICP!Add, IC!Add
<1>6. (UNCHANGED ICP!vars) <=> (UNCHANGED IC!vars)
  BY DEF ICP!vars, IC!vars
<1>7. QED
  BY <1>2, <1>4, <1>5, <1>6 DEF ICP!Next, IC!Next

-----------------------------------------------------------------------------
\* The processor with its cache is the sequential machine, on every program
\* that the sequential machine sees jump to line bases only.
THEOREM CachedRefinement ==
  ASSUME CacheFits
  PROVE  CpuSpec /\ []JumpsToLineBases => RefinesSequential
<1>1. CpuInit => CpuInv /\ Seq!Init
  BY CpuStarts, InitRefines DEF CpuInit
<1>2. CpuInv /\ [CpuNext]_cpuVars /\ JumpsToLineBases' => CpuInv' /\ [Seq!Next]_Seq!vars
  BY CpuStep
<1>3. QED
  BY <1>1, <1>2, PTL DEF CpuSpec, RefinesSequential, Seq!Spec

\* And the core drives the cache as ICache assumes of its environment.
THEOREM CoreFitsTheCache ==
  ASSUME CacheFits
  PROVE  CpuSpec /\ []JumpsToLineBases => DrivesTheCache
<1>1. CpuInit => CpuInv /\ IC!Init
  BY CpuStarts, SameCacheStep
<1>2. CpuInv /\ [CpuNext]_cpuVars /\ JumpsToLineBases' => CpuInv' /\ [IC!Next]_IC!vars
  BY CpuStep, SameCacheStep
<1>3. QED
  BY <1>1, <1>2, PTL DEF CpuSpec, DrivesTheCache, IC!Spec

\* A program without jalr whose branches and jals go to line bases.
LEMMA TextShowsJumps ==
  ASSUME LineProgramsOnly, imem \in Programs
  PROVE  JumpsToLineBases
<1> SUFFICES ASSUME SeqJumps
             PROVE  Seq!NextPc \in JumpTargets
  BY DEF JumpsToLineBases
<1> DEFINE i == Seq!Current
<1>1. i.cls \in {"jal", "jalr", "branch"}
  BY DEF SeqJumps
<1>2. ArchPc \in DOMAIN imem /\ i = imem[ArchPc]
  BY <1>1, SeqOperators DEF Seq!Current, InstrAt, ZeroInstr
<1>3. i.cls \in {"jal", "branch"} /\ Add(ArchPc, i.imm) \in JumpTargets
  BY <1>1, <1>2 DEF LineProgramsOnly
<1>4. Seq!ValE = Add(ArchPc, i.imm)
  BY <1>3, SeqOperators DEF Seq!ValE, Seq!ExuA, Seq!ExuB
<1>5. Seq!NextPc = Seq!ValE
  BY DEF SeqJumps, Seq!NextPc
<1>6. QED
  BY <1>3, <1>4, <1>5

\* The program does not change, so that what its text shows of jumps lasts.
LEMMA ProgramFixed ==
  ASSUME LineProgramsOnly
  PROVE  CpuSpec => []JumpsToLineBases
<1>1. CpuInit => imem \in Programs
  BY DEF CpuInit, InitCore
<1>2. imem \in Programs /\ [CpuNext]_cpuVars => (imem \in Programs)'
  BY DEF CpuNext, CpuResetClock, ResetClock, CpuClock, Edge, cpuVars
<1>3. imem \in Programs => JumpsToLineBases
  BY TextShowsJumps
<1>4. QED
  BY <1>1, <1>2, <1>3, PTL DEF CpuSpec

\* For such programs the text alone is enough, and nothing is assumed of a
\* behaviour.
THEOREM LineProgramsRefine ==
  ASSUME CacheFits, LineProgramsOnly
  PROVE  CpuSpec => RefinesSequential /\ DrivesTheCache
<1>1. CpuSpec => []JumpsToLineBases
  BY ProgramFixed
<1>2. CpuSpec /\ []JumpsToLineBases => RefinesSequential
  BY CachedRefinement
<1>3. CpuSpec /\ []JumpsToLineBases => DrivesTheCache
  BY CoreFitsTheCache
<1>4. QED
  BY <1>1, <1>2, <1>3, PTL

-----------------------------------------------------------------------------
(* The simulator and its reference. *)

\* The reference is where the design is, or the design has an instruction in
\* write back that the reference is about to execute.
InStep ==
  IF W.ci.commit
  THEN /\ refPc = W.ci.pc /\ refRegs = regs
       /\ W.ci.instr = Ref!Current /\ W.ci.pre = Ref!NextPc
       /\ ArchPc = Ref!NextPc /\ ArchRegs = Ref!NextRegs /\ dmem = Ref!NextMem
  ELSE refPc = ArchPc /\ refRegs = ArchRegs /\ refMem = dmem

\* The invariant of a simulation.
SimInv ==
  /\ CpuInv
  /\ ~exited
  /\ rst => sim_state = "SIM_STOP"
  /\ sim_state \in {"SIM_STOP", "SIM_RUNNING", "SIM_END"}
  /\ sim_state = "SIM_END" => W.ci.commit /\ W.ci.instr.cls = "ebreak"
  /\ ~rst => InStep

\* The reference and the design are built from the same operators.
LEMMA RefOperators ==
  /\ \A a, b : Ref!Add(a, b) = Add(a, b)
  /\ \A a : Ref!ClearBit0(a) = ClearBit0(a)
  /\ \A prog, a : Ref!InstrAt(prog, a) = InstrAt(prog, a)
  /\ \A mem, a : Ref!DpiMemRead(mem, a) = DpiMemRead(mem, a)
  /\ \A mem, fn, a, v : Ref!DpiMemWrite(mem, fn, a, v) = DpiMemWrite(mem, fn, a, v)
  BY Zenon DEF Ref!Add, Add, Ref!ClearBit0, ClearBit0, Ref!InstrAt, InstrAt,
     Ref!ZeroInstr, ZeroInstr, Ref!DpiMemRead, DpiMemRead, Ref!DpiMemWrite, DpiMemWrite

\* No program holds an instruction that reads the CSRs, in which the
\* reference differs from the sequential machine under the pipeline.
LEMMA NoSystem ==
  ASSUME imem \in Programs, NEW a
  PROVE  InstrAt(imem, a).cls \notin {"csrrw", "csrrs", "ecall", "mret"}
  BY NoSystemAssumption DEF InstrAt, ZeroInstr

\* A reference that takes over the state of the design executes what the
\* sequential machine under the pipeline executes.
LEMMA RefIsSeq ==
  ASSUME imem \in Programs, imem' = imem,
         refPc' = ArchPc, refRegs' = ArchRegs, refMem' = dmem
  PROVE  /\ Ref!Current' = Seq!Current /\ Ref!NextPc' = Seq!NextPc
         /\ Ref!NextRegs' = Seq!NextRegs /\ Ref!NextMem' = Seq!NextMem
<1>1. Ref!Current' = Seq!Current
  BY SeqOperators, RefOperators DEF Ref!Current, Seq!Current
<1> DEFINE i == Seq!Current
<1>2. i.cls \notin {"csrrw", "csrrs", "ecall", "mret"}
  BY NoSystem, SeqOperators DEF Seq!Current
<1>3. Ref!ValA' = Seq!ValA /\ Ref!ValB' = Seq!ValB /\ Ref!ValP' = Seq!ValP
  BY <1>1, SeqOperators, RefOperators DEF Ref!ValA, Seq!ValA, Ref!ValB, Seq!ValB,
     Ref!ValP, Seq!ValP
<1>4. Ref!ExuA' = Seq!ExuA /\ Ref!ExuB' = Seq!ExuB
  BY <1>1, <1>3 DEF Ref!ExuA, Seq!ExuA, Ref!ExuB, Seq!ExuB
<1>5. Ref!ValE' = Seq!ValE
  BY <1>1, <1>4, SeqOperators, RefOperators DEF Ref!ValE, Seq!ValE
<1>6. Ref!ValM' = Seq!ValM
  BY <1>1, <1>5, SeqOperators, RefOperators DEF Ref!ValM, Seq!ValM
<1>7. Ref!NextPc' = Seq!NextPc
  BY <1>1, <1>2, <1>3, <1>5 DEF Ref!NextPc, Seq!NextPc
<1>8. Ref!RegWen' = Seq!RegWen
  BY <1>1 DEF Ref!RegWen, Seq!RegWen
<1>9. Ref!ValW' = Seq!ValW
  BY <1>1, <1>2, <1>3, <1>5, <1>6 DEF Ref!ValW, Seq!ValW
<1>10. Ref!NextRegs' = Seq!NextRegs
  BY <1>1, <1>8, <1>9 DEF Ref!NextRegs, Seq!NextRegs
<1>11. Ref!NextMem' = Seq!NextMem
  BY <1>1, <1>3, <1>5, SeqOperators, RefOperators DEF Ref!NextMem, Seq!NextMem
<1>12. QED
  BY <1>1, <1>7, <1>10, <1>11

\* An edge on which the reference takes over the design's state leaves the
\* two in step: what the edge brings to write back is what comes next.
LEMMA EdgeInStep ==
  ASSUME PipelineInv, NEW instr, Edge(instr),
         refPc' = ArchPc, refRegs' = ArchRegs, refMem' = dmem
  PROVE  InStep'
<1>1. W' = NextW /\ regs' = ArchRegs /\ imem' = imem /\ imem \in Programs
  BY EdgeModes DEF ArchRegs, PipelineInv, TypeOK
<1>2. W'.ci = M.ci
  BY <1>1 DEF NextW
<1>3. CASE ~M.ci.commit
  <2>1. ArchPc' = ArchPc /\ ArchRegs' = ArchRegs /\ dmem' = dmem
    BY <1>3, EdgeRefines DEF Seq!vars
  <2>2. QED
    BY <1>2, <1>3, <2>1 DEF InStep
<1>4. CASE M.ci.commit
  <2>1. /\ Seq!Current = M.ci.instr /\ ArchPc' = Seq!NextPc /\ ArchRegs' = Seq!NextRegs
        /\ dmem' = Seq!NextMem
    BY <1>4, EdgeRefines DEF Seq!Clock
  <2>2. M.ci.pre = Seq!NextPc /\ ArchPc = M.ci.pc
    BY <1>4 DEF PipelineInv, MemoryStageIsSequential, ArchPc
  <2>3. /\ Ref!Current' = Seq!Current /\ Ref!NextPc' = Seq!NextPc
        /\ Ref!NextRegs' = Seq!NextRegs /\ Ref!NextMem' = Seq!NextMem
    BY <1>1, RefIsSeq
  <2>4. QED
    BY <1>1, <1>2, <1>4, <2>1, <2>2, <2>3 DEF InStep
<1>5. QED
  BY <1>3, <1>4

\* execute's loop while (dut.commit != 1).
LEMMA AwaitKeeps ==
  ASSUME CacheFits, SimInv, AwaitCommit, JumpsToLineBases'
  PROVE  SimInv'
<1>1. CpuInv'
  BY CpuClockKeeps DEF SimInv, AwaitCommit
<1>2. Edge(IC!NextInstr) /\ ~rst /\ rst' = rst
  BY DEF AwaitCommit, CpuClock, Edge
<1>3. refPc' = ArchPc /\ refRegs' = ArchRegs /\ refMem' = dmem
  BY <1>2 DEF SimInv, InStep, AwaitCommit, refVars
<1>4. InStep'
  BY <1>2, <1>3, EdgeInStep DEF SimInv, CpuInv
<1>5. QED
  BY <1>1, <1>2, <1>4 DEF SimInv, AwaitCommit

\* The rest of an iteration: checkregs finds nothing to complain of.
LEMMA CompareKeeps ==
  ASSUME CacheFits, SimInv, CommitAndCompare, JumpsToLineBases'
  PROVE  SimInv'
<1>1. CpuInv'
  BY CpuClockKeeps DEF SimInv, CommitAndCompare
<1>2. Edge(IC!NextInstr) /\ ~rst /\ rst' = rst
  BY DEF CommitAndCompare, CpuClock, Edge
<1>3. refPc' = ArchPc /\ refRegs' = ArchRegs /\ refMem' = dmem
  BY <1>2 DEF SimInv, InStep, CommitAndCompare, RefExec
<1>4. InStep'
  BY <1>2, <1>3, EdgeInStep DEF SimInv, CpuInv
<1>5. exited' = FALSE
  <2>1. refPc' = W.ci.pre
    BY <1>2 DEF SimInv, InStep, CommitAndCompare, RefExec
  <2>2. regs' = ArchRegs
    BY <1>2, EdgeModes DEF ArchRegs
  <2>3. QED
    BY <1>3, <2>1, <2>2 DEF CommitAndCompare, Differs
<1>6. QED
  BY <1>1, <1>2, <1>4, <1>5 DEF SimInv, CommitAndCompare

\* npc_init resets the design and finds its reset pc; init_difftest copies
\* the state the reset leaves.
LEMMA StartKeeps ==
  ASSUME CacheFits, SimInv, InitSimulator
  PROVE  SimInv'
<1>1. CpuInv' /\ pc' = ResetPc /\ rst' = FALSE
  BY CpuResetKeeps DEF SimInv, InitSimulator, npc_init, CpuResetClock, ResetClock
<1>2. Seq!ResetClock /\ W' = BubbleW /\ ~W'.ci.commit
  BY ResetRefines DEF SimInv, CpuInv, InitSimulator, npc_init, CpuResetClock, ResetClock,
     BubbleW, NoCommit
<1>3. ArchPc' = ResetPc
  BY <1>2 DEF Seq!ResetClock
<1>4. ArchRegs' = regs'
  BY <1>2 DEF ArchRegs, WrittenRegs, BubbleW
<1>5. InStep'
  BY <1>1, <1>2, <1>3, <1>4 DEF InStep, InitSimulator, init_difftest
<1>6. QED
  BY <1>1, <1>5 DEF SimInv, InitSimulator, npc_init

\* What the simulator does without clocking the design or the reference leaves
\* them in step.
LEMMA UnclockedKeeps ==
  ASSUME CacheFits, SimInv, UNCHANGED <<cpuVars, refVars>>
  PROVE  CpuInv' /\ rst' = rst /\ W' = W /\ InStep' = InStep
<1>1. CpuInv' /\ UNCHANGED vars
  BY CpuStutter DEF SimInv, cpuVars, vars
<1>2. UNCHANGED Seq!vars
  BY <1>1, StutterRefines
<1>3. /\ rst' = rst /\ W' = W /\ imem' = imem /\ regs' = regs /\ dmem' = dmem
      /\ refPc' = refPc /\ refRegs' = refRegs /\ refMem' = refMem
      /\ ArchPc' = ArchPc /\ ArchRegs' = ArchRegs
  BY <1>1, <1>2 DEF vars, stages, refVars, Seq!vars
<1>4. /\ Ref!Current' = Ref!Current /\ Ref!ValA' = Ref!ValA /\ Ref!ValB' = Ref!ValB
      /\ Ref!ValP' = Ref!ValP
  BY <1>3 DEF Ref!Current, Ref!ValA, Ref!ValB, Ref!ValP
<1>5. Ref!ValE' = Ref!ValE
  BY <1>3, <1>4 DEF Ref!ValE, Ref!ExuA, Ref!ExuB
<1>6. Ref!ValW' = Ref!ValW /\ Ref!RegWen' = Ref!RegWen
  <2>1. Ref!ValM' = Ref!ValM /\ Ref!ValR' = Ref!ValR
    BY <1>3, <1>4, <1>5 DEF Ref!ValM, Ref!ValR
  <2>2. QED
    BY <1>4, <1>5, <2>1 DEF Ref!ValW, Ref!RegWen
<1>7. /\ Ref!NextPc' = Ref!NextPc /\ Ref!NextRegs' = Ref!NextRegs
      /\ Ref!NextMem' = Ref!NextMem
  BY <1>3, <1>4, <1>5, <1>6 DEF Ref!NextPc, Ref!NextRegs, Ref!NextMem
<1>8. InStep' = InStep
  BY <1>3, <1>4, <1>7 DEF InStep
<1>9. QED
  BY <1>1, <1>3, <1>8

\* Every step of the simulator keeps its invariant.
LEMMA SimStep ==
  ASSUME CacheFits, SimInv, [SimNext]_simVars, JumpsToLineBases'
  PROVE  SimInv'
<1>1. CASE InitSimulator
  BY <1>1, StartKeeps
<1>2. CASE CpuExec
  BY <1>2, UnclockedKeeps DEF CpuExec, SimInv
<1>3. CASE AwaitCommit
  BY <1>3, AwaitKeeps
<1>4. CASE CommitAndCompare
  BY <1>4, CompareKeeps
<1>5. CASE CommitEbreak
  <2>1. CpuInv' /\ rst' = rst /\ W' = W /\ InStep' = InStep
    BY <1>5, UnclockedKeeps DEF CommitEbreak
  <2>2. QED
    BY <1>5, <2>1 DEF CommitEbreak, SimInv
<1>6. CASE UNCHANGED simVars
  <2>1. CpuInv' /\ rst' = rst /\ W' = W /\ InStep' = InStep
    BY <1>6, UnclockedKeeps DEF simVars
  <2>2. sim_state' = sim_state /\ exited' = exited
    BY <1>6 DEF simVars
  <2>3. QED
    BY <2>1, <2>2 DEF SimInv
<1>7. QED
  BY <1>1, <1>2, <1>3, <1>4, <1>5, <1>6 DEF SimNext

\* The simulator starts with the design in reset.
LEMMA SimStarts ==
  ASSUME CacheFits, SimInit
  PROVE  SimInv
<1>1. CpuInv /\ rst
  BY CpuStarts DEF SimInit, CpuInit, InitCore
<1>2. QED
  BY <1>1 DEF SimInit, SimInv

\* At the ebreak in write back the reference has executed everything before.
LEMMA EbreakExact ==
  ASSUME SimInv
  PROVE  StopsExactlyAtEbreak
<1> SUFFICES ASSUME sim_state = "SIM_END"
             PROVE  refPc = W.ci.pc /\ refRegs = regs /\ refMem = dmem
  BY DEF StopsExactlyAtEbreak
<1>1. W.ci.commit /\ W.ci.instr.cls = "ebreak" /\ ~rst
  BY DEF SimInv
<1>2. refPc = W.ci.pc /\ refRegs = regs /\ Ref!Current.cls = "ebreak" /\ dmem = Ref!NextMem
  BY <1>1 DEF SimInv, InStep
<1>3. Ref!NextMem = refMem
  BY <1>2 DEF Ref!NextMem
<1>4. QED
  BY <1>2, <1>3

\* difftest never calls exit(1) on this processor (difftest.c:67-91), whose
\* reference executes one instruction per commit.
THEOREM DifftestPasses ==
  ASSUME CacheFits
  PROVE  SimSpec /\ []JumpsToLineBases => []DifftestNeverFails
<1>1. SimInit => SimInv
  BY SimStarts
<1>2. SimInv /\ [SimNext]_simVars /\ JumpsToLineBases' => SimInv'
  BY SimStep
<1>3. SimInv => DifftestNeverFails
  BY DEF SimInv, DifftestNeverFails
<1>4. QED
  BY <1>1, <1>2, <1>3, PTL DEF SimSpec

\* And a run that ebreak ends has executed what lies before the ebreak, all
\* of it and nothing more (sim.c, execute).
THEOREM EbreakStops ==
  ASSUME CacheFits
  PROVE  SimSpec /\ []JumpsToLineBases => []StopsExactlyAtEbreak
<1>1. SimInit => SimInv
  BY SimStarts
<1>2. SimInv /\ [SimNext]_simVars /\ JumpsToLineBases' => SimInv'
  BY SimStep
<1>3. SimInv => StopsExactlyAtEbreak
  BY EbreakExact
<1>4. QED
  BY <1>1, <1>2, <1>3, PTL DEF SimSpec

\* Both, with the condition on the text of the programs alone.
THEOREM LineProgramsSimulate ==
  ASSUME CacheFits, LineProgramsOnly
  PROVE  SimSpec => []DifftestNeverFails /\ []StopsExactlyAtEbreak
<1>1. SimInit => imem \in Programs
  BY DEF SimInit, CpuInit, InitCore
<1>2. imem \in Programs /\ [SimNext]_simVars => (imem \in Programs)'
  BY DEF SimNext, InitSimulator, npc_init, CpuExec, AwaitCommit, CommitAndCompare,
     CommitEbreak, CpuResetClock, ResetClock, CpuClock, Edge, simVars, cpuVars
<1>3. imem \in Programs => JumpsToLineBases
  BY TextShowsJumps
<1>4. SimSpec => []JumpsToLineBases
  BY <1>1, <1>2, <1>3, PTL DEF SimSpec
<1>5. SimSpec /\ []JumpsToLineBases => []DifftestNeverFails
  BY DifftestPasses
<1>6. SimSpec /\ []JumpsToLineBases => []StopsExactlyAtEbreak
  BY EbreakStops
<1>7. QED
  BY <1>4, <1>5, <1>6, PTL
=============================================================================
