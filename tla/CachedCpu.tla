------------------------------ MODULE CachedCpu ------------------------------
(***************************************************************************)
(* The processor of linux_cpu/top_cpu.v as it is built: the pipeline of    *)
(* PipelineCore with the read port of ICache in its fetch stage, the       *)
(* cache's output register being the instruction field of F.               *)
(***************************************************************************)
EXTENDS PipelineCorrect

CONSTANTS LineWords, NumSets, FillWays, JumpTargets

VARIABLE cache

IC == INSTANCE ICache WITH
    bubble         <- BranchBubble,
    stall          <- LoadUse,
    icache_o_instr <- F.instr

cpuVars == <<rst, imem, stages, cache>>

-----------------------------------------------------------------------------
CpuInit ==
    /\ InitCore
    /\ cache = [s \in 0 .. NumSets - 1 |-> [way \in {0, 1} |-> IC!EmptyLine]]

\* In reset nothing is fetched, whatever the cache holds.
CpuResetClock == ResetClock /\ UNCHANGED cache

\* A rising edge: the core takes what the cache's read port registers.
CpuClock ==
    /\ Edge(IC!NextInstr)
    /\ \E way \in FillWays : cache' = IC!NextCache(way)

CpuNext == CpuResetClock \/ CpuClock

CpuSpec == CpuInit /\ [][CpuNext]_cpuVars /\ WF_cpuVars(CpuNext)

-----------------------------------------------------------------------------
\* What the cache needs of its parameters and of the program: where the
\* program, run one instruction at a time, jumps, it jumps to JumpTargets.
CacheFits == IC!CacheSizes /\ IC!AlignedJumps /\ FillWays \subseteq {0, 1}
SeqJumps ==
    \/ Seq!Current.cls \in {"jal", "jalr"}
    \/ /\ Seq!Current.cls = "branch"
       /\ Taken[<<Seq!Current.fn, Seq!ValA, Seq!ValB>>]
JumpsToLineBases == SeqJumps => Seq!NextPc \in JumpTargets

\* Programs of which the text alone shows it: no jalr, and every branch and
\* jal goes to one of JumpTargets.
LineProgramsOnly ==
    \A prog \in Programs : \A a \in DOMAIN prog :
        /\ prog[a].cls # "jalr"
        /\ prog[a].cls \in {"branch", "jal"} => Add(a, prog[a].imm) \in JumpTargets

\* The core keeps to what ICache assumes of its environment: it never asks
\* for a stall and a bubble at once, holds its pc in a stall, and jumps only
\* to JumpTargets (which its programs choose).
DrivesTheCache == IC!Spec
=============================================================================
