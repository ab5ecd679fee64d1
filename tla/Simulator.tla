------------------------------ MODULE Simulator ------------------------------
(***************************************************************************)
(* The simulator of src/simulator around the processor of CachedCpu: it    *)
(* resets the design, clocks it until an instruction commits, clocks once  *)
(* more so that the registers show that instruction, and then lets a       *)
(* reference processor execute one instruction and compares (difftest).    *)
(*                                                                         *)
(* The simulator is one thread: an action is what it does between two      *)
(* tests of dut.commit.  The reference is a library the repository does    *)
(* not hold, loaded by dlopen; it is modelled from how difftest.c uses it, *)
(* as a sequential processor with its own registers and memory.            *)
(***************************************************************************)
EXTENDS CachedCpu

CONSTANT A0   \* the register that halt() of the guest leaves its code in

VARIABLES
    sim_state,                 \* sim_state.state
    halt_ret,                  \* sim_state.halt_ret
    exited,                    \* exit(1) was called
    refPc, refRegs, refMem     \* the state of the reference

refVars == <<refPc, refRegs, refMem>>
simVars == <<cpuVars, sim_state, halt_ret, exited, refVars>>

Ref == INSTANCE SingleCycleCpu WITH
    pc   <- refPc,
    regs <- refRegs,
    dmem <- refMem,
    csr  <- [c \in {"mstatus", "mtvec", "mepc", "mcause"} |-> 0]

-----------------------------------------------------------------------------
SimInit ==
    /\ CpuInit
    /\ sim_state = "SIM_STOP"
    /\ halt_ret = 0
    /\ exited = FALSE
    /\ refPc = 0
    /\ refRegs = [r \in Reg |-> 0]
    /\ refMem = InitMem

\* npc_init resets the design for one clock and insists on the reset pc.
npc_init ==
    /\ CpuResetClock
    /\ exited' = (pc' # ResetPc)

\* init_difftest copies image, registers and pc to the reference.
init_difftest ==
    /\ refMem' = dmem'
    /\ refPc' = pc' /\ refRegs' = regs'

\* init_simulator: one after the other; dmem is the image.
InitSimulator ==
    /\ sim_state = "SIM_STOP" /\ rst
    /\ npc_init /\ init_difftest
    /\ UNCHANGED <<sim_state, halt_ret>>

\* cpu_exec, before it calls execute.
CpuExec ==
    /\ sim_state = "SIM_STOP" /\ ~rst /\ ~exited
    /\ sim_state' = "SIM_RUNNING"
    /\ UNCHANGED <<cpuVars, halt_ret, exited, refVars>>

\* execute: while (dut.commit != 1) npc_single_cycle();
AwaitCommit ==
    /\ sim_state = "SIM_RUNNING" /\ ~exited
    /\ ~W.ci.commit
    /\ CpuClock
    /\ UNCHANGED <<sim_state, halt_ret, exited, refVars>>

\* ref_difftest_exec(1)
RefExec ==
    /\ refPc' = Ref!NextPc
    /\ refRegs' = Ref!NextRegs
    /\ refMem' = Ref!NextMem

\* (Mutant: the registers are compared before the extra clock.)
DiffersBeforeClock(pre) == refPc' # pre \/ \E r \in Reg : refRegs'[r] # regs[r]
\* checkregs: the pre_pc committed against the reference's pc, then the
\* registers the design has after the extra clock against the reference's.
Differs(pre) == refPc' # pre \/ \E r \in Reg : refRegs'[r] # regs'[r]

\* execute: the rest of an iteration, for an instruction but ebreak.
CommitAndCompare ==
    /\ sim_state = "SIM_RUNNING" /\ ~exited
    /\ W.ci.commit
    /\ W.ci.instr.cls # "ebreak"
    /\ CpuClock
    /\ RefExec
    /\ exited' = Differs(W.ci.pre)
    /\ UNCHANGED <<sim_state, halt_ret>>

\* (Mutant: the extra clock comes before the test for ebreak.)
CommitEbreakAfterClock ==
    /\ sim_state = "SIM_RUNNING" /\ ~exited
    /\ W.ci.commit
    /\ W.ci.instr.cls = "ebreak"
    /\ CpuClock
    /\ sim_state' = "SIM_END"
    /\ UNCHANGED <<halt_ret, exited, refVars>>
\* execute: ebreak ends the simulation before that clock.  Nothing looks at
\* the guest's registers and nothing writes halt_ret.
CommitEbreak ==
    /\ sim_state = "SIM_RUNNING" /\ ~exited
    /\ W.ci.commit
    /\ W.ci.instr.cls = "ebreak"
    /\ sim_state' = "SIM_END"
    /\ UNCHANGED <<cpuVars, halt_ret, exited, refVars>>

SimNext ==
    \/ InitSimulator
    \/ CpuExec
    \/ AwaitCommit
    \/ CommitAndCompare
    \/ CommitEbreak

SimSpec == SimInit /\ [][SimNext]_simVars /\ WF_simVars(SimNext)

\* cpu_exec, after execute: the verdict it prints.
HitGoodTrap == sim_state = "SIM_END" /\ halt_ret = 0

-----------------------------------------------------------------------------
\* Design and reference agree on the next pc and on every register after
\* each commit, so checkregs never calls exit(1) (difftest.c:67-91).
DifftestNeverFails == ~exited

\* When ebreak ends the run, the design has executed exactly what the
\* reference has: no instruction older than ebreak is missing from registers
\* or memory, and no younger store has got out of the pipeline.
StopsExactlyAtEbreak ==
    sim_state = "SIM_END" =>
        /\ refPc = W.ci.pc
        /\ refRegs = regs
        /\ refMem = dmem

\* The simulation terminates: once the reference is at an ebreak, the design
\* commits it, whatever bubbles and stalls lie before it.
EbreakEndsTheRun ==
    (sim_state = "SIM_RUNNING" /\ Ref!Current.cls = "ebreak")
        ~> sim_state = "SIM_END"

\* The verdict "HIT GOOD TRAP" of sim.c:137 is for a halt code of 0, and
\* "HIT BAD TRAP" of sim.c:138 for any other; the guest's halt(code) leaves
\* its code in a0 ("mv a0, %0; ebreak", riscv/npc/trm.c:24).
GoodTrapMeansCodeZero == HitGoodTrap => regs[A0] = 0
=============================================================================
