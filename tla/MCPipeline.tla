----------------------------- MODULE MCPipeline -----------------------------
(***************************************************************************)
(* PipelineCorrect on every program of four instructions over two small    *)
(* sets: one chosen for its data hazards, one for its jumps.               *)
(***************************************************************************)
EXTENDS PipelineCorrect, MCIsa

\* Each result that can be forwarded, from each stage, to each operand;
\* loads to x0, loads of loaded addresses, stores of loaded data.
HazardPrograms == ProgramsOf(
    { R("add", 1, 1, 2), R("sub", 2, 1, 1), I("add", 1, 2, 3), Lui(0, 5),
      Load("none", 1, 2, 1), Load("low", 2, 1, 0), Load("none", 0, 1, 4),
      Store("low", 2, 1, 0), Store("none", 1, 2, 1), Auipc(2, 8) },
    4, 8)

\* Jumps forward, over a load, back, and to addresses in registers, with the
\* link register read by the instruction jumped to.
JumpPrograms == ProgramsOf(
    { R("add", 1, 1, 2), Load("none", 2, 1, 0), Store("none", 1, 2, 2),
      Branch("eq", 1, 2, 8), Branch("ne", 1, 2, 8), Branch("ne", 2, 0, 28),
      Jal(1, 8), Jal(2, 12), Jalr(2, 1, 4), Jalr(1, 1, 9), System("ebreak") },
    4, 8)

HazardAndJumpPrograms == HazardPrograms \union JumpPrograms
=============================================================================
