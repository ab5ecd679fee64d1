---------------------------- MODULE MCSingleCycle ----------------------------
(***************************************************************************)
(* SingleCycleTrap on every program of five instructions over the system   *)
(* instructions and what a handler needs around them.                      *)
(***************************************************************************)
EXTENDS SingleCycleTrap, MCIsa

\* Every register starts at 0, as REGU.v leaves it to the build.
ZeroRegs == [r \in 0 .. 2 |-> 0]

\* Enough room to install a handler (at 20), to call it and to return from it,
\* past other CSR accesses and a nested ecall.
TrapPrograms == ProgramsOf(
    { I("add", 1, 0, 20), Csrrw(0, "mtvec", 1), Csrrw(2, "mepc", 1),
      Csrrs(0, "mepc", 0), System("ecall"), System("mret"), Jal(0, 8),
      Load("low", 0, 1, 0) },
    5, 8)
=============================================================================
