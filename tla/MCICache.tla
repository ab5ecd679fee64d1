------------------------------ MODULE MCICache ------------------------------
(***************************************************************************)
(* ICache with lines of two instructions and two sets, over a program that *)
(* fills the words from 8 to 28: three blocks, two of them in set 1.       *)
(***************************************************************************)
EXTENDS ICache, MCIsa

\* One program, whose instructions are all different.
DistinctProgram == { [a \in {8, 12, 16, 20, 24, 28} |-> I("add", 1, 2, a)] }

LineBases == {8, 16, 24}

\* What $random % 2 picks in cache-cpu.
RandomWays == {-1, 0, 1}

ASSUME AlignedJumps
=============================================================================
