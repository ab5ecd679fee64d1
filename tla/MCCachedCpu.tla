----------------------------- MODULE MCCachedCpu -----------------------------
(***************************************************************************)
(* CachedCpu with lines of two instructions and two sets, on every program *)
(* of four instructions whose jumps go to the first word of a line.        *)
(***************************************************************************)
EXTENDS CachedCpu, MCIsa

Straight == { R("add", 1, 1, 2), Load("none", 2, 1, 0), Store("none", 1, 2, 1) }

\* Jumps to a line base, from the first word of a line and from the second.
FromFirst == { Jal(1, 8), Branch("ne", 1, 2, 24), Branch("eq", 2, 2, 16) }
FromSecond == { Jal(1, 12), Branch("ne", 1, 2, 20), Branch("eq", 2, 2, 28) }

\* Lines begin at 8, 16 and 24; the word at 24 jumps to itself.
LinePrograms ==
    { prog \in [{8, 12, 16, 20, 24} ->
                    Straight \union FromFirst \union FromSecond \union {Jal(0, 0)}] :
        /\ prog[24] = Jal(0, 0)
        /\ \A a \in {8, 16} : prog[a] \in Straight \union FromFirst
        /\ \A a \in {12, 20} : prog[a] \in Straight \union FromSecond }

\* A branch may fall or loop out of the program, to the blocks around it.
LineBases == {0, 8, 16, 24}

\* What the theorems about CachedCpu assume of parameters and programs.
ASSUME CacheFits /\ LineProgramsOnly
=============================================================================
