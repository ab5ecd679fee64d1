----------------------------- MODULE MCSimulator -----------------------------
(***************************************************************************)
(* Simulator on programs of up to four instructions and an ebreak, whose   *)
(* jumps go to the first word of a line, and on programs with jumps to any *)
(* word.                                                                   *)
(***************************************************************************)
EXTENDS Simulator, MCIsa

Straight == { R("add", 1, 1, 2), Load("none", 2, 1, 0), Store("none", 1, 2, 1) }

\* Jumps to a line base, from the first word of a line and from the second.
FromFirst == { Jal(1, 8), Branch("ne", 1, 2, 24), Branch("eq", 2, 2, 16) }
FromSecond == { Jal(1, 12), Branch("ne", 1, 2, 28) }

\* Lines begin at 8, 16 and 24; the word at 24 is ebreak, and the word after
\* it a store that must not be executed.
EbreakPrograms ==
    { prog \in [{8, 12, 16, 20, 24, 28} -> Straight \union FromFirst
                    \union FromSecond \union {System("ebreak")}] :
        /\ prog[24] = System("ebreak")
        /\ prog[28] = Store("none", 1, 2, 1)
        /\ \A a \in {8, 16} : prog[a] \in Straight \union FromFirst
        /\ \A a \in {12, 20} : prog[a] \in Straight \union FromSecond }

\* A jump from 8 to the second word of the line at 24, far enough for the
\* fetches behind the jump not to bring that line in.
MidLinePrograms ==
    { prog \in [{8, 12, 16, 20, 24, 28} -> Straight \union {Jal(1, 20)}] :
        \A a \in DOMAIN prog : (a = 8) = (prog[a] = Jal(1, 20)) }

LineBases == {0, 8, 16, 24}
AnyWord == {4 * i : i \in 0 .. 7}
=============================================================================
