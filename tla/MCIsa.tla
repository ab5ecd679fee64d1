------------------------------- MODULE MCIsa -------------------------------
(***************************************************************************)
(* A small instruction set for model checking: 5-bit words, three          *)
(* registers and a handful of operations, of which a store or a load of    *)
(* "low" moves only the lower half of a word.                              *)
(***************************************************************************)
EXTENDS Integers

LOCAL Words == 0 .. 31
LOCAL Bit(x, k) == (x \div 2^k) % 2

MCFn == {"none", "add", "sub", "or", "eq", "ne", "low"}

MCAlu == [t \in MCFn \X Words \X Words |->
    CASE t[1] = "add" -> (t[2] + t[3]) % 32
      [] t[1] = "sub" -> (t[2] + 32 - t[3]) % 32
      [] t[1] = "or"  ->
            LET or(k) == IF Bit(t[2], k) + Bit(t[3], k) > 0 THEN 2^k ELSE 0
            IN  or(0) + or(1) + or(2) + or(3) + or(4)
      [] OTHER -> 0]

MCTaken == [t \in MCFn \X Words \X Words |->
    CASE t[1] = "eq" -> t[2] = t[3]
      [] t[1] = "ne" -> t[2] # t[3]
      [] OTHER -> FALSE]

MCLoadExt == [t \in MCFn \X Words |-> IF t[1] = "low" THEN t[2] % 4 ELSE t[2]]

MCStoreMerge == [t \in MCFn \X Words \X Words |->
    IF t[1] = "low" THEN t[2] - (t[2] % 4) + (t[3] % 4) ELSE t[3]]

\* regfile.v: register i starts at i, register 1 at an address.
MCInitRegs == [r \in 0 .. 2 |-> IF r = 1 THEN 12 ELSE r]
MCInitMem == [a \in Words |-> (a + 5) % 32]
MCCsrAddr == [mstatus |-> 0, mtvec |-> 1, mepc |-> 2, mcause |-> 3]

\* Instructions, in the order of their assembly operands.
R(fn, rd, rs1, rs2) == [cls |-> "op", fn |-> fn, rd |-> rd, rs1 |-> rs1,
                        rs2 |-> rs2, imm |-> 0]
I(fn, rd, rs1, imm) == [cls |-> "opimm", fn |-> fn, rd |-> rd, rs1 |-> rs1,
                        rs2 |-> imm % 3, imm |-> imm]
Lui(rd, imm) == [cls |-> "lui", fn |-> "none", rd |-> rd, rs1 |-> imm % 3,
                 rs2 |-> 0, imm |-> imm]
Auipc(rd, imm) == [Lui(rd, imm) EXCEPT !.cls = "auipc"]
Load(fn, rd, rs1, imm) == [I(fn, rd, rs1, imm) EXCEPT !.cls = "load"]
Store(fn, rs2, rs1, imm) == [cls |-> "store", fn |-> fn, rd |-> imm % 3,
                             rs1 |-> rs1, rs2 |-> rs2, imm |-> imm]
Branch(fn, rs1, rs2, imm) == [cls |-> "branch", fn |-> fn, rd |-> 1,
                              rs1 |-> rs1, rs2 |-> rs2, imm |-> imm]
Jal(rd, imm) == [cls |-> "jal", fn |-> "none", rd |-> rd, rs1 |-> 1, rs2 |-> 2,
                 imm |-> imm]
Jalr(rd, rs1, imm) == [I("none", rd, rs1, imm) EXCEPT !.cls = "jalr"]
Csrrw(rd, c, rs1) == [I("none", rd, rs1, MCCsrAddr[c]) EXCEPT !.cls = "csrrw"]
Csrrs(rd, c, rs1) == [I("none", rd, rs1, MCCsrAddr[c]) EXCEPT !.cls = "csrrs"]
System(cls) == [cls |-> cls, fn |-> "none", rd |-> 0, rs1 |-> 0, rs2 |-> 0,
                imm |-> 0]

\* The programs of n instructions out of S, loaded at address base and
\* followed by a jump to itself.
ProgramsOf(S, n, base) ==
    LET last == base + 4 * n
    IN  { prog \in [{base + 4 * i : i \in 0 .. n} -> S \union {Jal(0, 0)}] :
            \A a \in DOMAIN prog : (a = last) = (prog[a] = Jal(0, 0)) }
=============================================================================
