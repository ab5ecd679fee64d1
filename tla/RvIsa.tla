------------------------------- MODULE RvIsa -------------------------------
(***************************************************************************)
(* The vocabulary every processor model of this project shares: machine    *)
(* words, decoded instructions and the functions that the processors       *)
(* compute in one combinational step.                                      *)
(*                                                                         *)
(* A word is a number below Modulus (2^64 in the code, small in a run) and *)
(* an instruction is the record its fields decode to.  The arithmetic of   *)
(* the processors is a parameter: Alu, Taken, LoadExt and StoreMerge are   *)
(* arbitrary functions, so that what is proved about the control of a      *)
(* pipeline holds whatever its data path computes.                         *)
(***************************************************************************)
EXTENDS Integers

CONSTANTS
    NumRegs,      \* registers in the register file (32 in the code)
    Modulus,      \* number of machine words (2^64 or 2^32 in the code)
    Fn,           \* the func3/func7 selections inside an instruction class
    Alu,          \* result of an op or opimm instruction
    Taken,        \* whether a branch is taken
    LoadExt,      \* what a load makes of the word it reads (lb, lhu, ...)
    StoreMerge,   \* what a store makes of the word it writes (sb, sh, ...)
    ResetPc,      \* 64'h80000000 in the code
    SerialMmio,   \* the address whose stores go to the console
    InitRegs,     \* the register file at power on
    InitMem,      \* the data memory at power on
    Programs      \* the instruction memories considered

Reg  == 0 .. NumRegs - 1
Word == 0 .. Modulus - 1

\* The wires inst_lui ... inst_system of decode.v (CTRL.v in the rv32 core),
\* with the system instructions told apart; "none" is what decodes as nothing.
Class == { "lui", "auipc", "jal", "jalr", "op", "opimm", "load", "store",
           "branch", "csrrw", "csrrs", "ecall", "mret", "ebreak", "none" }

\* The fields rd, rs1 and rs2 are the bits of the instruction word: they are
\* there in every instruction, whether its class uses them or not.
Instr == [cls : Class, fn : Fn, rd : Reg, rs1 : Reg, rs2 : Reg, imm : Word]

\* The word 32'd0, which every bubble carries.
ZeroInstr == [cls |-> "none", fn |-> "none", rd |-> 0, rs1 |-> 0, rs2 |-> 0,
              imm |-> 0]

ASSUME SizesAssumption ==
    /\ NumRegs \in Nat \ {0}
    /\ Modulus \in Nat \ {0}
    /\ "none" \in Fn
    /\ ResetPc \in Word
    /\ SerialMmio \in Word

ASSUME DataPathAssumption ==
    /\ \A f \in Fn : \A a, b \in Word : Alu[<<f, a, b>>] \in Word
    /\ \A f \in Fn : \A a, b \in Word : Taken[<<f, a, b>>] \in BOOLEAN
    /\ \A f \in Fn : \A a \in Word : LoadExt[<<f, a>>] \in Word
    /\ \A f \in Fn : \A a, b \in Word : StoreMerge[<<f, a, b>>] \in Word

ASSUME PowerOnAssumption ==
    /\ InitRegs \in [Reg -> Word]
    /\ InitRegs[0] = 0
    /\ InitMem \in [Word -> Word]
    /\ \A prog \in Programs :
          /\ DOMAIN prog \subseteq Word \ {0}
          /\ \A a \in DOMAIN prog : prog[a] \in Instr

-----------------------------------------------------------------------------
\* 64-bit (or 32-bit) addition.
Add(a, b) == (a + b) % Modulus

\* execute_o_alu_result & ~1
ClearBit0(a) == a - (a % 2)

\* dpi_instr_mem_read: an address outside the program reads as 0.
InstrAt(prog, a) == IF a \in DOMAIN prog THEN prog[a] ELSE ZeroInstr

\* dpi_mem_read: address 0 reads as 0, any other address from the memory.
DpiMemRead(mem, a) == IF a = 0 THEN 0 ELSE mem[a]

\* dpi_mem_write: a store to the serial port prints and writes nothing.
DpiMemWrite(mem, fn, a, v) ==
    IF a = SerialMmio THEN mem
    ELSE [mem EXCEPT ![a] = StoreMerge[<<fn, @, v>>]]
=============================================================================
