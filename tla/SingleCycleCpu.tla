--------------------------- MODULE SingleCycleCpu ---------------------------
(***************************************************************************)
(* The single-cycle rv32 processor of src/IP/rv32/single-cycle-cpu: one    *)
(* instruction per rising edge of the clock.  Being sequential, it is also *)
(* the specification that the pipelined processors are shown to implement. *)
(*                                                                         *)
(* The combinational units (IFU, CTRL, IDU, BR_JMP, EXU, MEM, CSR, WBU)    *)
(* are operators of the current state; the registered ones (PCU, REGU,     *)
(* MEM's store port, CSR) are the variables that Clock updates.            *)
(***************************************************************************)
EXTENDS RvIsa

CONSTANTS
    CsrAddr,       \* the immediate that addresses each CSR (32'h300, ...)
    MstatusReset   \* 32'h1800

CsrName == {"mstatus", "mtvec", "mepc", "mcause"}

ASSUME CsrAssumption ==
    /\ CsrAddr \in [CsrName -> Word]
    /\ \A c, d \in CsrName : CsrAddr[c] = CsrAddr[d] => c = d
    /\ MstatusReset \in Word

\* csrrs computes an or, and ecall writes a cause of 1.
ASSUME SystemAssumption == "or" \in Fn /\ 1 \in Word

VARIABLES
    rst,    \* the reset line, driven by npc_reset
    imem,   \* the program, which never changes
    pc,     \* PCU's register
    regs,   \* REGU's register file
    dmem,   \* the simulator's data memory
    csr     \* CSR's four registers

vars == <<rst, imem, pc, regs, dmem, csr>>

CsrReset == [c \in CsrName |-> IF c = "mstatus" THEN MstatusReset ELSE 0]

-----------------------------------------------------------------------------
\* IFU_o_instr, and the operands the register file puts out: REGU does not
\* mask register 0, it relies on it never being written.
Current == InstrAt(imem, pc)
ValA == regs[Current.rs1]
ValB == regs[Current.rs2]

\* CTRL_o_valA_sel and CTRL_o_valB_sel, the operands EXU selects by them.
ExuA == IF Current.cls \in {"lui", "auipc", "jal", "branch"} THEN pc ELSE ValA
ExuB ==
    IF Current.cls \in {"load", "opimm", "jalr", "csrrs", "csrrw", "store",
                        "branch", "lui", "auipc", "jal"}
    THEN Current.imm
    ELSE ValB

\* EXU_o_valE, selected by CTRL_o_ALU_sel.
ValE ==
    CASE Current.cls = "jalr"            -> ClearBit0(Add(ExuA, ExuB))
      [] Current.cls = "lui"             -> ExuB
      [] Current.cls \in {"op", "opimm"} -> Alu[<<Current.fn, ExuA, ExuB>>]
      [] OTHER                           -> Add(ExuA, ExuB)

\* MEM_o_valM: 0 unless the instruction loads.
ValM ==
    IF Current.cls = "load"
    THEN LoadExt[<<Current.fn, DpiMemRead(dmem, ValE)>>]
    ELSE 0

\* PCU_o_valP, the address of the next instruction in sequence.
ValP == Add(pc, 4)

\* CSR_o_valR: the addressed CSR, for the two instructions that read one.
ValR ==
    IF /\ Current.cls \in {"csrrw", "csrrs"}
       /\ \E c \in CsrName : CsrAddr[c] = Current.imm
    THEN csr[CHOOSE c \in CsrName : CsrAddr[c] = Current.imm]
    ELSE 0

\* WBU_o_valW, selected by CTRL_o_wb_sel.
ValW ==
    CASE Current.cls \in {"op", "opimm", "lui", "auipc"} -> ValE
      [] Current.cls \in {"jal", "jalr"}                 -> ValP
      [] Current.cls \in {"csrrw", "csrrs"}              -> ValR
      [] OTHER                                           -> ValM

\* CTRL_o_reg_wen
RegWen ==
    Current.cls \in {"load", "opimm", "jalr", "csrrs", "csrrw", "op", "lui",
                     "auipc", "jal"}

\* The next value of PCU's register: CTRL_o_pc_sel picks one of three.
NextPc ==
    CASE \/ Current.cls \in {"jal", "jalr"}
         \/ Current.cls = "branch" /\ Taken[<<Current.fn, ValA, ValB>>]
              -> ValE
      [] Current.cls = "ecall" -> csr["mtvec"]
      [] Current.cls = "mret"  -> csr["mepc"]
      [] OTHER                 -> ValP

\* (Mutant: a write to register 0 is not suppressed.)
NextRegsZero == IF RegWen THEN [regs EXCEPT ![Current.rd] = ValW] ELSE regs
\* REGU: register 0 is never written.
NextRegs ==
    IF RegWen /\ Current.rd # 0
    THEN [regs EXCEPT ![Current.rd] = ValW]
    ELSE regs

\* MEM's store port.
NextMem ==
    IF Current.cls = "store"
    THEN DpiMemWrite(dmem, Current.fn, ValE, ValB)
    ELSE dmem

\* What ecall leaves in the CSRs.  (Mutant: mepc is the ecall's own address.)
EcallCsrAtEcall == [csr EXCEPT !["mepc"] = pc, !["mcause"] = 1]
EcallCsr == [csr EXCEPT !["mepc"] = Add(pc, 4), !["mcause"] = 1]

\* CSR's clocked process.
NextCsr ==
    CASE Current.cls = "csrrw" ->
            [c \in CsrName |-> IF CsrAddr[c] = Current.imm THEN ValA ELSE csr[c]]
      [] Current.cls = "csrrs" ->
            [c \in CsrName |-> IF CsrAddr[c] = Current.imm
                               THEN Alu[<<"or", ValA, csr[c]>>] ELSE csr[c]]
      [] Current.cls = "ecall" -> EcallCsr
      [] OTHER -> csr

-----------------------------------------------------------------------------
\* Power on: every register the code does not initialise starts at 0, as the
\* build's verilator flags make it, and npc_reset has raised the reset line.
Init ==
    /\ rst = TRUE
    /\ imem \in Programs
    /\ pc = 0
    /\ regs = InitRegs
    /\ dmem = InitMem
    /\ csr = [c \in CsrName |-> 0]

\* The one clock npc_reset(1) runs with the reset line high.  The store port
\* is not gated by rst.
ResetClock ==
    /\ rst
    /\ rst' = FALSE
    /\ pc' = ResetPc
    /\ regs' = [regs EXCEPT ![0] = 0]
    /\ dmem' = NextMem
    /\ csr' = CsrReset
    /\ UNCHANGED imem

\* One rising edge: one instruction.
Clock ==
    /\ ~rst
    /\ pc' = NextPc
    /\ regs' = NextRegs
    /\ dmem' = NextMem
    /\ csr' = NextCsr
    /\ UNCHANGED <<rst, imem>>

Next == ResetClock \/ Clock

Spec == Init /\ [][Next]_vars
=============================================================================
