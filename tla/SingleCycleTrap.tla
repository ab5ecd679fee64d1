--------------------------- MODULE SingleCycleTrap ---------------------------
(***************************************************************************)
(* SingleCycleCpu with a memory of its traps, to say where a trap handler  *)
(* returns to.  CSR.v has no trap state but the four CSRs, which the       *)
(* program may also write; resume records the return address for as long  *)
(* as the program has not replaced it.                                     *)
(***************************************************************************)
EXTENDS SingleCycleCpu

VARIABLE resume   \* where the last ecall is to be resumed, or no address

trapVars == <<vars, resume>>

TrapInit == Init /\ resume = {}

WritesMepc ==
    Current.cls \in {"csrrw", "csrrs"} /\ Current.imm = CsrAddr["mepc"]

TrapReset == ResetClock /\ resume' = {}

TrapEcall ==
    /\ Clock
    /\ Current.cls = "ecall"
    /\ resume' = {ValP}

TrapWriteMepc ==
    /\ Clock
    /\ WritesMepc
    /\ resume' = {}

TrapOther ==
    /\ Clock
    /\ Current.cls # "ecall" /\ ~WritesMepc
    /\ UNCHANGED resume

TrapNext == TrapReset \/ TrapEcall \/ TrapWriteMepc \/ TrapOther

TrapSpec == TrapInit /\ [][TrapNext]_trapVars

-----------------------------------------------------------------------------
\* The registers of the processor keep their types.
TypeOK ==
    /\ rst \in BOOLEAN
    /\ imem \in Programs
    /\ pc \in Word
    /\ regs \in [Reg -> Word]
    /\ dmem \in [Word -> Word]
    /\ csr \in [CsrName -> Word]
    /\ resume \subseteq Word

\* Register x0 reads as 0 for ever.  REGU.v does not mask it: it is only
\* right if no path, CSR reads and link registers included, ever writes it.
RegisterZeroIsZero == regs[0] = 0

\* The invariant behind it: mepc keeps the return address.
MepcKeepsReturn == \A a \in resume : csr["mepc"] = a

\* A trap is resumed at the instruction after its ecall, however many
\* instructions the handler takes and whatever other CSRs it writes; the AM's
\* trap.S and its handlers never add 4 to mepc and rely on it.
TrapReturnsPastEcall ==
    [][~rst /\ Current.cls = "mret" => \A a \in resume : pc' = a]_vars
=============================================================================
