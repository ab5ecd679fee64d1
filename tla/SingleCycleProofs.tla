-------------------------- MODULE SingleCycleProofs --------------------------
(***************************************************************************)
(* Proofs about the single-cycle processor and its traps, for every        *)
(* program.                                                                *)
(***************************************************************************)
EXTENDS SingleCycleTrap, TLAPS

\* The values the combinational units compute are words.
LEMMA WordFacts ==
  /\ 0 \in Word /\ 0 \in Reg /\ ZeroInstr \in Instr
  /\ \A a, b \in Word : Add(a, b) \in Word
  /\ \A a \in Word : Add(a, 4) \in Word /\ ClearBit0(a) \in Word
<1>1. 0 \in Word /\ 0 \in Reg
  BY SizesAssumption DEF Word, Reg
<1>2. ZeroInstr \in Instr
  BY <1>1, SizesAssumption DEF ZeroInstr, Instr, Class
<1>3. \A a, b \in Word : Add(a, b) \in Word
  BY SizesAssumption DEF Add, Word
<1>4. \A a \in Word : Add(a, 4) \in Word
  BY SizesAssumption DEF Add, Word
<1>5. \A a \in Word : ClearBit0(a) \in Word
  BY SizesAssumption DEF ClearBit0, Word
<1>6. QED
  BY <1>1, <1>2, <1>3, <1>4, <1>5

\* The wires of the processor are of their types.
LEMMA CombinationalTypes ==
  ASSUME TypeOK
  PROVE  /\ Current \in Instr
         /\ ValA \in Word /\ ValB \in Word /\ ValE \in Word /\ ValW \in Word
         /\ NextPc \in Word
<1>1. Current \in Instr
  BY WordFacts, PowerOnAssumption DEF Current, InstrAt, TypeOK
<1>2. /\ Current.rs1 \in Reg /\ Current.rs2 \in Reg /\ Current.imm \in Word
      /\ Current.fn \in Fn
  BY <1>1 DEF Instr
<1>3. ValA \in Word /\ ValB \in Word
  BY <1>2 DEF ValA, ValB, TypeOK
<1>4. ExuA \in Word /\ ExuB \in Word
  BY <1>2, <1>3 DEF ExuA, ExuB, TypeOK
<1>5. ValE \in Word
  <2>1. Alu[<<Current.fn, ExuA, ExuB>>] \in Word
    BY <1>2, <1>4, DataPathAssumption
  <2>2. Add(ExuA, ExuB) \in Word /\ ClearBit0(Add(ExuA, ExuB)) \in Word
    BY <1>4, WordFacts
  <2>3. QED
    BY <1>4, <2>1, <2>2 DEF ValE
<1>6. ValM \in Word
  <2>1. DpiMemRead(dmem, ValE) \in Word
    BY <1>5, WordFacts DEF DpiMemRead, TypeOK
  <2>2. QED
    BY <1>2, <2>1, WordFacts, DataPathAssumption DEF ValM
<1>7. ValP \in Word
  BY WordFacts DEF ValP, TypeOK
<1>8. ValR \in Word
  BY WordFacts DEF ValR, TypeOK
<1>9. csr["mtvec"] \in Word /\ csr["mepc"] \in Word
  BY DEF TypeOK, CsrName
<1>10. ValW \in Word
  BY <1>5, <1>6, <1>7, <1>8 DEF ValW
<1>11. NextPc \in Word
  BY <1>5, <1>7, <1>9 DEF NextPc
<1>12. QED
  BY <1>1, <1>3, <1>5, <1>10, <1>11

-----------------------------------------------------------------------------
\* One step keeps the types and register 0, whatever the instruction.
LEMMA ClockStep ==
  ASSUME TypeOK, RegisterZeroIsZero, Clock
  PROVE  /\ rst' \in BOOLEAN /\ imem' \in Programs /\ pc' \in Word
         /\ regs' \in [Reg -> Word] /\ dmem' \in [Word -> Word]
         /\ csr' \in [CsrName -> Word] /\ RegisterZeroIsZero'
<1>1. rst' \in BOOLEAN /\ imem' \in Programs /\ pc' \in Word
  BY CombinationalTypes DEF Clock, TypeOK
<1>2. regs' \in [Reg -> Word] /\ RegisterZeroIsZero'
  <2>1. regs' = NextRegs /\ regs \in [Reg -> Word] /\ regs[0] = 0 /\ ValW \in Word
    BY CombinationalTypes DEF Clock, TypeOK, RegisterZeroIsZero
  <2>2. QED
    BY <2>1, WordFacts DEF NextRegs, RegisterZeroIsZero
<1>3. dmem' \in [Word -> Word]
  <2>1. Current.fn \in Fn
    BY CombinationalTypes DEF Instr
  <2>2. StoreMerge[<<Current.fn, dmem[ValE], ValB>>] \in Word
    BY <2>1, CombinationalTypes, DataPathAssumption DEF TypeOK
  <2>3. QED
    BY <2>2, CombinationalTypes DEF Clock, NextMem, DpiMemWrite, TypeOK
<1>4. csr' \in [CsrName -> Word]
  <2>1. csr' = NextCsr /\ csr \in [CsrName -> Word]
    BY DEF Clock, TypeOK
  <2>2. CASE Current.cls = "csrrw"
    BY <2>1, <2>2, CombinationalTypes DEF NextCsr
  <2>3. CASE Current.cls = "csrrs"
    <3>1. "or" \in Fn
      BY SystemAssumption
    <3>2. \A c \in CsrName : Alu[<<"or", ValA, csr[c]>>] \in Word
      BY <2>1, <3>1, CombinationalTypes, DataPathAssumption
    <3>3. QED
      BY <2>1, <2>3, <3>2 DEF NextCsr
  <2>4. CASE Current.cls = "ecall"
    <3>1. Add(pc, 4) \in Word /\ 1 \in Word
      BY WordFacts, SystemAssumption DEF TypeOK
    <3>2. QED
      BY <2>1, <2>4, <3>1 DEF NextCsr, EcallCsr
  <2>5. CASE Current.cls \notin {"csrrw", "csrrs", "ecall"}
    BY <2>1, <2>5 DEF NextCsr
  <2>6. QED
    BY <2>2, <2>3, <2>4, <2>5
<1>5. QED
  BY <1>1, <1>2, <1>3, <1>4

\* Reset keeps the types and register 0.
LEMMA ResetStep ==
  ASSUME TypeOK, RegisterZeroIsZero, ResetClock
  PROVE  /\ rst' \in BOOLEAN /\ imem' \in Programs /\ pc' \in Word
         /\ regs' \in [Reg -> Word] /\ dmem' \in [Word -> Word]
         /\ csr' \in [CsrName -> Word] /\ RegisterZeroIsZero'
<1>1. rst' \in BOOLEAN /\ imem' \in Programs /\ pc' \in Word
  BY SizesAssumption DEF ResetClock, TypeOK
<1>2. regs' \in [Reg -> Word] /\ RegisterZeroIsZero'
  BY WordFacts DEF ResetClock, TypeOK, RegisterZeroIsZero
<1>3. dmem' \in [Word -> Word]
  <2>1. Current.fn \in Fn
    BY CombinationalTypes DEF Instr
  <2>2. StoreMerge[<<Current.fn, dmem[ValE], ValB>>] \in Word
    BY <2>1, CombinationalTypes, DataPathAssumption DEF TypeOK
  <2>3. QED
    BY <2>2, CombinationalTypes DEF ResetClock, NextMem, DpiMemWrite, TypeOK
<1>4. csr' \in [CsrName -> Word]
  BY WordFacts, CsrAssumption DEF ResetClock, CsrReset
<1>5. QED
  BY <1>1, <1>2, <1>3, <1>4

\* The trap history is what the program's traps make it.
LEMMA TrapStep ==
  ASSUME TypeOK, MepcKeepsReturn, TrapNext
  PROVE  resume' \subseteq Word /\ MepcKeepsReturn'
<1>1. CASE TrapReset
  BY <1>1 DEF TrapReset, MepcKeepsReturn
<1>2. CASE TrapEcall
  <2>1. resume' = {Add(pc, 4)} /\ Add(pc, 4) \in Word
    BY <1>2, WordFacts DEF TrapEcall, ValP, TypeOK
  <2>2. csr'["mepc"] = Add(pc, 4)
    BY <1>2 DEF TrapEcall, Clock, NextCsr, EcallCsr, TypeOK, CsrName
  <2>3. QED
    BY <2>1, <2>2 DEF MepcKeepsReturn
<1>3. CASE TrapWriteMepc
  BY <1>3 DEF TrapWriteMepc, MepcKeepsReturn
<1>4. CASE TrapOther
  <2>1. resume' = resume /\ csr' = NextCsr /\ Current.cls # "ecall" /\ ~WritesMepc
    BY <1>4 DEF TrapOther, Clock
  <2>2. csr'["mepc"] = csr["mepc"]
    BY <2>1 DEF NextCsr, WritesMepc, TypeOK, CsrName
  <2>3. QED
    BY <2>1, <2>2 DEF MepcKeepsReturn, TypeOK
<1>5. QED
  BY <1>1, <1>2, <1>3, <1>4 DEF TrapNext

\* The processor's registers keep their types, register 0 is never written
\* and mepc keeps the return address of a trap.
TrapInv == TypeOK /\ RegisterZeroIsZero /\ MepcKeepsReturn

\* Every reachable state satisfies the invariant.
THEOREM TrapInvariant == TrapSpec => []TrapInv
<1>1. TrapInit => TrapInv
  BY WordFacts, PowerOnAssumption
     DEF TrapInit, Init, TrapInv, TypeOK, RegisterZeroIsZero, MepcKeepsReturn, CsrName
<1>2. TrapInv /\ [TrapNext]_trapVars => TrapInv'
  <2> SUFFICES ASSUME TrapInv, [TrapNext]_trapVars PROVE TrapInv'
    OBVIOUS
  <2>1. CASE TrapNext
    <3>1. ResetClock \/ Clock
      BY <2>1 DEF TrapNext, TrapReset, TrapEcall, TrapWriteMepc, TrapOther
    <3>2. QED
      BY <2>1, <3>1, ResetStep, ClockStep, TrapStep DEF TrapInv, TypeOK
  <2>2. CASE UNCHANGED trapVars
    BY <2>2 DEF trapVars, vars, TrapInv, TypeOK, RegisterZeroIsZero, MepcKeepsReturn
  <2>3. QED
    BY <2>1, <2>2
<1>3. QED
  BY <1>1, <1>2, PTL DEF TrapSpec

\* Every register of the processor keeps its type.
THEOREM TypeCorrect == TrapSpec => []TypeOK
  BY TrapInvariant, PTL DEF TrapInv

\* Register 0 reads as 0 although nothing masks it.
THEOREM RegisterZero == TrapSpec => []RegisterZeroIsZero
  BY TrapInvariant, PTL DEF TrapInv

\* A handler's mret resumes behind the ecall, whatever the handler runs.
THEOREM TrapReturns == TrapSpec => TrapReturnsPastEcall
<1>1. TrapInv /\ [TrapNext]_trapVars =>
        [~rst /\ Current.cls = "mret" => \A a \in resume : pc' = a]_vars
  <2> SUFFICES ASSUME TrapInv, TrapNext, ~rst, Current.cls = "mret", NEW a \in resume
               PROVE  pc' = a
    BY DEF trapVars, vars
  <2>1. pc' = NextPc
    BY DEF TrapNext, TrapReset, TrapEcall, TrapWriteMepc, TrapOther, ResetClock, Clock
  <2>2. NextPc = csr["mepc"]
    BY DEF NextPc
  <2>3. QED
    BY <2>1, <2>2 DEF TrapInv, MepcKeepsReturn
<1>2. QED
  BY <1>1, TrapInvariant, PTL DEF TrapSpec, TrapReturnsPastEcall
=============================================================================
