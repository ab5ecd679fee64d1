SPECIFICATION Spec
CONSTANTS
    NumRegs = 3
    Modulus = 32
    Fn <- MCFn
    Alu <- MCAlu
    Taken <- MCTaken
    LoadExt <- MCLoadExt
    StoreMerge <- MCStoreMerge
    ResetPc = 8
    SerialMmio = 3
    InitRegs <- MCInitRegs
    InitMem <- MCInitMem
    CsrAddr <- MCCsrAddr
    MstatusReset = 24
    Programs <- HazardAndJumpPrograms
INVARIANTS
    PipelineInv
    OperandsAreArchitectural
    CommitPrePcIsNext
    BubblesAreInert
PROPERTIES
    RefinesSequential
    StallLastsOneClock
    CommitsForever
