SPECIFICATION SimSpec
CONSTANTS
    NumRegs = 3
    Modulus = 32
    Fn <- MCFn
    Alu <- MCAlu
    Taken <- MCTaken
    LoadExt <- MCLoadExt
    StoreMerge <- MCStoreMerge
    ResetPc = 8
    SerialMmio = 3
    InitRegs <- MCInitRegs
    InitMem <- MCInitMem
    CsrAddr <- MCCsrAddr
    MstatusReset = 24
    Programs <- EbreakPrograms
    LineWords = 2
    NumSets = 2
    FillWays = {0}
    JumpTargets <- LineBases
    A0 = 2
CHECK_DEADLOCK FALSE
INVARIANTS
    GoodTrapMeansCodeZero
