SPECIFICATION Spec
CONSTANTS
    NumRegs = 3
    Modulus = 32
    Fn <- MCFn
    Alu <- MCAlu
    Taken <- MCTaken
    LoadExt <- MCLoadExt
    StoreMerge <- MCStoreMerge
    ResetPc = 8
    SerialMmio = 3
    InitRegs <- MCInitRegs
    InitMem <- MCInitMem
    Programs <- DistinctProgram
    LineWords = 2
    NumSets = 2
    FillWays = {0, 1}
    JumpTargets <- LineBases
INVARIANTS
    LinesHoldMemory
PROPERTIES
    DeliversFetchedWord
