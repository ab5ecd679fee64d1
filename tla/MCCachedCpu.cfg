SPECIFICATION CpuSpec
CONSTANTS
    NumRegs = 3
    Modulus = 32
    Fn <- MCFn
    Alu <- MCAlu
    Taken <- MCTaken
    LoadExt <- MCLoadExt
    StoreMerge <- MCStoreMerge
    ResetPc = 8
    SerialMmio = 3
    InitRegs <- MCInitRegs
    InitMem <- MCInitMem
    CsrAddr <- MCCsrAddr
    MstatusReset = 24
    Programs <- LinePrograms
    LineWords = 2
    NumSets = 2
    FillWays = {0, 1}
    JumpTargets <- LineBases
PROPERTIES
    RefinesSequential
    DrivesTheCache
