SPECIFICATION MachinesSpec
CONSTANTS
    Kthreads = {k}
    Uthreads = {u1, u2}
    SpaceOf <- OwnSpace
    u1 = u1
    u2 = u2
    p = p
    q = q
    Kpt = Kpt
    Main = Main
    None = None
    Ncpu = 3
    MaxHalts = 2
    CpuCount = 3
    Harts = {h1, h2}
    MaxCalls = 3
    MaxKeys = 2
    Base = 2
    Wide = 4
    CONFIG_MBASE = 2
    CONFIG_MSIZE = 5
    CONFIG_SERIAL_MMIO = 1
    img <- BuiltIn
    Files <- SomeFiles
    Values <- Words
    Data = {d1, d2, d3}
CHECK_DEADLOCK FALSE
INVARIANTS
    UserRunsInItsSpace
    NestingBounded
    BootSafe
    RunsOnAMachine
    HtifExact
    GuestMemoryExact
PROPERTIES
    EveryThreadRuns
    StartsAndHalts
    StartsAndEnds
    CallsReturn
    RefinesFifo
    KeepsDelivering
