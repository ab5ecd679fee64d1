SPECIFICATION AbstractMachineSpec
CONSTANTS
    W = 4
    Dividends <- AllDWords
    Divisors <- Boundaries
    Size = 4
    Chars = {0, 1, 2}
    IntMin <- SmallestInt
    Targets <- AllTargets
    BUF_SIZE = 8
    Formats <- SomeFormats
    Numbers <- AllNumbers
    SECTSIZE = 3
    ARGSIZE = 3
    MAINARG_ADDR = 0
    HeaderAddr = 3
    HeaderSize = 3
    MemoryBytes = 18
    MaxSegments = 2
    Segments <- SomeSegments
    SecondsOfMinute = 3
    MinutesOfHour = 2
    KeyCodes = {1, 2}
    KeyBit = 4
    KeyBound = 4
    Blocks = 2
    Words = 2
    Width = 4
    Height = 3
    VbufPixels = 15
    Canvases <- SomeCanvases
    PtLevels = 2
    Entries = 2
    KernelIndex = {0}
    Frames = {1, 2, 3, 4, 5, 6}
    Pages = {11, 12}
    Spaces = {a, b}
    NoPage = NoPage
    Kernel = Kernel
    AddrSpaces = {a, b}
    UserVas = {v1, v2, v3}
    PhysPages = {11, 12}
    NoPhys = NoPhys
    NoSpace = NoSpace
    End = End
    Pool = 5
    Remaps = FALSE
    Kthreads = {k}
    Uthreads = {u1, u2}
    Main = Main
    None = None
CHECK_DEADLOCK FALSE
INVARIANTS
    IntegersExact
    StringsExact
    SegmentsInPlace
    DevicesExact
    PicturesExact
    PresentDevicesServed
    TablesSound
    ListsHoldAllMappings
    ThreadRunsInItsSpace
    EventIsTheOneTaken
PROPERTIES
    ImplementsAddressSpaces
    NativeImplementsAddressSpaces
