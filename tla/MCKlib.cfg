SPECIFICATION KlibSpec
CONSTANTS
    Size = 4
    Chars = {0, 1, 2}
    IntMin <- SmallestInt
    Targets <- AllTargets
    BUF_SIZE = 8
    Formats <- SomeFormats
    Numbers <- AllNumbers
CHECK_DEADLOCK FALSE
INVARIANTS
    UnsignedAsPassed
