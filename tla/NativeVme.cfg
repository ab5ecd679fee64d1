SPECIFICATION NativeVmeSpec
CONSTANTS
    AddrSpaces = {a, b}
    UserVas = {v1, v2, v3}
    PhysPages = {11, 12}
    NoPhys = NoPhys
    NoSpace = NoSpace
    End = End
    Pool = 5
    Remaps = TRUE
CHECK_DEADLOCK FALSE
INVARIANTS
    ListsHoldAllMappings
