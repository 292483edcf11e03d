SPECIFICATION Spec
CONSTANTS
    server = server
    Process = {idle, server, p1, p2}
    Idle = idle
    Null = Null
    Space = {system, a1, a2}
    System = system
    Boot <- BootThreads
    Page = {g1, g2, g3, g4, g5, g6}
    PageSize = 32
    Entries = 7
    Grow = {20, 184}
    Asked = {"code"}
    HighestBreak = 84
    LowestStack = 3
    Server = server
    NALLOC = 4
    FileUnits = 2
    BufferUnits = {2, 5}
    MaxBlocks = 6
SYMMETRY PageSymmetry
INVARIANTS
    PageInOnePlace
    RunsInItsSpace
    MemoryUsable
    HeapSound
PROPERTIES
    CountsPages
