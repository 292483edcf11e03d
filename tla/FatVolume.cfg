SPECIFICATION Spec
CONSTANTS
    File = {f, g}
    Null = Null
    Copies = 2
    Sectors = 3
    PerSector = 3
    Width = 2
    Half = 4
    Root = 3
    Slots = 5
    Parts = 2
    Block = 2
    Old = g
    OldAt = 6
    Lengths = {2, 6, 8}
    MaxSize = 8
    MaxCalls = 4
    MaxFaults = 1
INVARIANTS
    ChainsSound
    Settled

    
CHECK_DEADLOCK FALSE
