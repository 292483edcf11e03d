SPECIFICATION Spec
CONSTANTS
    shell = shell
    disk = disk
    p1 = p1
    p2 = p2
    Process = {idle, shell, disk, p1, p2}
    Idle = idle
    Null = Null
    Semaphore = {s1, s2}
    Boot <- BootThreads
    Spare <- SpareObjects
INVARIANTS
    ListsDisjoint
    EndsMeet
PROPERTIES
    ImplementsQueues
