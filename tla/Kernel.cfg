SPECIFICATION Spec
CONSTANTS
    shell = shell
    disk = disk
    Process = {idle, shell, disk, p1}
    Idle = idle
    Null = Null
    Semaphore = {s1, s2}
    MaxValue = 1
    Space = {system, a1, a2}
    System = system
    Boot <- BootThreads
    Pages = 4
INVARIANTS
    TypeOK
    OneList
    SemaphoreBalance
    ThreadCount
    PageConservation
    RunnableHasMemory
PROPERTIES
    WorkConserving
    NoOvertaking
    LostOnlyByClearOrNoPages
    KeepsQueueDiscipline
    EventuallyRuns
