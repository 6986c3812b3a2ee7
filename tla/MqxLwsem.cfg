SPECIFICATION FairSpec
CONSTANTS
    a = a
    b = b
    c = c
    s1 = s1
    Idle = Idle
    NULL = NULL
    Task <- ThreeTasks
    BootOrder <- ThreeOrder
    InitPriority <- ThreePriorities
    InitTimeSliceTask <- Sliced
    LOWEST_TASK_PRIORITY = 1
    Queue = {s1}
    PriorityQueue = {}
    DELAY_ENQUEUE_FIFO_ORDER = FALSE
    MaxTimeSlice = 1
    InitialNumbers <- Numbers
    MaxValue = 2
    MaxDelay = 1
    MaxCreates = 2
INVARIANTS
    KernelConsistent
    TokensConserved
    NoLostWakeup
PROPERTY TimedWaitEnds
