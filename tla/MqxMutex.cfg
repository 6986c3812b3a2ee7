SPECIFICATION Spec
CONSTANTS
    a = a
    b = b
    c = c
    m1 = m1
    Idle = Idle
    NULL = NULL
    Task <- Tasks
    BootOrder <- Order
    InitPriority <- Priorities
    InitTimeSliceTask = {}
    LOWEST_TASK_PRIORITY = 2
    Queue = {m1}
    PriorityQueue = {}
    DELAY_ENQUEUE_FIFO_ORDER = FALSE
    MaxTimeSlice = 1
    Protocols <- ValidProtocols
    COUNT = 2
    Ceilings = {0, 1}
    NewPriorities = {2}
    RepricesUsers = FALSE
    MaxDelay = 1
    MaxBoosts = 2
INVARIANTS
    KernelConsistent
    MutualExclusion
    NoWaiterOnFree
    
    OwnerInherits
