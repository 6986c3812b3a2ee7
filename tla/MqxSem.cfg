SPECIFICATION Spec
CONSTANTS
    a = a
    b = b
    c = c
    s1 = s1
    Idle = Idle
    NULL = NULL
    Task <- Tasks
    BootOrder <- Order
    InitPriority <- Priorities
    InitTimeSliceTask = {}
    LOWEST_TASK_PRIORITY = 2
    Queue = {}
    PriorityQueue = {}
    DELAY_ENQUEUE_FIFO_ORDER = FALSE
    MaxTimeSlice = 1
    Semaphore = {s1}
    Policies <- ValidPolicies
    InitialCounts = {0, 1, 2}
    MaxCount = 2
    MaxBoosts = 2
    MaxDelay = 1
INVARIANTS
    KernelConsistent
    TokensConserved
    NoLostWakeup
    NoBoostLeak
    DestroyedOnce
