SPECIFICATION TaskqSpec
CONSTANTS
    a = a
    b = b
    c = c
    fifo = fifo
    prio = prio
    Idle = Idle
    NULL = NULL
    Task <- Tasks
    BootOrder <- Order
    InitPriority <- Priorities
    InitTimeSliceTask = {}
    LOWEST_TASK_PRIORITY = 1
    Queue = {fifo, prio}
    PriorityQueue = {prio}
    DELAY_ENQUEUE_FIFO_ORDER = FALSE
    MaxTimeSlice = 1
    MaxDelay = 1
INVARIANTS
    KernelConsistent
    UrgentFirst
    NoneLeftBehind
