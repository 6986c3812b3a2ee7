SPECIFICATION FairSpec
CONSTANTS
    a = a
    b = b
    wt = wt
    x = x
    y = y
    Idle = Idle
    NULL = NULL
    Task <- TwoTasks
    BootOrder <- TwoOrder
    InitPriority <- TwoPriorities
    InitTimeSliceTask = {}
    LOWEST_TASK_PRIORITY = 1
    Queue = {wt}
    PriorityQueue = {}
    DELAY_ENQUEUE_FIFO_ORDER = FALSE
    MaxTimeSlice = 1
    WAITING_TASKS = wt
    Bit = {x, y}
    AutoMasks <- Masks
    MaxDelay = 1
    MaxCreates = 1
INVARIANTS
    KernelConsistent
    NoMissedEvent
    EventsUsedOnce
PROPERTY TimedWaitEnds
