SPECIFICATION FairSpec
CONSTANTS
    a = a
    b = b
    Idle = Idle
    NULL = NULL
    Task <- Tasks
    BootOrder <- Order
    InitPriority <- Priorities
    InitTimeSliceTask = {}
    LOWEST_TASK_PRIORITY = 1
    Queue = {}
    PriorityQueue = {}
    DELAY_ENQUEUE_FIFO_ORDER = TRUE
    MaxTimeSlice = 2
    MaxDelay = 2
INVARIANTS
    TypeOK
    ReadyQueuesExact
    HintIsSafe
    RunsHighestPriority
    TimeoutQueueExact
PROPERTIES
    WakesOnTime
    RoundRobinFair
    DelaysEnd
