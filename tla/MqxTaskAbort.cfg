SPECIFICATION Spec
CONSTANTS
    a = a
    b = b
    c = c
    sm = sm
    Idle = Idle
    NULL = NULL
    TASK_CREATE_LWSEM = TASK_CREATE_LWSEM
    Task <- Tasks
    BootOrder <- Order
    InitPriority <- Priorities
    InitTimeSliceTask = {}
    LOWEST_TASK_PRIORITY = 1
    Queue = {TASK_CREATE_LWSEM, sm}
    PriorityQueue = {}
    DELAY_ENQUEUE_FIFO_ORDER = FALSE
    MaxTimeSlice = 1
    MaxDelay = 1
    MaxCreates = 0
    AbortsAnywhere = TRUE
INVARIANT WaitersExact
