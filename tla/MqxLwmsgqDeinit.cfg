SPECIFICATION Spec
CONSTANTS
    a = a
    b = b
    c = c
    rd = rd
    wr = wr
    x = x
    y = y
    Idle = Idle
    NULL = NULL
    Task <- TwoTasks
    BootOrder <- TwoOrder
    InitPriority <- TwoPriorities
    InitTimeSliceTask = {}
    LOWEST_TASK_PRIORITY = 1
    Queue = {rd, wr}
    PriorityQueue = {}
    DELAY_ENQUEUE_FIFO_ORDER = FALSE
    MaxTimeSlice = 1
    WAITING_READERS = rd
    WAITING_WRITERS = wr
    Msg = {x, y}
    IsrMsg = {y}
    MAX_SIZE = 1
    MaxDelay = 1
    MaxInits = 1
    ReceiveTimeouts <- Timeouts
    SendFlags <- Flags
    Sender = {a, b}
    Manager = {a}
INVARIANT NoWaitOnDeinited
