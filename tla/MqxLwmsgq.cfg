SPECIFICATION Spec
CONSTANTS
    a = a
    b = b
    c = c
    rd = rd
    wr = wr
    x = x
    y = y
    Idle = Idle
    NULL = NULL
    Task <- ThreeTasks
    BootOrder <- ThreeOrder
    InitPriority <- ThreePriorities
    InitTimeSliceTask = {}
    LOWEST_TASK_PRIORITY = 1
    Queue = {rd, wr}
    PriorityQueue = {}
    DELAY_ENQUEUE_FIFO_ORDER = FALSE
    MaxTimeSlice = 1
    WAITING_READERS = rd
    WAITING_WRITERS = wr
    Msg = {x, y}
    IsrMsg = {y}
    MAX_SIZE = 2
    MaxDelay = 1
    MaxInits = 1
    ReceiveTimeouts <- Timeouts
    SendFlags <- Flags
    Sender = {b, c}
    Manager = {a}
INVARIANTS
    KernelConsistent
    NobodyLeftWaiting
PROPERTY ImplementsChannel
