------------------------------ MODULE MqxKernel ------------------------------
(***************************************************************************)
(* The scheduling core of the MQX kernel as operators on one value, k: the  *)
(* part of KERNEL_DATA_STRUCT and of the task descriptors (TD_STRUCT) that  *)
(* every kernel service changes.  A service is an operator that maps the    *)
(* kernel before the call to the kernel after it, composed in the order in  *)
(* which the C code makes its calls.  What the code does between            *)
(* _INT_DISABLE and _INT_ENABLE is one such composition: one CPU runs, so   *)
(* nothing else happens meanwhile.                                          *)
(*                                                                          *)
(* The fields of k carry the names of the C fields:                         *)
(*   ACTIVE_PTR, CURRENT_READY_Q   the running task and the scheduler's     *)
(*                 hint where to look for the next one;                     *)
(*   READY_Q       per priority (0 is the highest) the queue of ready TDs;  *)
(*   MY_QUEUE, HOME_QUEUE, BOOSTED current and own priority of a task, and  *)
(*                 how often it has been boosted;                           *)
(*   TD_STATE      TD.STATE without the bit IS_ON_TIMEOUT_Q, which is       *)
(*                 membership in ON_TIMEOUT_Q;                              *)
(*   TIMEOUT_QUEUE, TIMEOUT  the sorted queue of delayed tasks; TIMEOUT is  *)
(*                 kept relative to KERNEL_DATA.TIME (ticks still to go),   *)
(*                 which is all the code ever compares;                     *)
(*   QUEUE, INFO   the wait queue of every kernel object and, per TD, the   *)
(*                 word INFO, which names the object waited for;            *)
(*   PREEMPTION_DISABLED, TIME_SLICE_TASK  the tasks with that bit in FLAGS;*)
(*   TIME_SLICE, CURRENT_TIME_SLICE        the round-robin interval, used.  *)
(***************************************************************************)
EXTENDS Integers, Sequences, FiniteSets

CONSTANTS
    Task,                         \* the task descriptors, the idle task's too
    Idle,                         \* the idle task
    LOWEST_TASK_PRIORITY,         \* lowest priority of an application task
    Queue,                        \* wait queues of the kernel objects in play
    PriorityQueue,                \* the task queues ordered by priority
    NULL,                         \* the null pointer, as a value of INFO
    DELAY_ENQUEUE_FIFO_ORDER,     \* MQX_DELAY_ENQUEUE_FIFO_ORDER (FALSE: LIFO)
    MaxTimeSlice,                 \* bound: the longest round-robin interval used
    BootOrder,                    \* the order in which the tasks are created
    InitPriority,                 \* the priority each task is created with
    InitTimeSliceTask             \* the tasks created with MQX_TIME_SLICE_TASK

ASSUME KernelAssumption ==
    /\ IsFiniteSet(Task)
    /\ Idle \in Task
    /\ LOWEST_TASK_PRIORITY \in Nat
    /\ PriorityQueue \in SUBSET Queue
    /\ NULL \notin Queue
    /\ DELAY_ENQUEUE_FIFO_ORDER \in BOOLEAN
    /\ MaxTimeSlice \in Nat \ {0}
    /\ BootOrder \in Seq(Task)
    /\ \A t \in Task : \E i \in 1 .. Len(BootOrder) : BootOrder[i] = t
    /\ \A i, j \in 1 .. Len(BootOrder) : BootOrder[i] = BootOrder[j] => i = j
    /\ InitPriority \in [Task -> 0 .. (LOWEST_TASK_PRIORITY + 2)]
    /\ InitPriority[Idle] = LOWEST_TASK_PRIORITY + 2
    /\ \A t \in Task \ {Idle} : InitPriority[t] <= LOWEST_TASK_PRIORITY
    /\ InitTimeSliceTask \in SUBSET (Task \ {Idle})

\* Below the application's priorities come the init task's, which exits before the
\* model starts, and the idle task's.
IDLE_PRIORITY == LOWEST_TASK_PRIORITY + 2

Priority == 0 .. IDLE_PRIORITY

\* STATE values with TD_IS_ON_AUX_QUEUE: the TD hangs on INFO's queue by AUX_QUEUE.
AuxStates ==
    {"LWSEM_BLOCKED", "LWEVENT_BLOCKED", "LWMSGQ_READ_BLOCKED", "LWMSGQ_WRITE_BLOCKED"}

\* STATE values with TD_IS_ON_QUEUE: the TD hangs on a queue by its own links.
QueueStates == {"MUTEX_BLOCKED", "TASK_QUEUE_BLOCKED"}

State == {"READY", "BLOCKED", "DYING", "SEM_BLOCKED"} \cup AuxStates \cup QueueStates

\* What _lwmsgq_deinit leaves in the INFO of the tasks that were waiting.
LWMSGQ_DEINIT_INFO == "LWMSGQ_DEINIT_INFO"

\* INFO is an object, or says whether a semaphore's waiter has been given a token.
Info == Queue \cup {NULL, LWMSGQ_DEINIT_INFO, "SEM_WANT_SEMAPHORE", "SEM_AVAILABLE"}

Kernel ==
    [ACTIVE_PTR          : Task,
     CURRENT_READY_Q     : Priority,
     READY_Q             : [Priority -> Seq(Task)],
     MY_QUEUE            : [Task -> Priority],
     HOME_QUEUE          : [Task -> Priority],
     BOOSTED             : [Task -> Nat],
     TD_STATE            : [Task -> State],
     ON_TIMEOUT_Q        : SUBSET Task,
     TIMEOUT_QUEUE       : Seq(Task),
     TIMEOUT             : [Task -> Int],
     QUEUE               : [Queue -> Seq(Task)],
     INFO                : [Task -> Info],
     PREEMPTION_DISABLED : SUBSET Task,
     TIME_SLICE_TASK     : SUBSET Task,
     TIME_SLICE          : [Task -> 0 .. MaxTimeSlice],
     CURRENT_TIME_SLICE  : [Task -> 0 .. MaxTimeSlice]]

(***************************************************************************)
(* Queues.  A queue is the sequence of the TDs linked on it.  (Indexed       *)
(* definitions instead of SelectSeq, whose recursion the prover cannot see.) *)
(***************************************************************************)
Elems(q) == {q[i] : i \in 1 .. Len(q)}

\* The elements of q that are in S, in the order of q.
Keep(q, S) ==
    LET I == {i \in 1 .. Len(q) : q[i] \in S}
    IN  [n \in 1 .. Cardinality(I) |->
            q[CHOOSE i \in I : Cardinality({j \in I : j <= i}) = n]]

\* _QUEUE_UNLINK, _QUEUE_REMOVE
Unlink(q, t) == Keep(q, Elems(q) \ {t})

\* _QUEUE_INSERT: t as the n-th element of q.
QUEUE_INSERT(q, n, t) ==
    [j \in 1 .. (Len(q) + 1) |->
        IF j < n THEN q[j] ELSE IF j = n THEN t ELSE q[j - 1]]

\* t inserted in q before the first element that is in S, or at the tail.
InsertBefore(q, t, S) ==
    QUEUE_INSERT(q, CHOOSE i \in 1 .. (Len(q) + 1) :
                        /\ \A j \in 1 .. (i - 1) : q[j] \notin S
                        /\ i <= Len(q) => q[i] \in S, t)

(***************************************************************************)
(* Ready queues and dispatching.                                            *)
(***************************************************************************)
\* STATE == READY, the whole word
IsReady(k, t) == k.TD_STATE[t] = "READY" /\ t \notin k.ON_TIMEOUT_Q

UnlinkReady(k, t) == [k EXCEPT !.READY_Q[k.MY_QUEUE[t]] = Unlink(@, t)]

TASK_READY_HintNotRaised(k, t) ==        \* fault: CURRENT_READY_Q forgotten
    [k EXCEPT !.TD_STATE[t] = "READY",
              !.READY_Q[k.MY_QUEUE[t]] = Append(@, t),
              !.CURRENT_TIME_SLICE[t] = 0]

TASK_READY(k, t) ==
    [k EXCEPT !.CURRENT_READY_Q = IF k.MY_QUEUE[t] < @ THEN k.MY_QUEUE[t] ELSE @,
              !.TD_STATE[t] = "READY",
              !.READY_Q[k.MY_QUEUE[t]] = Append(@, t),
              !.CURRENT_TIME_SLICE[t] = 0]

\* The PendSV handler: from CURRENT_READY_Q down to the first queue with a TD.
Dispatch(k) ==
    LET p == CHOOSE i \in Priority :
                /\ i >= k.CURRENT_READY_Q /\ k.READY_Q[i] # <<>>
                /\ \A j \in k.CURRENT_READY_Q .. (i - 1) : k.READY_Q[j] = <<>>
    IN  [k EXCEPT !.CURRENT_READY_Q = p, !.ACTIVE_PTR = Head(k.READY_Q[p])]

\* _sched_check_scheduler_internal called by a task
CHECK_RUN_SCHEDULER(k) ==
    IF k.CURRENT_READY_Q = k.MY_QUEUE[k.ACTIVE_PTR] THEN k ELSE Dispatch(k)

IsrReturn_ByPriority(k) ==               \* fault: compares priorities, not the heads
    IF \/ k.ACTIVE_PTR \in k.PREEMPTION_DISABLED
       \/ k.CURRENT_READY_Q = k.MY_QUEUE[k.ACTIVE_PTR]
    THEN k
    ELSE Dispatch(k)

\* The way out of _int_kernel_isr for the outermost interrupt.
IsrReturn(k) ==
    IF \/ k.ACTIVE_PTR \in k.PREEMPTION_DISABLED
       \/ /\ k.READY_Q[k.CURRENT_READY_Q] # <<>>
          /\ Head(k.READY_Q[k.CURRENT_READY_Q]) = k.ACTIVE_PTR
    THEN k
    ELSE Dispatch(k)

\* _task_block: the STATE the caller has set keeps its other bits.
TaskBlock(k) ==
    LET t == k.ACTIVE_PTR
    IN  Dispatch(UnlinkReady([k EXCEPT !.TD_STATE[t] =
                                 IF @ = "READY" THEN "BLOCKED" ELSE @], t))

SchedYield(k) ==
    Dispatch(TASK_READY(UnlinkReady(k, k.ACTIVE_PTR), k.ACTIVE_PTR))

(***************************************************************************)
(* Priorities.                                                              *)
(***************************************************************************)
sched_insert_priorityq_internal(k, q, t) ==
    InsertBefore(q, t, {u \in Task : k.MY_QUEUE[u] > k.MY_QUEUE[t]})

sched_set_priority_internal(k, t, p) ==
    LET old   == k.MY_QUEUE[t]
        moved == TASK_READY([UnlinkReady(k, t) EXCEPT !.MY_QUEUE[t] = p], t)
    IN  IF IsReady(k, t)
        THEN IF k.ACTIVE_PTR = t /\ p > old THEN Dispatch(moved) ELSE moved
        ELSE [k EXCEPT !.MY_QUEUE[t] = p]

sched_boost_priority_internal(k, t, p) ==
    CHECK_RUN_SCHEDULER(
        sched_set_priority_internal([k EXCEPT !.BOOSTED[t] = @ + 1], t, p))

sched_unboost_priority_internal(k, t, n) ==
    IF k.BOOSTED[t] > n
    THEN [k EXCEPT !.BOOSTED[t] = @ - n]
    ELSE IF k.BOOSTED[t] = 0
         THEN k
         ELSE CHECK_RUN_SCHEDULER(
                sched_set_priority_internal([k EXCEPT !.BOOSTED[t] = 0],
                                            t, k.HOME_QUEUE[t]))

TaskSetPriority_NotSorted(k, t, p) ==    \* fault: a waiting task keeps its place
    LET k1 == [k EXCEPT !.HOME_QUEUE[t] = p]
    IN  CHECK_RUN_SCHEDULER(IF k.BOOSTED[t] = 0 \/ p < k.MY_QUEUE[t]
                            THEN sched_set_priority_internal(k1, t, p)
                            ELSE k1)

\* _task_set_priority: a boosted task only ever gains by a new priority; a task
\* waiting on a queue ordered by priority is sorted in anew.
TaskSetPriority(k, t, p) ==
    LET k1 == [k EXCEPT !.HOME_QUEUE[t] = p]
        k2 == IF k.BOOSTED[t] = 0 \/ p < k.MY_QUEUE[t]
              THEN sched_set_priority_internal(k1, t, p)
              ELSE k1
        o  == k.INFO[t]
        k3 == IF /\ k.TD_STATE[t] = "TASK_QUEUE_BLOCKED"
                 /\ t \notin k.ON_TIMEOUT_Q
                 /\ o \in PriorityQueue
              THEN [k2 EXCEPT !.QUEUE[o] =
                        sched_insert_priorityq_internal(k2, Unlink(@, t), t)]
              ELSE k2
    IN  CHECK_RUN_SCHEDULER(k3)

(***************************************************************************)
(* The timeout queue.                                                       *)
(***************************************************************************)
DELAY_ENQUEUE_POLICY_Reversed(k, t) ==   \* fault: the comparison turned round
    {u \in Task : k.TIMEOUT[u] < k.TIMEOUT[t]}

\* MQX_DELAY_ENQUEUE_POLICY: the delayed tasks that t is put in front of
DELAY_ENQUEUE_POLICY(k, t) ==
    {u \in Task : \/ k.TIMEOUT[u] > k.TIMEOUT[t]
                  \/ ~DELAY_ENQUEUE_FIFO_ORDER /\ k.TIMEOUT[u] = k.TIMEOUT[t]}

\* ticks: the new TIMEOUT of the task, relative to TIME (not positive: in the past)
time_delay_internal(k, t, ticks) ==
    LET k1 == [k EXCEPT !.TIMEOUT[t] = ticks]
    IN  Dispatch([UnlinkReady(k1, t) EXCEPT
            !.TIMEOUT_QUEUE = InsertBefore(@, t, DELAY_ENQUEUE_POLICY(k1, t)),
            !.ON_TIMEOUT_Q = @ \cup {t}])

TIME_DEQUEUE_StaysReady(k, t) ==         \* fault: STATE is not set to BLOCKED
    IF t \in k.ON_TIMEOUT_Q
    THEN [k EXCEPT !.TIMEOUT_QUEUE = Unlink(@, t),
                   !.ON_TIMEOUT_Q = @ \ {t},
                   !.TIMEOUT[t] = 0]
    ELSE k

\* _TIME_DEQUEUE; a TIMEOUT that no queue refers to is dead and is kept at 0.
TIME_DEQUEUE(k, t) ==
    IF t \in k.ON_TIMEOUT_Q
    THEN [k EXCEPT !.TIMEOUT_QUEUE = Unlink(@, t),
                   !.ON_TIMEOUT_Q = @ \ {t},
                   !.TIMEOUT[t] = 0,
                   !.TD_STATE[t] = IF @ = "READY" THEN "BLOCKED" ELSE @]
    ELSE k

\* _TASK_READY for each TD of the sequence s, in that order.
ReadyAll(k, s) ==
    [k EXCEPT
        !.CURRENT_READY_Q =
            CHOOSE p \in {@} \cup {k.MY_QUEUE[t] : t \in Elems(s)} :
                \A r \in {@} \cup {k.MY_QUEUE[t] : t \in Elems(s)} : p <= r,
        !.TD_STATE = [t \in Task |-> IF t \in Elems(s) THEN "READY" ELSE @[t]],
        !.READY_Q =
            [p \in Priority |->
                @[p] \o Keep(s, {t \in Task : k.MY_QUEUE[t] = p})],
        !.CURRENT_TIME_SLICE =
            [t \in Task |-> IF t \in Elems(s) THEN 0 ELSE @[t]]]

\* Every TD on wait queue o dequeued and, through _TIME_DEQUEUE, made ready: the
\* loop of the destroy functions.
ReleaseAll(k, o) ==
    LET s == k.QUEUE[o]
    IN  ReadyAll([k EXCEPT
            !.QUEUE[o] = <<>>,
            !.TIMEOUT_QUEUE = Keep(@, Task \ Elems(s)),
            !.ON_TIMEOUT_Q = @ \ Elems(s),
            !.TIMEOUT = [t \in Task |-> IF t \in Elems(s) THEN 0 ELSE @[t]]], s)

Due_Late(k, t) == k.TIMEOUT[t] < 0       \* fault: one tick late

Due(k, t) == k.TIMEOUT[t] <= 0

LeaveAuxQueues_Not(k, S) == k.QUEUE      \* fault: AUX_QUEUE is not unlinked

\* The wait queues without the tasks of S that hang on them by AUX_QUEUE.
LeaveAuxQueues(k, S) ==
    [o \in Queue |->
        Keep(k.QUEUE[o],
             Task \ {t \in S : k.TD_STATE[t] \in AuxStates /\ k.INFO[t] = o})]

\* The head entries of the timeout queue whose time has come, and what remains.
Expire(k) ==
    LET q    == k.TIMEOUT_QUEUE
        n    == CHOOSE i \in 0 .. Len(q) :
                   /\ \A j \in 1 .. i : Due(k, q[j])
                   /\ i < Len(q) => ~Due(k, q[i + 1])
        due  == SubSeq(q, 1, n)
    IN  ReadyAll([k EXCEPT
            !.TIMEOUT_QUEUE = SubSeq(q, n + 1, Len(q)),
            !.ON_TIMEOUT_Q = @ \ Elems(due),
            !.TIMEOUT = [t \in Task |-> IF t \in Elems(due) THEN 0 ELSE @[t]],
            !.QUEUE = LeaveAuxQueues(k, Elems(due))], due)

TimeSlice_NoReset(k) ==                  \* fault: CURRENT_TIME_SLICE counts on
    LET t    == k.ACTIVE_PTR
        used == k.CURRENT_TIME_SLICE[t] + 1
        k1   == IF t \notin k.PREEMPTION_DISABLED /\ used >= k.TIME_SLICE[t]
                THEN TASK_READY(UnlinkReady(k, t), t)
                ELSE k
    IN  IF t \notin k.TIME_SLICE_TASK
        THEN k
        ELSE [k1 EXCEPT !.CURRENT_TIME_SLICE[t] = used]

\* Round robin: a task that has used up its time slice goes to the tail of its
\* queue.  CURRENT_TIME_SLICE is only ever compared with a TIME_SLICE, so counting
\* stops at the longest one.
TimeSlice(k) ==
    LET t    == k.ACTIVE_PTR
        used == k.CURRENT_TIME_SLICE[t] + 1
    IN  IF t \notin k.TIME_SLICE_TASK
        THEN k
        ELSE IF t \notin k.PREEMPTION_DISABLED /\ used >= k.TIME_SLICE[t]
             THEN TASK_READY(UnlinkReady(k, t), t)
             ELSE [k EXCEPT !.CURRENT_TIME_SLICE[t] =
                       IF used > MaxTimeSlice THEN MaxTimeSlice ELSE used]

IncTime_NotWhenIdle(k) ==                \* fault: ticks are lost while nothing runs
    [k EXCEPT !.TIMEOUT =
        [t \in Task |-> IF t \in k.ON_TIMEOUT_Q /\ k.ACTIVE_PTR # Idle
                       THEN @[t] - 1 ELSE @[t]]]

\* TIME moves on by one tick.
IncTime(k) ==
    [k EXCEPT !.TIMEOUT =
        [t \in Task |-> IF t \in k.ON_TIMEOUT_Q THEN @[t] - 1 ELSE @[t]]]

time_notify_kernel(k) == TimeSlice(Expire(IncTime(k)))

(***************************************************************************)
(* The kernel when _mqx has created the idle task, the init task, which has *)
(* stopped preemption, has created the autostart tasks and has exited, and  *)
(* the first of them has been dispatched.                                   *)
(***************************************************************************)
Boot ==
    Dispatch(ReadyAll(
        [ACTIVE_PTR          |-> Idle,
         CURRENT_READY_Q     |-> IDLE_PRIORITY,
         READY_Q             |-> [p \in Priority |-> <<>>],
         MY_QUEUE            |-> InitPriority,
         HOME_QUEUE          |-> InitPriority,
         BOOSTED             |-> [t \in Task |-> 0],
         TD_STATE            |-> [t \in Task |-> "BLOCKED"],
         ON_TIMEOUT_Q        |-> {},
         TIMEOUT_QUEUE       |-> <<>>,
         TIMEOUT             |-> [t \in Task |-> 0],
         QUEUE               |-> [o \in Queue |-> <<>>],
         INFO                |-> [t \in Task |-> NULL],
         PREEMPTION_DISABLED |-> {},
         TIME_SLICE_TASK     |-> InitTimeSliceTask,
         TIME_SLICE          |-> [t \in Task |-> MaxTimeSlice],
         CURRENT_TIME_SLICE  |-> [t \in Task |-> 0]], BootOrder))

(***************************************************************************)
(* What every kernel service must preserve, whatever the other calls and     *)
(* interrupts are.                                                           *)
(***************************************************************************)
NoDuplicates(q) == \A i, j \in 1 .. Len(q) : q[i] = q[j] => i = j

\* The ready queues hold exactly the tasks whose STATE is READY, each once, in the
\* queue of its current priority.
ReadyQueuesOK(k) ==
    \A p \in Priority :
        /\ NoDuplicates(k.READY_Q[p])
        /\ \A t \in Task :
              t \in Elems(k.READY_Q[p]) <=> IsReady(k, t) /\ k.MY_QUEUE[t] = p

\* The dispatcher searches from CURRENT_READY_Q downwards: a task that is ready
\* above it would never be found.
HintOK(k) == \A p \in Priority : p < k.CURRENT_READY_Q => k.READY_Q[p] = <<>>

\* The active task is ready, and no ready task has a higher priority unless the
\* active task has stopped preemption.
RunningOK(k) ==
    /\ IsReady(k, k.ACTIVE_PTR)
    /\ k.ACTIVE_PTR \notin k.PREEMPTION_DISABLED =>
          \A t \in Task : IsReady(k, t) => k.MY_QUEUE[k.ACTIVE_PTR] <= k.MY_QUEUE[t]

\* The timeout queue holds exactly the tasks with IS_ON_TIMEOUT_Q, sorted by
\* TIMEOUT.
TimeoutQueueOK(k) ==
    LET q == k.TIMEOUT_QUEUE
    IN  /\ NoDuplicates(q)
        /\ Elems(q) = k.ON_TIMEOUT_Q
        /\ \A i, j \in 1 .. Len(q) : i < j => k.TIMEOUT[q[i]] <= k.TIMEOUT[q[j]]

\* The wait queue of an object holds exactly the tasks whose STATE says that they
\* are on a queue and whose INFO names it; X: tasks dequeued but not readied yet.
WaitQueuesOK(k, X) ==
    \A o \in Queue :
        /\ NoDuplicates(k.QUEUE[o])
        /\ \A t \in Task :
              t \in Elems(k.QUEUE[o]) <=>
                 /\ k.TD_STATE[t] \in AuxStates \cup QueueStates
                 /\ k.INFO[t] = o
                 /\ t \notin X

SchedulerOK(k) ==
    ReadyQueuesOK(k) /\ HintOK(k) /\ RunningOK(k) /\ TimeoutQueueOK(k)
=============================================================================
