------------------------------- MODULE MqxTask -------------------------------
(***************************************************************************)
(* The life of a task (task.c): _task_create, _task_create_blocked,           *)
(* _task_destroy, _task_restart and _task_abort, with the list of task       *)
(* descriptors and the numbering of tasks.                                   *)
(*                                                                           *)
(* Creation and destruction are serialized by a lightweight semaphore,       *)
(* TASK_CREATE_LWSEM, but run with interrupts enabled: each part of a call   *)
(* between two points where another task can come in is an action, and       *)
(* op[t].at names the part that t is to run next.  The victims are ready, in *)
(* the middle of such a call themselves, or wait for a semaphore, with or    *)
(* without a timeout.  A TD is a block of memory: freed, it can become the   *)
(* TD of another task.                                                       *)
(***************************************************************************)
EXTENDS MqxKernel

CONSTANTS
    TASK_CREATE_LWSEM,   \* the queue of KERNEL_DATA.TASK_CREATE_LWSEM
    MaxDelay,            \* bound: the longest timeout, in ticks
    MaxCreates,          \* bound: calls of _task_create
    AbortsAnywhere       \* _task_abort is called for tasks in any state

ASSUME TaskAssumption ==
    /\ TASK_CREATE_LWSEM \in Queue
    /\ NULL \notin Task
    /\ MaxDelay \in Nat
    /\ MaxCreates \in Nat
    /\ AbortsAnywhere \in BOOLEAN

VARIABLES
    k,                   \* KERNEL_DATA and the task descriptors
    VALUE,               \* TASK_CREATE_LWSEM.VALUE
    TD_LIST,             \* KERNEL_DATA.TD_LIST: all TDs but the system's
    TASK_ID,             \* per TD: the task number in TASK_ID, 0: TASK_ID_DYING
    TASK_NUMBER,         \* KERNEL_DATA.TASK_NUMBER: the next task's number
    INSERT_TD_PTR,       \* KERNEL_DATA.INSERT_TD_PTR; NULL: the head of the list
    freed,               \* the TDs whose memory is the allocator's
    op,                  \* per task: the call it is in
    created              \* history: calls of _task_create so far

lists == <<TD_LIST, TASK_ID, TASK_NUMBER, INSERT_TD_PTR>>
vars == <<k, VALUE, lists, freed, op, created>>

td == k.ACTIVE_PTR

Sem == Queue \ {TASK_CREATE_LWSEM}

NoCall == [at |-> "none", td |-> NULL, then |-> "none"]

\* td: the TD that is made, destroyed or restarted; then: the part that follows
\* _lwsem_post.
Calls ==
    [at   : {"none", "build", "ready", "blocked", "wait", "victim", "cleanup", "post",
             "free", "restart", "restart_blocked"},
     td   : Task \cup {NULL},
     then : {"none", "ready", "blocked", "free", "restart", "restart_blocked"}]

\* The init task had number 1 and the idle task 2; the init task's own exit has made
\* its number, and its place in the list, the next to be used.
Init ==
    /\ k = Boot
    /\ VALUE = 1
    /\ TD_LIST = BootOrder
    /\ TASK_ID = [t \in Task |-> 1 + CHOOSE i \in 1 .. Len(BootOrder) : BootOrder[i] = t]
    /\ TASK_NUMBER = 1
    /\ INSERT_TD_PTR = NULL
    /\ freed = {}
    /\ op = [t \in Task |-> NoCall]
    /\ created = 0

\* The active task is not in a call.
Free == td # Idle /\ op[td] = NoCall

At(at) == op[td].at = at

Goto(at) == op' = [op EXCEPT ![td].at = at]

Leave == op' = [op EXCEPT ![td] = NoCall]

(***************************************************************************)
(* Lightweight semaphores, as far as they are used here.                    *)
(***************************************************************************)
\* The active task waits for s, which has no token, for n ticks or without limit.
Block(s, timed, n) ==
    LET k1 == [k EXCEPT !.TD_STATE[td] = "LWSEM_BLOCKED",
                        !.INFO[td] = s,
                        !.QUEUE[s] = Append(@, td)]
    IN  IF timed THEN time_delay_internal(k1, td, n) ELSE Dispatch(UnlinkReady(k1, td))

\* The first task that waits for s is made ready.
HandOver(s) ==
    LET t  == Head(k.QUEUE[s])
        k1 == TIME_DEQUEUE([k EXCEPT !.QUEUE[s] = Tail(@)], t)
    IN  TASK_READY([k1 EXCEPT !.INFO[t] = NULL], t)

\* _lwsem_wait(TASK_CREATE_LWSEM): the call goes on when it returns.
Serialize ==
    IF VALUE <= 0
    THEN k' = Block(TASK_CREATE_LWSEM, FALSE, 0) /\ UNCHANGED VALUE
    ELSE VALUE' = VALUE - 1 /\ UNCHANGED k

\* _lwsem_post(TASK_CREATE_LWSEM)
Post ==
    /\ At("post")
    /\ IF k.QUEUE[TASK_CREATE_LWSEM] # <<>>
       THEN k' = CHECK_RUN_SCHEDULER(HandOver(TASK_CREATE_LWSEM)) /\ UNCHANGED VALUE
       ELSE VALUE' = VALUE + 1 /\ UNCHANGED k
    /\ IF op[td].then = "none" THEN Leave ELSE Goto(op[td].then)
    /\ UNCHANGED <<lists, freed, created>>

(***************************************************************************)
(* _task_create, _task_create_blocked                                       *)
(***************************************************************************)
\* then = "ready": _task_create, "blocked": _task_create_blocked
task_create(then) ==
    /\ Free
    /\ created < MaxCreates
    /\ created' = created + 1
    /\ Serialize
    /\ op' = [op EXCEPT ![td] = [NoCall EXCEPT !.at = "build", !.then = then]]
    /\ UNCHANGED <<lists, freed>>

NumberTask_KeepsInsert(u) ==             \* fault: the insertion point is not moved on
    LET pos == IF INSERT_TD_PTR = NULL THEN 1
               ELSE 1 + CHOOSE i \in 1 .. Len(TD_LIST) : TD_LIST[i] = INSERT_TD_PTR
    IN  /\ TD_LIST' = QUEUE_INSERT(TD_LIST, pos, u)
        /\ TASK_ID' = [TASK_ID EXCEPT ![u] = TASK_NUMBER]
        /\ TASK_NUMBER' = TASK_NUMBER + 1
        /\ INSERT_TD_PTR' = u

\* The new TD gets TASK_NUMBER and its place in the list; then the list is followed to
\* the first number that is not used.  (Numbers have 16 bits and skip 0; a list of
\* 65534 TDs is full, so the number never wraps round.)
NumberTask(u) ==
    LET pos  == IF INSERT_TD_PTR = NULL THEN 1
                ELSE 1 + CHOOSE i \in 1 .. Len(TD_LIST) : TD_LIST[i] = INSERT_TD_PTR
        list == QUEUE_INSERT(TD_LIST, pos, u)
        id   == [TASK_ID EXCEPT ![u] = TASK_NUMBER]
        last == CHOOSE j \in pos .. Len(list) :
                   /\ \A i \in pos .. j : id[list[i]] = TASK_NUMBER + (i - pos)
                   /\ j < Len(list) => id[list[j + 1]] # TASK_NUMBER + (j + 1 - pos)
    IN  /\ TD_LIST' = list
        /\ TASK_ID' = id
        /\ TASK_NUMBER' = TASK_NUMBER + (last - pos) + 1
        /\ INSERT_TD_PTR' = list[last]

\* _task_init_internal: a TD in memory that has been zeroed.  The allocator may hand
\* out memory that a task waiting for TASK_CREATE_LWSEM still means to look at; it does
\* not do so here.
Build(u) ==
    /\ At("build")
    /\ u \in freed
    /\ \A t \in Task : op[t].td # u
    /\ NumberTask(u)
    /\ k' = [k EXCEPT !.TD_STATE[u] = "BLOCKED",
                      !.MY_QUEUE[u] = InitPriority[u],
                      !.HOME_QUEUE[u] = InitPriority[u],
                      !.BOOSTED[u] = 0,
                      !.INFO[u] = NULL,
                      !.PREEMPTION_DISABLED = @ \ {u}]
    /\ freed' = freed \ {u}
    /\ op' = [op EXCEPT ![td].at = "post", ![td].td = u]
    /\ UNCHANGED <<VALUE, created>>

\* Out of memory for the TD and its stack.
BuildFails ==
    /\ At("build")
    /\ op' = [op EXCEPT ![td] = [NoCall EXCEPT !.at = "post"]]
    /\ UNCHANGED <<k, VALUE, lists, freed, created>>

ReadyNewTask ==
    /\ At("ready")
    /\ k' = CHECK_RUN_SCHEDULER(TASK_READY(k, op[td].td))
    /\ Leave
    /\ UNCHANGED <<VALUE, lists, freed, created>>

NewTaskBlocked ==
    /\ At("blocked")
    /\ k' = [k EXCEPT !.TD_STATE[op[td].td] = "BLOCKED"]
    /\ Leave
    /\ UNCHANGED <<VALUE, lists, freed, created>>

(***************************************************************************)
(* _task_destroy                                                            *)
(***************************************************************************)
\* The tasks that a call may name: the ones whose creation has been completed.
Named ==
    {t \in Elems(TD_LIST) \ {Idle} :
        \A u \in Task : op[u].td = t =>
                          {op[u].at, op[u].then} \cap {"ready", "blocked"} = {}}

\* t is being restarted, or is going to be.
Restarting(t) ==
    \E u \in Task : /\ op[u].td = t
                    /\ {op[u].at, op[u].then} \cap {"restart", "restart_blocked"} # {}

\* _task_get_td; a task that destroys itself or ends comes here, too.  (Not for a task
\* that somebody restarts: _task_restart does not look whether its victim is dying.)
task_destroy(v) ==
    /\ Free
    /\ v \in Named /\ ~Restarting(v)
    /\ op' = [op EXCEPT ![td] = [NoCall EXCEPT !.at = "wait", !.td = v]]
    /\ UNCHANGED <<k, VALUE, lists, freed, created>>

DestroyWait ==
    /\ At("wait")
    /\ Serialize
    /\ Goto("victim")
    /\ UNCHANGED <<lists, freed, created>>

LeaveQueue(k1, t) == [k1 EXCEPT !.QUEUE[k1.INFO[t]] = Unlink(@, t)]

TakeOff_StaysReady(v) ==                 \* fault: a ready victim is not unlinked
    LET k1 == TIME_DEQUEUE(k, v)
    IN  IF k.TD_STATE[v] \in AuxStates THEN LeaveQueue(k1, v) ELSE k1

TakeOff_NotAux(v) ==                     \* fault: AUX_QUEUE is not unlinked
    IF IsReady(k, v) THEN (IF v = td THEN k ELSE UnlinkReady(k, v))
                     ELSE TIME_DEQUEUE(k, v)

\* The victim is taken off whatever it is on; a victim that is the active task
\* stays on its ready queue until it has done its work.
TakeOff(v) ==
    LET k1 == IF IsReady(k, v) THEN (IF v = td THEN k ELSE UnlinkReady(k, v))
              ELSE IF v \in k.ON_TIMEOUT_Q THEN TIME_DEQUEUE(k, v)
              ELSE IF k.TD_STATE[v] \in QueueStates THEN LeaveQueue(k, v) ELSE k
    IN  IF k.TD_STATE[v] \in AuxStates THEN LeaveQueue(k1, v) ELSE k1

\* With TASK_CREATE_LWSEM.  A victim that is dying already is left to its destroyer;
\* another is gone from here on, and with it the call that it was in.
Victim ==
    /\ At("victim") /\ op[td].then = "none"
    /\ LET v == op[td].td
       IN  IF k.TD_STATE[v] = "DYING"
           THEN Goto("post") /\ UNCHANGED k
           ELSE /\ k' = [TakeOff(v) EXCEPT !.TD_STATE[v] = "DYING"]
                /\ op' = [t \in Task |-> IF t = td THEN [op[t] EXCEPT !.at = "cleanup"]
                                         ELSE IF t = v THEN NoCall ELSE op[t]]
    /\ UNCHANGED <<VALUE, lists, freed, created>>

\* Its resources are released (the components' own work is left out), its number
\* becomes the next one if it is lower, and it leaves the list.
Cleanup ==
    LET v    == op[td].td
        i    == CHOOSE n \in 1 .. Len(TD_LIST) : TD_LIST[n] = v
        prev == IF i = 1 THEN NULL ELSE TD_LIST[i - 1]
        only == Len(TD_LIST) = 1
        low  == TASK_NUMBER > TASK_ID[v]
    IN  /\ At("cleanup")
        /\ TD_LIST' = Unlink(TD_LIST, v)
        /\ TASK_ID' = [TASK_ID EXCEPT ![v] = 0]
        /\ TASK_NUMBER' = IF only THEN 1 ELSE IF low THEN TASK_ID[v] ELSE TASK_NUMBER
        /\ INSERT_TD_PTR' = IF only THEN NULL ELSE IF low THEN prev ELSE INSERT_TD_PTR
        /\ op' = [op EXCEPT ![td].at = "post", ![td].then = "free"]
        /\ UNCHANGED <<k, VALUE, freed, created>>

\* The memory goes back; a task that has destroyed itself is switched out for good.
FreeVictim ==
    /\ At("free")
    /\ freed' = freed \cup {op[td].td}
    /\ Leave
    /\ k' = IF op[td].td = td THEN Dispatch(UnlinkReady(k, td)) ELSE k
    /\ UNCHANGED <<VALUE, lists, created>>

(***************************************************************************)
(* _task_restart                                                            *)
(***************************************************************************)
\* then: "restart", or "restart_blocked" with the parameter blocked
task_restart(v, then) ==
    /\ Free
    /\ v \in Named /\ \A t \in Task : op[t].td # v
    /\ op' = [op EXCEPT ![td] = [at |-> "wait", td |-> v, then |-> then]]
    /\ UNCHANGED <<k, VALUE, lists, freed, created>>

\* With TASK_CREATE_LWSEM: the victim stops where it is, and gives back what it has.
RestartVictim ==
    LET v == op[td].td
    IN  /\ At("victim") /\ op[td].then # "none"
        /\ k' = [TakeOff(v) EXCEPT !.TD_STATE[v] = "DYING"]
        /\ op' = [t \in Task |-> IF t = td THEN [op[t] EXCEPT !.at = "post"]
                                 ELSE IF t = v THEN NoCall ELSE op[t]]
        /\ UNCHANGED <<VALUE, lists, freed, created>>

\* After _lwsem_post the TD is set up anew, with the number that it has.
Restart ==
    LET v  == op[td].td
        k1 == [IF v = td THEN UnlinkReady(k, v) ELSE k EXCEPT
                  !.MY_QUEUE[v] = InitPriority[v],
                  !.HOME_QUEUE[v] = InitPriority[v],
                  !.PREEMPTION_DISABLED = @ \ {v}]
        k2 == IF At("restart") THEN TASK_READY(k1, v)
                               ELSE [k1 EXCEPT !.TD_STATE[v] = "BLOCKED"]
    IN  /\ At("restart") \/ At("restart_blocked")
        /\ k' = IF v = td THEN Dispatch(k2) ELSE CHECK_RUN_SCHEDULER(k2)
        /\ Leave
        /\ UNCHANGED <<VALUE, lists, freed, created>>

(***************************************************************************)
(* _task_abort                                                              *)
(***************************************************************************)
\* The tasks that _task_abort can stop without harm: nobody is destroying or restarting
\* them, they are not in a wait with a timeout, and in none of these calls, unless they
\* wait there for TASK_CREATE_LWSEM, which _task_abort itself does not ask for.
Abortable(v) ==
    /\ \A t \in Task : op[t].td # v
    /\ v \notin k.ON_TIMEOUT_Q
    /\ \/ op[v] = NoCall
       \/ k.TD_STATE[v] = "LWSEM_BLOCKED" /\ k.INFO[v] = TASK_CREATE_LWSEM

\* The victim, not the active task, is taken off one queue, made ready if it was not,
\* and goes on with its own destruction.
task_abort(v) ==
    /\ Free
    /\ v \in Named \ {td}
    /\ AbortsAnywhere \/ Abortable(v)
    /\ LET k1 == IF v \in k.ON_TIMEOUT_Q THEN TIME_DEQUEUE(k, v)
                 ELSE IF k.TD_STATE[v] \in QueueStates \cup AuxStates
                      THEN LeaveQueue(k, v) ELSE k
       IN  k' = IF k1.TD_STATE[v] = "READY" THEN k1
                ELSE CHECK_RUN_SCHEDULER(TASK_READY(k1, v))
    /\ op' = [op EXCEPT ![v] = [NoCall EXCEPT !.at = "wait", !.td = v]]
    /\ UNCHANGED <<VALUE, lists, freed, created>>

(***************************************************************************)
(* What the tasks do otherwise, and interrupts.  The semaphores of Sem were *)
(* created with 0 and are posted only when somebody waits.                  *)
(***************************************************************************)
\* For a task that was created or restarted blocked.
task_ready(t) ==
    /\ Free
    /\ t \in Named /\ k.TD_STATE[t] = "BLOCKED"
    /\ k' = CHECK_RUN_SCHEDULER(TASK_READY(k, t))
    /\ UNCHANGED <<VALUE, lists, freed, op, created>>

lwsem_wait(s, timed, n) ==
    /\ Free
    /\ k' = Block(s, timed, n)
    /\ UNCHANGED <<VALUE, lists, freed, op, created>>

IsrPost(s) ==
    /\ k.QUEUE[s] # <<>>
    /\ k' = IsrReturn(HandOver(s))
    /\ UNCHANGED <<VALUE, lists, freed, op, created>>

Tick ==
    /\ k' = IsrReturn(time_notify_kernel(k))
    /\ UNCHANGED <<VALUE, lists, freed, op, created>>

Next ==
    \/ \E then \in {"ready", "blocked"} : task_create(then)
    \/ \E u \in Task : Build(u)
    \/ BuildFails
    \/ ReadyNewTask
    \/ NewTaskBlocked
    \/ \E v \in Task : task_destroy(v)
    \/ DestroyWait
    \/ Victim
    \/ Cleanup
    \/ FreeVictim
    \/ Post
    \/ \E v \in Task, then \in {"restart", "restart_blocked"} : task_restart(v, then)
    \/ RestartVictim
    \/ Restart
    \/ \E t \in Task : task_ready(t)
    \/ \E v \in Task : task_abort(v)
    \/ \E s \in Sem : lwsem_wait(s, FALSE, 0)
    \/ \E s \in Sem, n \in 1 .. MaxDelay : lwsem_wait(s, TRUE, n)
    \/ \E s \in Sem : IsrPost(s)
    \/ Tick

Spec == Init /\ [][Next]_vars

(***************************************************************************)
(* Properties.                                                              *)
(***************************************************************************)
\* The kernel data, the list, the numbers and the calls under way have their types.
TypeOK ==
    /\ k \in Kernel
    /\ VALUE \in Nat
    /\ TD_LIST \in Seq(Task)
    /\ TASK_ID \in [Task -> Nat]
    /\ TASK_NUMBER \in Nat \ {0}
    /\ INSERT_TD_PTR \in Task \cup {NULL}
    /\ freed \in SUBSET Task
    /\ op \in [Task -> Calls]
    /\ created \in Nat

\* A task that destroys itself is DYING while it still runs and is linked as ready.
Ending(t) == k.TD_STATE[t] = "DYING" /\ op[t].td = t

\* The scheduler's own invariants, with a task that destroys itself counted as ready
\* until it is switched out for good: whatever the victim was doing, and whoever
\* comes in between, no ready queue keeps a dead task or loses a living one.
SchedulerConsistent ==
    SchedulerOK([k EXCEPT !.TD_STATE =
        [t \in Task |-> IF Ending(t) THEN "READY" ELSE @[t]]])

\* _task_abort "causes the victim task to be removed from any queues it is blocked on"
\* (task.c:163-164), and so do _task_destroy and _task_restart: a semaphore's queue holds
\* the tasks that wait, only them.  With AbortsAnywhere it fails: a victim that waits with
\* a timeout is taken off the timeout queue and stays on the semaphore's.
WaitersExact == WaitQueuesOK(k, {})

\* The memory of a TD is given back only when no list of the kernel refers to it.
FreedIsUnlinked ==
    \A t \in freed :
        /\ t # td
        /\ t \notin Elems(TD_LIST) \cup k.ON_TIMEOUT_Q
        /\ \A p \in Priority : t \notin Elems(k.READY_Q[p])
        /\ \A o \in Queue : t \notin Elems(k.QUEUE[o])

\* Tasks are destroyed and restarted while they are ready, wait, with or without a timeout,
\* or are themselves creating, destroying or restarting a task, and aborted while they are
\* Abortable: the kernel's queues and the running task fit together and none of them
\* refers to memory that was given back.  For tasks without round robin, and unless
\* AbortsAnywhere.
KernelConsistent == TypeOK /\ SchedulerConsistent /\ WaitersExact /\ FreedIsUnlinked

\* The tasks between _lwsem_wait and _lwsem_post of TASK_CREATE_LWSEM.
Holders ==
    {t \in Task : /\ op[t].at \in {"build", "victim", "cleanup", "post"}
                  /\ t \notin Elems(k.QUEUE[TASK_CREATE_LWSEM])}

\* Creation and destruction exclude each other, and the one token of TASK_CREATE_LWSEM
\* survives every destroyed or restarted task, and every aborted task that is Abortable,
\* the ones that wait for it included; its holder cannot be destroyed or restarted (that
\* takes the token) and is not aborted here.  Unless AbortsAnywhere, and without round robin.
Serialized == VALUE + Cardinality(Holders) = 1

\* The list is sorted by task numbers, without two alike; TASK_NUMBER is the lowest
\* number that is not used and INSERT_TD_PTR the place where it belongs.  The code
\* keeps both up to date step by step and never searches the list from its head.
NumbersUnique ==
    /\ \A i, j \in 1 .. Len(TD_LIST) :
          i < j => TASK_ID[TD_LIST[i]] < TASK_ID[TD_LIST[j]]
    /\ {TASK_ID[t] : t \in Elems(TD_LIST)} \cap (1 .. TASK_NUMBER) = 1 .. (TASK_NUMBER - 1)
    /\ INSERT_TD_PTR = IF TASK_NUMBER = 1 THEN NULL ELSE TD_LIST[TASK_NUMBER - 1]
=============================================================================
