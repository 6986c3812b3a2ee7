------------------------------- MODULE MqxMutex -------------------------------
(***************************************************************************)
(* Mutexes (mutex.c) with priority inheritance, priority ceilings, queueing  *)
(* and spinning, on the scheduling core.                                     *)
(*                                                                           *)
(* A task that disables interrupts can still be switched out: the scheduler  *)
(* calls inside _mutex_lock and _mutex_unlock do it at once, and the rest of  *)
(* the call is executed when the task is active again.  So a call is cut into *)
(* actions where the code enables interrupts and also where it calls the      *)
(* scheduler; call[t].at says where task t stands, and while it stands inside *)
(* an interrupt-disabled stretch no interrupt comes as long as it is active.  *)
(***************************************************************************)
EXTENDS MqxKernel

CONSTANTS
    Protocols,                         \* the PROTOCOLS that mutexes are created with
    COUNT,                             \* attempts of a LIMITED_SPIN mutex
    Ceilings,                          \* priority ceilings that are set
    NewPriorities,                     \* priorities _task_set_priority is called with
    RepricesUsers,                     \* ... also while a task has or asks for a mutex
    MaxDelay,                          \* bound: the longest sleep, in ticks
    MaxBoosts                          \* bound: no spinning beyond that many boosts

Mutex == Queue                         \* a mutex is known by its WAITING_TASKS

SchedProtocols == {"PRIO_INHERIT", "PRIO_PROTECT"}
WaitProtocols == {"QUEUEING", "PRIORITY_QUEUEING", "SPIN_ONLY", "LIMITED_SPIN"}

\* What _mutatr_set_sched_protocol and _mutatr_set_wait_protocol accept: one wait
\* protocol, and one scheduling protocol or none.
ValidProtocols ==
    {{w} : w \in WaitProtocols} \cup {{s, w} : s \in SchedProtocols, w \in WaitProtocols}

ASSUME MutexAssumption ==
    /\ Protocols \subseteq ValidProtocols
    /\ COUNT \in Nat
    /\ Ceilings \cup NewPriorities \subseteq 0 .. LOWEST_TASK_PRIORITY
    /\ RepricesUsers \in BOOLEAN
    /\ {MaxDelay, MaxBoosts} \subseteq Nat
    /\ NULL \notin Task

VARIABLES
    k,            \* KERNEL_DATA and the task descriptors
    mutex,        \* the MUTEX_STRUCTs
    call,         \* per task: the mutex call it is in, and how far
    held          \* history: the mutexes a task was told it has locked

vars == <<k, mutex, call, held>>

MutexStruct ==
    [PROTOCOLS : SUBSET (SchedProtocols \cup WaitProtocols),
     VALID : BOOLEAN, LOCK : BOOLEAN, OWNER_TD : Task \cup {NULL}, BOOSTED : Nat,
     PRIORITY_CEILING : Priority]

\* priority: the local variable of _mutex_lock; n: its count, or the boosted of
\* _mutex_unlock; b: an increment of BOOSTED still to be made; w: the td_ptr of
\* _mutex_destroy, a waiter it has dequeued.
NoCall == [op |-> "none", at |-> "none", m |-> NULL, priority |-> 0, n |-> 0, b |-> 0,
           w |-> NULL]

Calls ==
    [op       : {"none", "lock", "unlock", "destroy"},
     at       : {"none", "lock", "enqueue", "blocked", "protect", "spin", "boosted", "yield",
                 "yielded", "own", "ceiling", "unboost", "destroy", "drain",
                 "drained"},
     m        : Mutex \cup {NULL},
     priority : Priority,
     n        : Nat,
     b        : {0, 1},
     w        : Task \cup {NULL}]

\* Where a task has interrupts disabled.
DisabledAt == {"boosted", "enqueue", "blocked", "ceiling", "unboost"}

Init ==
    /\ k = Boot
    /\ mutex = [m \in Mutex |-> [PROTOCOLS |-> {}, VALID |-> FALSE, LOCK |-> FALSE,
                                 OWNER_TD |-> NULL, BOOSTED |-> 0, PRIORITY_CEILING |-> 0]]
    /\ call = [t \in Task |-> NoCall]
    /\ held = [t \in Task |-> {}]

td == k.ACTIVE_PTR

\* The mutexes with that bit in PROTOCOLS.
With(protocol) == {m \in Mutex : protocol \in mutex[m].PROTOCOLS}
PRIO_INHERIT == With("PRIO_INHERIT")
PRIO_PROTECT == With("PRIO_PROTECT")
PRIORITY_QUEUEING == With("PRIORITY_QUEUEING")
SPIN_ONLY == With("SPIN_ONLY")
LIMITED_SPIN == With("LIMITED_SPIN")

Spins(m) == m \in SPIN_ONLY \cup LIMITED_SPIN

Free(t) == t # Idle /\ call[t] = NoCall

GoOn(at, m) == call[td].at = at /\ call[td].m = m

Goto(at) == call' = [call EXCEPT ![td].at = at]

\* _mutex_lock returns MQX_EOK: to the application, or to _mutex_destroy.
Locked(m) ==
    IF call[td].op = "destroy"
    THEN Goto("destroy") /\ UNCHANGED held
    ELSE /\ call' = [call EXCEPT ![td] = NoCall]
         /\ held' = [held EXCEPT ![td] = @ \cup {m}]

\* A call returns an error.
Fail == call' = [call EXCEPT ![td] = NoCall] /\ UNCHANGED held

(***************************************************************************)
(* _mutex_init, _mutex_set_priority_ceiling                                 *)
(***************************************************************************)
\* The first initialisation of m; a mutex on the component's list is an error.
mutex_init(m, protocols, pc) ==
    /\ Free(td)
    /\ ~mutex[m].VALID /\ mutex[m].OWNER_TD = NULL
    /\ mutex' = [mutex EXCEPT ![m] = [PROTOCOLS |-> protocols, VALID |-> TRUE, LOCK |-> FALSE,
                                      OWNER_TD |-> NULL, BOOSTED |-> 0,
                                      PRIORITY_CEILING |-> pc]]
    /\ k' = [k EXCEPT !.QUEUE[m] = <<>>]
    /\ UNCHANGED <<call, held>>

mutex_set_priority_ceiling(m, pc) ==
    /\ Free(td)
    /\ mutex[m].VALID
    /\ mutex' = [mutex EXCEPT ![m].PRIORITY_CEILING = pc]
    /\ UNCHANGED <<k, call, held>>

(***************************************************************************)
(* _mutex_lock                                                              *)
(***************************************************************************)
\* The checks and the task's own priority are read with interrupts enabled.
LockEnter(m, op) ==
    /\ mutex[m].VALID /\ mutex[m].OWNER_TD # td
    /\ call' = [call EXCEPT ![td] =
                   [op |-> op, m |-> m, priority |-> k.MY_QUEUE[td], b |-> 0, w |-> NULL,
                    at |-> IF Spins(m) THEN "spin" ELSE "lock",
                    n |-> IF m \in SPIN_ONLY THEN 1
                          ELSE IF m \in LIMITED_SPIN THEN COUNT ELSE 0]]
    /\ UNCHANGED <<k, mutex, held>>

mutex_lock(m) == Free(td) /\ LockEnter(m, "lock")

\* Does a waiter of priority p count as a boost of m's owner, and does it raise it?
CountsAsBoost(m, p) ==
    /\ m \in PRIO_INHERIT
    /\ mutex[m].OWNER_TD # NULL
    /\ k.HOME_QUEUE[mutex[m].OWNER_TD] > p
Raises_Reversed(m, p) ==                 \* fault: boosts only an owner above p
    CountsAsBoost(m, p) /\ k.MY_QUEUE[mutex[m].OWNER_TD] < p
Raises(m, p) == CountsAsBoost(m, p) /\ k.MY_QUEUE[mutex[m].OWNER_TD] > p

\* The mutex is locked: boost its owner if necessary, and note how to go on.
BoostOwner(m, at) ==
    LET p == call[td].priority
    IN  /\ k' = IF Raises(m, p)
                THEN sched_boost_priority_internal(k, mutex[m].OWNER_TD, p)
                ELSE k
        /\ call' = [call EXCEPT ![td].at = at,
                                ![td].b = IF CountsAsBoost(m, p) THEN 1 ELSE 0]

LockBusy_Unchecked(m) ==                 \* fault: LOCK is not looked at again
    /\ GoOn("lock", m)
    /\ BoostOwner(m, "enqueue")
    /\ UNCHANGED <<mutex, held>>

LockBusy(m) ==
    /\ GoOn("lock", m)
    /\ mutex[m].LOCK
    /\ BoostOwner(m, "enqueue")
    /\ UNCHANGED <<mutex, held>>

\* Then wait for the mutex in FIFO order or by priority.
Enqueue(m) ==
    /\ GoOn("enqueue", m)
    /\ mutex' = [mutex EXCEPT ![m].BOOSTED = @ + call[td].b]
    /\ LET k1 == UnlinkReady(k, td)
       IN  k' = Dispatch([k1 EXCEPT
                    !.INFO[td] = m,
                    !.QUEUE[m] = IF m \in PRIORITY_QUEUEING
                                 THEN sched_insert_priorityq_internal(k1, @, td)
                                 ELSE Append(@, td),
                    !.TD_STATE[td] = "MUTEX_BLOCKED"])
    /\ Goto("blocked")
    /\ UNCHANGED held

sched_get_max_priority_on_q_internal(q) ==
    IF q = <<>> THEN IDLE_PRIORITY + 1                \* MAX_MQX_UINT
    ELSE CHOOSE p \in {k.MY_QUEUE[t] : t \in Elems(q)} :
            \A t \in Elems(q) : p <= k.MY_QUEUE[t]

\* The active task, which owns m, at priority p at least; mx: the mutexes by now.
OwnerBoost(m, mx, p) ==
    /\ k' = IF p < k.HOME_QUEUE[td] /\ p < k.MY_QUEUE[td]
            THEN sched_boost_priority_internal(k, td, p)
            ELSE k
    /\ mutex' = [mx EXCEPT ![m].BOOSTED = IF p < k.HOME_QUEUE[td] THEN @ + 1 ELSE @]

\* The active task has got m.  With inheritance and FIFO order a higher priority may
\* be waiting behind.
GotMutex(m, mx) ==
    /\ IF m \in PRIO_INHERIT \ PRIORITY_QUEUEING
       THEN OwnerBoost(m, mx, sched_get_max_priority_on_q_internal(k.QUEUE[m]))
       ELSE mutex' = mx /\ UNCHANGED k
    /\ IF m \in PRIO_PROTECT THEN Goto("protect") /\ UNCHANGED held ELSE Locked(m)

\* The mutex is free.
LockFree(m) ==
    /\ GoOn("lock", m)
    /\ ~mutex[m].LOCK
    /\ GotMutex(m, [mutex EXCEPT ![m].LOCK = TRUE, ![m].OWNER_TD = td])

\* Back from the scheduler: the mutex has been destroyed, or handed over.
LockResume(m) ==
    /\ GoOn("blocked", m)
    /\ IF mutex[m].VALID THEN GotMutex(m, mutex) ELSE Fail /\ UNCHANGED <<k, mutex>>

Protect(m) ==
    /\ GoOn("protect", m)
    /\ OwnerBoost(m, mutex, mutex[m].PRIORITY_CEILING)
    /\ Locked(m)

\* Spinning.  OWNER_TD is set in a later step (SpinOwn); a task that spins on a
\* PRIO_INHERIT mutex meanwhile follows a null OWNER_TD: what it reads there is
\* arbitrary, and the model boosts no one.
SpinFails(m) ==
    /\ GoOn("spin", m) \/ GoOn("yielded", m)
    /\ \/ call[td].at = "yielded" /\ ~mutex[m].VALID       \* MQX_EINVAL
       \/ call[td].n = 0                                    \* MQX_EBUSY
    /\ Fail
    /\ UNCHANGED <<k, mutex>>

SpinTries_SetsLate(m) ==                 \* fault: LOCK is tested but not set
    /\ GoOn("spin", m) \/ GoOn("yielded", m)
    /\ call[td].at = "yielded" => mutex[m].VALID
    /\ call[td].n > 0
    /\ mutex[m].BOOSTED < MaxBoosts
    /\ IF mutex[m].LOCK
       THEN BoostOwner(m, "boosted") /\ UNCHANGED <<mutex, held>>
       ELSE Goto("own") /\ UNCHANGED <<k, mutex, held>>

SpinTries(m) ==
    /\ GoOn("spin", m) \/ GoOn("yielded", m)
    /\ call[td].at = "yielded" => mutex[m].VALID
    /\ call[td].n > 0
    /\ mutex[m].BOOSTED < MaxBoosts
    /\ IF mutex[m].LOCK
       THEN BoostOwner(m, "boosted") /\ UNCHANGED <<mutex, held>>
       ELSE /\ mutex' = [mutex EXCEPT ![m].LOCK = TRUE]
            /\ Goto("own")
            /\ UNCHANGED <<k, held>>

SpinBoosted(m) ==
    /\ GoOn("boosted", m)
    /\ mutex' = [mutex EXCEPT ![m].BOOSTED = @ + call[td].b]
    /\ call' = [call EXCEPT ![td].at = "yield", ![td].b = 0]
    /\ UNCHANGED <<k, held>>

SpinYields(m) ==
    /\ GoOn("yield", m)
    /\ call' = [call EXCEPT ![td].at = "yielded",
                            ![td].n = IF m \in SPIN_ONLY THEN @ ELSE @ - 1]
    /\ k' = SchedYield(k)
    /\ UNCHANGED <<mutex, held>>

SpinOwn(m) ==
    /\ GoOn("own", m)
    /\ mutex' = [mutex EXCEPT ![m].OWNER_TD = td]
    /\ IF m \in PRIO_PROTECT THEN Goto("protect") /\ UNCHANGED held ELSE Locked(m)
    /\ UNCHANGED k

(***************************************************************************)
(* _mutex_try_lock                                                          *)
(***************************************************************************)
mutex_try_lock(m) ==
    /\ Free(td)
    /\ mutex[m].VALID /\ ~mutex[m].LOCK                 \* else MQX_EBUSY, MQX_EDEADLK
    /\ mutex' = [mutex EXCEPT ![m].LOCK = TRUE, ![m].OWNER_TD = td]
    /\ IF m \in PRIO_PROTECT
       THEN /\ call' = [call EXCEPT ![td] =
                   [NoCall EXCEPT !.op = "lock", !.at = "protect", !.m = m]]
            /\ UNCHANGED held
       ELSE held' = [held EXCEPT ![td] = @ \cup {m}] /\ UNCHANGED call
    /\ UNCHANGED k

(***************************************************************************)
(* _mutex_unlock                                                            *)
(***************************************************************************)
\* Takes back n boosts when the unlocking task is active again.
ThenUnboost(n) ==
    call' = [call EXCEPT ![td] =
                IF n = 0 THEN NoCall
                ELSE [NoCall EXCEPT !.op = "unlock", !.at = "unboost", !.n = n]]

mutex_unlock(m) ==
    /\ Free(td)
    /\ mutex[m].VALID /\ mutex[m].LOCK /\ mutex[m].OWNER_TD = td
    /\ held' = [held EXCEPT ![td] = @ \ {m}]
    /\ LET n == mutex[m].BOOSTED
       IN  IF Spins(m) \/ k.QUEUE[m] = <<>>
           THEN /\ mutex' = [mutex EXCEPT ![m].BOOSTED = 0, ![m].LOCK = FALSE,
                                          ![m].OWNER_TD = NULL]
                /\ ThenUnboost(n)
                /\ UNCHANGED k
           ELSE LET w  == Head(k.QUEUE[m])
                    k1 == TASK_READY([k EXCEPT !.QUEUE[m] = Tail(@)], w)
                    ceiling == mutex[m].PRIORITY_CEILING
                IN  IF /\ m \in PRIO_PROTECT
                       /\ ceiling < k.HOME_QUEUE[w]
                    THEN /\ mutex' = [mutex EXCEPT ![m].BOOSTED = 0, ![m].OWNER_TD = w]
                         /\ k' = IF ceiling < k.MY_QUEUE[w]
                                 THEN sched_boost_priority_internal(k1, w, ceiling)
                                 ELSE k1
                         /\ call' = [call EXCEPT ![td] =
                                [NoCall EXCEPT !.op = "unlock", !.at = "ceiling",
                                               !.m = m, !.n = n]]
                    ELSE /\ mutex' = [mutex EXCEPT ![m].BOOSTED = 0, ![m].OWNER_TD = w]
                         /\ k' = CHECK_RUN_SCHEDULER(k1)
                         /\ ThenUnboost(n)

\* The new owner has the ceiling; its boost is counted only now.
UnlockCeiling(m) ==
    /\ GoOn("ceiling", m)
    /\ mutex' = [mutex EXCEPT ![m].BOOSTED = @ + 1]
    /\ k' = CHECK_RUN_SCHEDULER(k)
    /\ ThenUnboost(call[td].n)
    /\ UNCHANGED held


Unboost ==
    /\ call[td].at = "unboost"
    /\ k' = sched_unboost_priority_internal(k, td, call[td].n)
    /\ call' = [call EXCEPT ![td] = NoCall]
    /\ UNCHANGED <<mutex, held>>

(***************************************************************************)
(* _mutex_destroy: by the owner, or after locking the mutex.                *)
(***************************************************************************)
mutex_destroy(m) ==
    /\ Free(td)
    /\ mutex[m].VALID
    /\ IF mutex[m].OWNER_TD = td
       THEN /\ call' = [call EXCEPT ![td] =
                   [NoCall EXCEPT !.op = "destroy", !.at = "destroy", !.m = m]]
            /\ UNCHANGED <<k, mutex, held>>
       ELSE LockEnter(m, "destroy")

DestroyInvalidate(m) ==
    /\ GoOn("destroy", m)
    /\ mutex' = [mutex EXCEPT ![m].VALID = FALSE]
    /\ held' = [held EXCEPT ![td] = @ \ {m}]
    /\ Goto("drain")
    /\ UNCHANGED k

DestroyDrain_KeepsQueue(m) ==            \* fault: the TD stays on WAITING_TASKS
    /\ GoOn("drain", m)
    /\ k.QUEUE[m] # <<>>
    /\ call' = [call EXCEPT ![td].at = "drained", ![td].w = Head(k.QUEUE[m])]
    /\ UNCHANGED <<k, mutex, held>>

\* One waiter a time, with interrupts enabled in between and before it is readied, and
\* no scheduler call yet.
DestroyDrain(m) ==
    /\ GoOn("drain", m)
    /\ k.QUEUE[m] # <<>>
    /\ k' = [k EXCEPT !.QUEUE[m] = Tail(@)]
    /\ call' = [call EXCEPT ![td].at = "drained", ![td].w = Head(k.QUEUE[m])]
    /\ UNCHANGED <<mutex, held>>

DestroyReady(m) ==
    /\ GoOn("drained", m)
    /\ k' = TASK_READY(k, call[td].w)
    /\ call' = [call EXCEPT ![td].at = "drain", ![td].w = NULL]
    /\ UNCHANGED <<mutex, held>>

DestroyEnd(m) ==
    /\ GoOn("drain", m)
    /\ k.QUEUE[m] = <<>>
    /\ LET n == mutex[m].BOOSTED
       IN  k' = CHECK_RUN_SCHEDULER(
                    IF n > 0 THEN sched_unboost_priority_internal(k, td, n) ELSE k)
    /\ call' = [call EXCEPT ![td] = NoCall]
    /\ UNCHANGED <<mutex, held>>

(***************************************************************************)
(* What else tasks do, and the timer interrupt.                             *)
(***************************************************************************)
time_delay_ticks(n) ==
    /\ Free(td)
    /\ k' = time_delay_internal(k, td, n)
    /\ UNCHANGED <<mutex, call, held>>

task_set_priority(t, p) ==
    /\ Free(td)
    /\ t # Idle
    /\ RepricesUsers \/ \A u \in Task : call[u] = NoCall /\ held[u] = {}
    /\ k' = TaskSetPriority(k, t, p)
    /\ UNCHANGED <<mutex, call, held>>

Tick ==
    /\ call[td].at \notin DisabledAt
    /\ k' = IsrReturn(time_notify_kernel(k))
    /\ UNCHANGED <<mutex, call, held>>

Next ==
    \/ \E m \in Mutex :
        \/ \E protocols \in Protocols, pc \in Ceilings : mutex_init(m, protocols, pc)
        \/ \E pc \in Ceilings : mutex_set_priority_ceiling(m, pc)
        \/ mutex_lock(m)
        \/ LockFree(m)
        \/ LockBusy(m)
        \/ Enqueue(m)
        \/ LockResume(m)
        \/ Protect(m)
        \/ SpinFails(m)
        \/ SpinTries(m)
        \/ SpinBoosted(m)
        \/ SpinYields(m)
        \/ SpinOwn(m)
        \/ mutex_try_lock(m)
        \/ mutex_unlock(m)
        \/ UnlockCeiling(m)
        \/ mutex_destroy(m)
        \/ DestroyInvalidate(m)
        \/ DestroyDrain(m)
        \/ DestroyReady(m)
        \/ DestroyEnd(m)
    \/ Unboost
    \/ \E n \in 1 .. MaxDelay : time_delay_ticks(n)
    \/ \E t \in Task, p \in NewPriorities : task_set_priority(t, p)
    \/ Tick

Spec == Init /\ [][Next]_vars

(***************************************************************************)
(* Properties.                                                              *)
(***************************************************************************)
\* The kernel data, the mutexes and the calls under way have their types.
TypeOK ==
    /\ k \in Kernel
    /\ mutex \in [Mutex -> MutexStruct]
    /\ call \in [Task -> Calls]
    /\ held \in [Task -> SUBSET Mutex]

\* The scheduler's own invariants survive every mutex call and interrupt.  (Only
\* between readying a waiter and calling the scheduler, in _mutex_destroy and with a
\* ceiling in _mutex_unlock, a task runs although a higher priority may be ready.)
SchedulerConsistent ==
    /\ ReadyQueuesOK(k) /\ HintOK(k) /\ TimeoutQueueOK(k)
    /\ call[td].at \notin {"drain", "drained", "ceiling"} => RunningOK(k)

\* A task is on a mutex's queue exactly while its STATE and INFO say so, from the lock
\* that enqueues it to the unlock or the destroy that takes it off.
WaitersExact == WaitQueuesOK(k, {call[t].w : t \in Task})

\* Whatever mutex calls and interrupts meet, the ready queues, the timeout queue, the
\* wait queues and the running task fit together.
KernelConsistent == TypeOK /\ SchedulerConsistent /\ WaitersExact

\* Mutual exclusion, as the tasks see it: who was told that it has locked a mutex,
\* and has not unlocked it, is its owner; so no two tasks can be.
MutualExclusion ==
    \A t \in Task : \A m \in held[t] :
        mutex[m].VALID => mutex[m].LOCK /\ mutex[m].OWNER_TD = t

\* Nobody waits for a mutex that nobody has locked.
NoWaiterOnFree ==
    \A m \in Mutex : mutex[m].VALID /\ k.QUEUE[m] # <<>> => mutex[m].LOCK

\* Boosts do not outlive their cause: a task that owns no mutex and is in no mutex
\* call has its own priority.
NoBoostLeak ==
    \A t \in Task :
        call[t] = NoCall /\ (\A m \in Mutex : mutex[m].OWNER_TD # t) =>
            k.BOOSTED[t] = 0 /\ k.MY_QUEUE[t] = k.HOME_QUEUE[t]

\* "INHERITANCE means the task owning the MUTEX runs at the priority of the task with
\* the highest priority waiting for the mutex", or at a higher one of its own.  (With
\* FIFO queueing a new owner inherits from the tasks behind it only once it runs.)
OwnerInherits ==
    \A m \in PRIO_INHERIT \cap PRIORITY_QUEUEING :
        mutex[m].VALID /\ mutex[m].OWNER_TD # NULL =>
            \A t \in Elems(k.QUEUE[m]) :
                k.MY_QUEUE[mutex[m].OWNER_TD] <= k.MY_QUEUE[t]
=============================================================================
