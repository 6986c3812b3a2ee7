------------------------------- MODULE MqxLwsem -------------------------------
(***************************************************************************)
(* Lightweight semaphores (lwsem.c) on the scheduling core.                  *)
(*                                                                           *)
(* A call is one action where the code runs with interrupts disabled all     *)
(* along.  wait, post and poll read VALID before they disable interrupts,    *)
(* and create writes the structure before it does: there the call is two     *)
(* actions, and anything may happen between them.  A wait that blocks goes   *)
(* on in a third action once the task is active again.  A call that finds    *)
(* VALID wrong at entry returns MQX_INVALID_LWSEM, changes nothing, and is   *)
(* not an action.                                                            *)
(***************************************************************************)
EXTENDS MqxKernel

CONSTANTS
    InitialNumbers,   \* the initial numbers semaphores are created with
    MaxValue,         \* bound: no post while VALUE is this high
    MaxDelay,         \* bound: the longest timeout, in ticks
    MaxCreates        \* bound: calls of _lwsem_create per semaphore

ASSUME LwsemAssumption ==
    /\ InitialNumbers \subseteq Int
    /\ MaxValue \in Int
    /\ MaxDelay \in Nat
    /\ MaxCreates \in Nat

VARIABLES
    k,                \* KERNEL_DATA and the task descriptors
    VALID,            \* per LWSEM_STRUCT: VALID = LWSEM_VALID
    VALUE,            \* per LWSEM_STRUCT: VALUE
    LWSEM,            \* KERNEL_DATA.LWSEM, the list of semaphores not hidden
    call,             \* per task: the lwsem call it is in, and how far
    credit,           \* history: initial number + posts - waits that returned MQX_OK
    created           \* history: calls of _lwsem_create so far

vars == <<k, VALID, VALUE, LWSEM, call, credit, created>>

Sem == Queue          \* a semaphore is known by its TD_QUEUE

NoCall == [at |-> "none", sem |-> NULL, timed |-> FALSE, ticks |-> 0]

Calls ==
    [at    : {"none", "wait", "blocked", "post", "poll", "create", "create_hidden"},
     sem   : Sem \cup {NULL},
     timed : BOOLEAN,
     ticks : Int]

Init ==
    /\ k = Boot
    /\ VALID = [s \in Sem |-> FALSE]
    /\ VALUE = [s \in Sem |-> 0]
    /\ LWSEM = {}
    /\ call = [t \in Task |-> NoCall]
    /\ credit = [s \in Sem |-> 0]
    /\ created = [s \in Sem |-> 0]

\* The active task enters a call, or goes on with it.
Enter(at, s, timed, n) ==
    /\ k.ACTIVE_PTR # Idle
    /\ call[k.ACTIVE_PTR] = NoCall
    /\ call' = [call EXCEPT ![k.ACTIVE_PTR] =
                    [at |-> at, sem |-> s, timed |-> timed, ticks |-> n]]

\* A task that blocked in a wait is switched in again with interrupts still disabled
\* (the dispatcher restores its BASEPRI) and enables them when it has its result.
Interruptible == call[k.ACTIVE_PTR].at # "blocked"

GoOn(at, s) == call[k.ACTIVE_PTR].at = at /\ call[k.ACTIVE_PTR].sem = s

Leave == call' = [call EXCEPT ![k.ACTIVE_PTR] = NoCall]

(***************************************************************************)
(* _lwsem_create, _lwsem_create_hidden, of a structure that is no semaphore *)
(* (any more) and that no call is using                                     *)
(***************************************************************************)
NotInUse(s) == ~VALID[s] /\ \A t \in Task : call[t].sem # s

CreateInit(s, v, at) ==
    /\ NotInUse(s) /\ created[s] < MaxCreates
    /\ Enter(at, s, FALSE, 0)
    /\ VALUE' = [VALUE EXCEPT ![s] = v]
    /\ k' = [k EXCEPT !.QUEUE[s] = <<>>]
    /\ credit' = [credit EXCEPT ![s] = v]
    /\ created' = [created EXCEPT ![s] = @ + 1]
    /\ UNCHANGED <<VALID, LWSEM>>

lwsem_create(s) ==
    /\ GoOn("create", s)
    /\ IF s \in LWSEM                                    \* MQX_EINVAL
       THEN UNCHANGED <<VALID, LWSEM>>
       ELSE LWSEM' = LWSEM \cup {s} /\ VALID' = [VALID EXCEPT ![s] = TRUE]
    /\ Leave
    /\ UNCHANGED <<k, VALUE, credit, created>>

lwsem_create_hidden(s) ==
    /\ GoOn("create_hidden", s)
    /\ VALID' = [VALID EXCEPT ![s] = TRUE]
    /\ Leave
    /\ UNCHANGED <<k, VALUE, LWSEM, credit, created>>

lwsem_destroy(s) ==
    /\ k.ACTIVE_PTR # Idle /\ call[k.ACTIVE_PTR] = NoCall
    /\ VALID[s]
    /\ VALID' = [VALID EXCEPT ![s] = FALSE]
    /\ LWSEM' = LWSEM \ {s}
    /\ k' = CHECK_RUN_SCHEDULER(ReleaseAll(k, s))
    /\ UNCHANGED <<VALUE, call, credit, created>>

(***************************************************************************)
(* _lwsem_wait, _lwsem_wait_for, _lwsem_wait_ticks, _lwsem_wait_until        *)
(***************************************************************************)
\* timed = FALSE: _lwsem_wait and _lwsem_wait_ticks(0).  n is the timeout in
\* ticks from now, 0 a time that has come already (wait_for and wait_until).
WaitEnter(s, timed, n) ==
    /\ VALID[s]
    /\ Enter("wait", s, timed, n)
    /\ UNCHANGED <<k, VALID, VALUE, LWSEM, credit, created>>

\* Blocks the active task on s: _lwsem_wait_timed_internal, or its untimed twin.
WaitBlock(s, timed, n) ==
    LET t  == k.ACTIVE_PTR
        k1 == [k EXCEPT !.TD_STATE[t] = "LWSEM_BLOCKED",
                        !.INFO[t] = s,
                        !.QUEUE[s] = Append(@, t)]
    IN  IF timed THEN time_delay_internal(k1, t, n) ELSE Dispatch(UnlinkReady(k1, t))

\* The result of a wait: MQX_OK takes one from the semaphore.
WaitResult(s, ok) ==
    /\ credit' = [credit EXCEPT ![s] = IF ok THEN @ - 1 ELSE @]
    /\ Leave

lwsem_wait_OffByOne(s) ==                \* fault: the last token is not given out
    /\ GoOn("wait", s)
    /\ IF VALUE[s] <= 1
       THEN /\ k' = WaitBlock(s, call[k.ACTIVE_PTR].timed, call[k.ACTIVE_PTR].ticks)
            /\ call' = [call EXCEPT ![k.ACTIVE_PTR].at = "blocked"]
            /\ UNCHANGED <<VALUE, credit>>
       ELSE /\ VALUE' = [VALUE EXCEPT ![s] = @ - 1]
            /\ WaitResult(s, VALID[s])
            /\ UNCHANGED k
    /\ UNCHANGED <<VALID, LWSEM, created>>

lwsem_wait(s) ==
    /\ GoOn("wait", s)
    /\ IF VALUE[s] <= 0
       THEN /\ k' = WaitBlock(s, call[k.ACTIVE_PTR].timed, call[k.ACTIVE_PTR].ticks)
            /\ call' = [call EXCEPT ![k.ACTIVE_PTR].at = "blocked"]
            /\ UNCHANGED <<VALUE, credit>>
       ELSE /\ VALUE' = [VALUE EXCEPT ![s] = @ - 1]
            /\ WaitResult(s, VALID[s])
            /\ UNCHANGED k
    /\ UNCHANGED <<VALID, LWSEM, created>>

WaitReturn_IgnoresTimeout(s) ==          \* fault: INFO is not looked at
    /\ GoOn("blocked", s)
    /\ WaitResult(s, VALID[s])
    /\ UNCHANGED <<k, VALID, VALUE, LWSEM, created>>

\* Back from the scheduler: MQX_INVALID_LWSEM, MQX_LWSEM_WAIT_TIMEOUT or MQX_OK.
WaitReturn(s) ==
    /\ GoOn("blocked", s)
    /\ LET t == k.ACTIVE_PTR
       IN  WaitResult(s, VALID[s] /\ (call[t].timed => k.INFO[t] = NULL))
    /\ UNCHANGED <<k, VALID, VALUE, LWSEM, created>>

(***************************************************************************)
(* _lwsem_poll, _lwsem_post                                                 *)
(***************************************************************************)
PollEnter(s) ==
    /\ VALID[s]
    /\ Enter("poll", s, FALSE, 0)
    /\ UNCHANGED <<k, VALID, VALUE, LWSEM, credit, created>>

lwsem_poll(s) ==
    /\ GoOn("poll", s)
    /\ VALUE' = [VALUE EXCEPT ![s] = IF @ <= 0 THEN @ ELSE @ - 1]
    /\ WaitResult(s, VALUE[s] > 0)
    /\ UNCHANGED <<k, VALID, LWSEM, created>>

\* The first waiter gets what is posted, past VALUE.
HandOver(s) ==
    LET t  == Head(k.QUEUE[s])
        k1 == TIME_DEQUEUE([k EXCEPT !.QUEUE[s] = Tail(@)], t)
    IN  TASK_READY([k1 EXCEPT !.INFO[t] = NULL], t)

Post(s, in_isr) ==
    /\ IF VALUE[s] >= 0 /\ k.QUEUE[s] # <<>>
       THEN /\ k' = IF in_isr THEN IsrReturn(HandOver(s))
                              ELSE CHECK_RUN_SCHEDULER(HandOver(s))
            /\ UNCHANGED VALUE
       ELSE VALUE' = [VALUE EXCEPT ![s] = @ + 1] /\ UNCHANGED k
    /\ credit' = [credit EXCEPT ![s] = @ + 1]
    /\ UNCHANGED <<VALID, LWSEM, created>>

PostEnter(s) ==
    /\ VALID[s] /\ VALUE[s] < MaxValue
    /\ Enter("post", s, FALSE, 0)
    /\ UNCHANGED <<k, VALID, VALUE, LWSEM, credit, created>>

lwsem_post(s) == GoOn("post", s) /\ Post(s, FALSE) /\ Leave

\* Between semaphore calls a task may sleep, which lets lower priorities run.
time_delay_ticks(n) ==
    /\ k.ACTIVE_PTR # Idle /\ call[k.ACTIVE_PTR] = NoCall
    /\ k' = time_delay_internal(k, k.ACTIVE_PTR, n)
    /\ UNCHANGED <<VALID, VALUE, LWSEM, call, credit, created>>

(***************************************************************************)
(* Interrupts: a handler that posts, and the timer's.                       *)
(***************************************************************************)
IsrPost(s) ==
    /\ Interruptible
    /\ VALID[s] /\ VALUE[s] < MaxValue
    /\ Post(s, TRUE)
    /\ UNCHANGED call

Tick ==
    /\ Interruptible
    /\ k' = IsrReturn(time_notify_kernel(k))
    /\ UNCHANGED <<VALID, VALUE, LWSEM, call, credit, created>>

Next ==
    \/ \E s \in Sem :
        \/ \E v \in InitialNumbers : CreateInit(s, v, "create")
        \/ \E v \in InitialNumbers : CreateInit(s, v, "create_hidden")
        \/ lwsem_create(s)
        \/ lwsem_create_hidden(s)
        \/ lwsem_destroy(s)
        \/ WaitEnter(s, FALSE, 0)
        \/ \E n \in 0 .. MaxDelay : WaitEnter(s, TRUE, n)
        \/ lwsem_wait(s)
        \/ WaitReturn(s)
        \/ PollEnter(s)
        \/ lwsem_poll(s)
        \/ PostEnter(s)
        \/ lwsem_post(s)
        \/ IsrPost(s)
    \/ \E n \in 1 .. MaxDelay : time_delay_ticks(n)
    \/ Tick

Spec == Init /\ [][Next]_vars

\* WF_vars(Tick) and weak fairness of WaitReturn, with their ENABLED written out: the
\* hardware timer keeps running, and so does a task inside the kernel.
TimerKeepsTicking ==
    \/ []<>(~Interruptible \/ k = IsrReturn(time_notify_kernel(k)))
    \/ []<><<Tick>>_vars

WaitsReturn == []<>Interruptible

FairSpec == Spec /\ TimerKeepsTicking /\ WaitsReturn

(***************************************************************************)
(* Properties.                                                              *)
(***************************************************************************)
\* The kernel data, the semaphores and the calls under way have their types.
TypeOK ==
    /\ k \in Kernel
    /\ VALID \in [Sem -> BOOLEAN]
    /\ VALUE \in [Sem -> Int]
    /\ LWSEM \in SUBSET Sem
    /\ call \in [Task -> Calls]
    /\ credit \in [Sem -> Int]
    /\ created \in [Sem -> Nat]

\* The scheduler's own invariants survive every semaphore call and interrupt.
SchedulerConsistent == SchedulerOK(k)

\* A task is on a semaphore's queue exactly while its STATE and INFO say so: a post,
\* a timeout and a destroy that compete for one waiter leave it on no queue by halves.
WaitersExact == WaitQueuesOK(k, {})

\* Whatever semaphore calls, timeouts and interrupts meet, the ready queues, the timeout
\* queue, the wait queues and the running task fit together.
KernelConsistent == TypeOK /\ SchedulerConsistent /\ WaitersExact

\* Tasks to which a post has handed the semaphore and that have not returned yet.
Granted(s) ==
    {t \in Task : /\ call[t].at = "blocked" /\ call[t].sem = s
                  /\ t \notin Elems(k.QUEUE[s]) /\ k.INFO[t] = NULL}

\* No token is lost or made up: what was put in and not taken out by a wait or a poll
\* that returned MQX_OK is in VALUE or in the hands of a task about to return.  A
\* timeout that comes after the post, or a post after the timeout, must not count twice.
TokensConserved ==
    \A s \in Sem : VALID[s] => credit[s] = VALUE[s] + Cardinality(Granted(s))

\* No task waits for a semaphore that is available.
NoLostWakeup == \A s \in Sem : VALUE[s] > 0 => k.QUEUE[s] = <<>>

\* A wait with a timeout ends, even if nobody posts or the semaphore is destroyed
\* under it.
TimedWaitEnds ==
    \A t \in Task : (\E s \in Sem : t \in Elems(k.QUEUE[s])) /\ t \in k.ON_TIMEOUT_Q
                       ~> IsReady(k, t)
=============================================================================
