-------------------------------- MODULE MqxSem --------------------------------
(***************************************************************************)
(* Semaphores of the semaphore component (sem.c) on the scheduling core:     *)
(* found by name, used through connections, strict or not, with priority     *)
(* queueing and priority inheritance, destroyed at once or, while they are   *)
(* owned or waited for, later by the post that returns the last token.       *)
(*                                                                           *)
(* There is one name.  Every _sem_create takes a block of memory that was    *)
(* not used before, and a freed block keeps its contents: a task whose        *)
(* connection outlives the semaphore reads VALID there.  A task has one        *)
(* connection at a time, so a connection on a queue is named by its task.    *)
(* A call that finds an argument wrong changes nothing and is not an action. *)
(***************************************************************************)
EXTENDS MqxKernel

CONSTANTS
    Semaphore,        \* blocks of memory for SEM_STRUCTs
    Policies,         \* the flags that _sem_create is called with
    InitialCounts,    \* and the initial counts
    MaxCount,         \* bound: a semaphore that is not strict counts that far
    MaxBoosts,        \* bound: no inheriting wait once a connection has that many boosts
    MaxDelay          \* bound: the longest timeout or delay, in ticks

\* The flags: SEM_PRIORITY_INHERITANCE takes a strict semaphore.
ValidPolicies ==
    {p \in SUBSET {"STRICT", "PRIORITY_QUEUEING", "PRIORITY_INHERITANCE"} :
        "PRIORITY_INHERITANCE" \in p => "STRICT" \in p}

ASSUME SemAssumption ==
    /\ Policies \subseteq ValidPolicies
    /\ InitialCounts \subseteq Nat
    /\ {MaxCount, MaxBoosts, MaxDelay} \subseteq Nat
    /\ NULL \notin Semaphore

VARIABLES
    k,                \* KERNEL_DATA and the task descriptors
    sem,              \* the SEM_STRUCTs
    NAME,             \* the semaphore in the component's name table, or NULL
    conn,             \* the SEM_CONNECTION_STRUCT of every task
    call,             \* per task: the call it is in, and how far
    owed              \* history: initial count plus posts minus waits that succeeded

vars == <<k, sem, NAME, conn, call, owed>>

SemStruct ==
    [block : {"unused", "allocated", "freed"}, VALID : BOOLEAN,
     POLICY : ValidPolicies, DELAYED_DESTROY : BOOLEAN, COUNT : Nat, MAX_COUNT : Nat,
     WAITING_TASKS : Seq(Task), OWNING_TASKS : Seq(Task)]

Connection ==
    [VALID : BOOLEAN, SEM_PTR : Semaphore \cup {NULL}, BOOSTED : Nat, POST_STATE : Nat]

NoConnection == [VALID |-> FALSE, SEM_PTR |-> NULL, BOOSTED |-> 0, POST_STATE |-> 0]

\* s: the sem_ptr of the call; destroying: it frees the semaphore at its end; close:
\* _sem_post is called by _sem_close.
NoCall == [at |-> "none", s |-> NULL, destroying |-> FALSE, close |-> FALSE]

Calls ==
    [at : {"none", "create", "open", "destroy", "wait", "unboosted", "scheduler", "free"},
     s : Semaphore \cup {NULL}, destroying : BOOLEAN, close : BOOLEAN]

Init ==
    /\ k = Boot
    /\ sem = [s \in Semaphore |->
                 [block |-> "unused", VALID |-> FALSE, POLICY |-> {},
                  DELAYED_DESTROY |-> FALSE, COUNT |-> 0, MAX_COUNT |-> 0,
                  WAITING_TASKS |-> <<>>, OWNING_TASKS |-> <<>>]]
    /\ NAME = NULL
    /\ conn = [t \in Task |-> NoConnection]
    /\ call = [t \in Task |-> NoCall]
    /\ owed = [s \in Semaphore |-> 0]

td == k.ACTIVE_PTR

\* The active task is in the application, or between two posts of _sem_close.
At(at) == td # Idle /\ call[td].at = at
Free == At("none") /\ ~call[td].close

Goto(at, s, destroying) ==
    call' = [call EXCEPT ![td].at = at, ![td].s = s, ![td].destroying = destroying]

\* Back to the application, or to the loop of _sem_close.
Return == Goto("none", NULL, FALSE)

\* Where the active task has interrupts disabled.
Interruptible == call[td].at \notin {"wait", "unboosted"}

Strict(s) == "STRICT" \in sem[s].POLICY

(***************************************************************************)
(* _sem_create, _sem_create_fast: the name is visible before VALID is set.   *)
(***************************************************************************)
CreateNamed(s, flags, initial_count) ==
    /\ Free
    /\ NAME = NULL                                   \* else SEM_SEMAPHORE_EXISTS
    /\ sem[s].block = "unused"
    /\ "STRICT" \in flags => initial_count > 0
    /\ sem' = [sem EXCEPT ![s] =
                  [@ EXCEPT !.block = "allocated", !.POLICY = flags,
                            !.COUNT = initial_count,
                            !.MAX_COUNT = IF "STRICT" \in flags THEN initial_count
                                          ELSE MaxCount]]
    /\ NAME' = s
    /\ owed' = [owed EXCEPT ![s] = initial_count]
    /\ Goto("create", s, FALSE)
    /\ UNCHANGED <<k, conn>>

sem_create ==
    /\ At("create")
    /\ sem' = [sem EXCEPT ![call[td].s].VALID = TRUE]
    /\ Return
    /\ UNCHANGED <<k, NAME, conn, owed>>

(***************************************************************************)
(* _sem_open, _sem_open_fast: the semaphore is looked up and checked with    *)
(* interrupts enabled, and the connection made afterwards.                   *)
(***************************************************************************)
OpenFind ==
    /\ Free /\ ~conn[td].VALID
    /\ NAME # NULL                                   \* else SEM_SEMAPHORE_NOT_FOUND
    /\ sem[NAME].VALID /\ ~sem[NAME].DELAYED_DESTROY \* else ..._INVALID_..., ..._DELETED
    /\ Goto("open", NAME, FALSE)
    /\ UNCHANGED <<k, sem, NAME, conn, owed>>

sem_open ==
    /\ At("open")
    /\ conn' = [conn EXCEPT ![td] =
                   [NoConnection EXCEPT !.VALID = TRUE, !.SEM_PTR = call[td].s]]
    /\ Return
    /\ UNCHANGED <<k, sem, NAME, owed>>

(***************************************************************************)
(* _sem_wait, _sem_wait_for, _sem_wait_ticks, _sem_wait_until                *)
(***************************************************************************)
\* The task's wait succeeds; x: the semaphores by now.
Granted(s, x) ==
    /\ sem' = IF Strict(s) /\ conn[td].POST_STATE = 0
              THEN [x EXCEPT ![s].OWNING_TASKS = Append(@, td)] ELSE x
    /\ conn' = IF Strict(s) THEN [conn EXCEPT ![td].POST_STATE = @ + 1] ELSE conn
    /\ owed' = [owed EXCEPT ![s] = @ - 1]

sem_wait ==
    /\ Free /\ conn[td].VALID
    /\ LET s == conn[td].SEM_PTR
       IN  /\ sem[s].VALID                           \* else SEM_INVALID_SEMAPHORE
           /\ sem[s].COUNT > 0
           /\ Granted(s, [sem EXCEPT ![s].COUNT = @ - 1])
    /\ UNCHANGED <<k, NAME, call>>

\* The most urgent priority among the owners (LOWEST_TASK_PRIORITY if they are all
\* there or below), and the first owner that has it.
OwnersPriority(s) ==
    LET P == {k.MY_QUEUE[t] : t \in Elems(sem[s].OWNING_TASKS)} \cup {LOWEST_TASK_PRIORITY}
    IN  CHOOSE p \in P : \A q \in P : p <= q

UrgentOwner(s) ==
    LET q == sem[s].OWNING_TASKS
        I == {i \in 1 .. Len(q) : k.MY_QUEUE[q[i]] = OwnersPriority(s)}
    IN  IF OwnersPriority(s) = LOWEST_TASK_PRIORITY THEN Head(q)
        ELSE q[CHOOSE i \in I : \A j \in I : i <= j]

\* With SEM_PRIORITY_INHERITANCE that owner is raised to the caller's priority.  The
\* caller keeps the processor: it is active, and the owner gets no more than that.
Inherits(s) ==
    /\ "PRIORITY_INHERITANCE" \in sem[s].POLICY
    /\ sem[s].OWNING_TASKS # <<>>
    /\ OwnersPriority(s) > k.HOME_QUEUE[td]

BoostOwner(s) ==
    IF Inherits(s) /\ OwnersPriority(s) > k.MY_QUEUE[td]
    THEN sched_boost_priority_internal(k, UrgentOwner(s), k.MY_QUEUE[td])
    ELSE k

WaitInsert(s) ==
    IF "PRIORITY_QUEUEING" \in sem[s].POLICY
    THEN InsertBefore(sem[s].WAITING_TASKS, td,
                      {t \in Task : k.MY_QUEUE[t] > k.MY_QUEUE[td]})
    ELSE Append(sem[s].WAITING_TASKS, td)

\* No token: wait for n ticks, or with n = 0 for as long as it takes.  One pair of links
\* serves both queues of a semaphore, so the model has no task block that owns a token
\* of it already (with all of them, the call returns MQX_EDEADLK).
WaitBlock(n) ==
    /\ Free /\ conn[td].VALID
    /\ LET s  == conn[td].SEM_PTR
           k1 == [BoostOwner(s) EXCEPT !.TD_STATE[td] = "SEM_BLOCKED",
                                       !.INFO[td] = "SEM_WANT_SEMAPHORE"]
       IN  /\ sem[s].VALID
           /\ sem[s].COUNT = 0
           /\ conn[td].POST_STATE = 0
           /\ Inherits(s) => conn[UrgentOwner(s)].BOOSTED < MaxBoosts
           /\ conn' = IF Inherits(s)
                      THEN [conn EXCEPT ![UrgentOwner(s)].BOOSTED = @ + 1] ELSE conn
           /\ sem' = [sem EXCEPT ![s].WAITING_TASKS = WaitInsert(s)]
           /\ k' = IF n = 0 THEN TaskBlock(k1) ELSE time_delay_internal(k1, td, n)
           /\ Goto("wait", s, FALSE)
    /\ UNCHANGED <<NAME, owed>>

\* The task is active again: the semaphore has gone (SEM_SEMAPHORE_DELETED), a post has
\* given it a token, or the timeout or a forced destroy has woken it.
WaitReturn ==
    /\ At("wait")
    /\ LET s == call[td].s
           x == [sem EXCEPT ![s].WAITING_TASKS = Unlink(@, td)]
       IN  IF ~sem[s].VALID
           THEN UNCHANGED <<k, sem, conn, owed>>
           ELSE IF k.INFO[td] = "SEM_AVAILABLE"
           THEN Granted(s, x) /\ UNCHANGED k
           ELSE /\ sem' = x
                /\ k' = [k EXCEPT !.INFO[td] = NULL]
                /\ UNCHANGED <<conn, owed>>
    /\ Return
    /\ UNCHANGED NAME

(***************************************************************************)
(* _sem_post, _sem_close                                                    *)
(***************************************************************************)
Blocked_HeadOnly(s) ==                   \* fault: looks at the first waiter only
    LET q == sem[s].WAITING_TASKS
    IN  IF q # <<>> /\ k.TD_STATE[q[1]] = "SEM_BLOCKED" THEN <<q[1]>> ELSE <<>>

\* The waiters that no post, timeout or destroy has woken yet.
Blocked(s) ==
    Keep(sem[s].WAITING_TASKS, {t \in Task : k.TD_STATE[t] = "SEM_BLOCKED"})

\* The first of them is woken with the token; its connection stays on the queue.
PostReady(s) ==
    IF Blocked(s) = <<>> THEN k
    ELSE LET w == Head(Blocked(s))
         IN  [TASK_READY(TIME_DEQUEUE(k, w), w) EXCEPT !.INFO[w] = "SEM_AVAILABLE"]

Destroys_IgnoresOwners(s) ==             \* fault: other owners are not waited for
    Blocked(s) = <<>> /\ sem[s].DELAYED_DESTROY

\* Is this the post that a delayed destroy has been waiting for?
Destroys(s) ==
    /\ Blocked(s) = <<>>
    /\ sem[s].DELAYED_DESTROY
    /\ Strict(s) => sem[s].COUNT + 1 = sem[s].MAX_COUNT

PostCount_Always(s) ==                   \* fault: counts although it wakes a waiter
    [sem EXCEPT ![s].COUNT = @ + 1, ![s].VALID = ~Destroys(s)]

PostCount(s) ==
    IF Blocked(s) = <<>>
    THEN [sem EXCEPT ![s].COUNT = @ + 1, ![s].VALID = ~Destroys(s)]
    ELSE sem

Postable(s) ==
    /\ sem[s].VALID                                  \* else SEM_INVALID_SEMAPHORE
    /\ IF Strict(s) THEN sem[s].COUNT <= sem[s].MAX_COUNT
       ELSE sem[s].COUNT < MaxCount

\* Until interrupts are enabled, or until the boosts are given back: that calls the
\* scheduler.
Post ==
    LET s     == conn[td].SEM_PTR
        n     == conn[td].POST_STATE
        boost == conn[td].BOOSTED
    IN  /\ Postable(s)
        /\ sem' = IF Strict(s) /\ n = 1
                  THEN [PostCount(s) EXCEPT ![s].OWNING_TASKS = Unlink(@, td)]
                  ELSE PostCount(s)
        /\ conn' = IF Strict(s) THEN [conn EXCEPT ![td].POST_STATE = n - 1] ELSE conn
        /\ owed' = [owed EXCEPT ![s] = @ + 1]
        /\ IF boost > 0 /\ conn'[td].POST_STATE = 0
           THEN /\ k' = sched_unboost_priority_internal(PostReady(s), td, boost)
                /\ Goto("unboosted", s, Destroys(s))
           ELSE /\ k' = PostReady(s)
                /\ Goto("scheduler", s, Destroys(s))
        /\ UNCHANGED NAME

sem_post ==
    /\ Free /\ conn[td].VALID
    /\ Strict(conn[td].SEM_PTR) => conn[td].POST_STATE > 0     \* else SEM_CANNOT_POST
    /\ Post

PostUnboosted_KeepsBoosts ==             \* fault: the connection's BOOSTED is not reset
    /\ At("unboosted")
    /\ Goto("scheduler", call[td].s, call[td].destroying)
    /\ UNCHANGED <<k, sem, NAME, conn, owed>>

PostUnboosted ==
    /\ At("unboosted")
    /\ conn' = [conn EXCEPT ![td].BOOSTED = 0]
    /\ Goto("scheduler", call[td].s, call[td].destroying)
    /\ UNCHANGED <<k, sem, NAME, owed>>

\* The end of _sem_post and of _sem_destroy, with interrupts enabled.
CheckRunScheduler_Skipped ==             \* fault: the scheduler is not called
    /\ At("scheduler")
    /\ IF call[td].destroying THEN Goto("free", call[td].s, TRUE) ELSE Return
    /\ UNCHANGED <<k, sem, NAME, conn, owed>>

CheckRunScheduler ==
    /\ At("scheduler")
    /\ k' = CHECK_RUN_SCHEDULER(k)
    /\ IF call[td].destroying THEN Goto("free", call[td].s, TRUE) ELSE Return
    /\ UNCHANGED <<sem, NAME, conn, owed>>

\* _name_delete_internal and _mem_free
FreeSem ==
    /\ At("free")
    /\ sem' = [sem EXCEPT ![call[td].s].block = "freed"]
    /\ NAME' = NULL
    /\ Return
    /\ UNCHANGED <<k, conn, owed>>

\* _sem_close posts what the task still owns, one _sem_post after the other.
sem_close ==
    /\ Free /\ conn[td].VALID
    /\ IF sem[conn[td].SEM_PTR].VALID /\ conn[td].POST_STATE > 0
       THEN call' = [call EXCEPT ![td].close = TRUE] /\ UNCHANGED conn
       ELSE conn' = [conn EXCEPT ![td] = NoConnection] /\ UNCHANGED call
    /\ UNCHANGED <<k, sem, NAME, owed>>

ClosePost ==
    /\ At("none") /\ call[td].close
    /\ conn[td].POST_STATE > 0
    /\ Post

CloseEnd ==
    /\ At("none") /\ call[td].close
    /\ conn[td].POST_STATE = 0
    /\ conn' = [conn EXCEPT ![td] = NoConnection]
    /\ call' = [call EXCEPT ![td] = NoCall]
    /\ UNCHANGED <<k, sem, NAME, owed>>

(***************************************************************************)
(* _sem_destroy, _sem_destroy_fast                                          *)
(***************************************************************************)
DestroyFind ==
    /\ Free
    /\ NAME # NULL                                   \* else SEM_SEMAPHORE_NOT_FOUND
    /\ Goto("destroy", NAME, FALSE)
    /\ UNCHANGED <<k, sem, NAME, conn, owed>>

\* The loop of a forced destroy looks at the head of WAITING_TASKS as often as there
\* are waiters, and takes nobody off the queue: it wakes the first waiter only.
ForceReady(s) ==
    LET w == Head(sem[s].WAITING_TASKS)
    IN  IF sem[s].WAITING_TASKS # <<>> /\ k.TD_STATE[w] = "SEM_BLOCKED"
        THEN TASK_READY(TIME_DEQUEUE(k, w), w) ELSE k

sem_destroy(force_destroy) ==
    /\ At("destroy")
    /\ LET s    == call[td].s
           gone == /\ sem[s].WAITING_TASKS = <<>>
                   /\ Strict(s) => sem[s].COUNT = sem[s].MAX_COUNT
       IN  IF ~sem[s].VALID
           THEN Return /\ UNCHANGED <<k, sem>>       \* SEM_INVALID_SEMAPHORE
           ELSE /\ k' = IF force_destroy THEN ForceReady(s) ELSE k
                /\ sem' = IF gone THEN [sem EXCEPT ![s].VALID = FALSE]
                          ELSE [sem EXCEPT ![s].DELAYED_DESTROY = TRUE]
                /\ Goto("scheduler", s, gone)
    /\ UNCHANGED <<NAME, conn, owed>>

(***************************************************************************)
(* What else tasks do, and interrupts.                                      *)
(***************************************************************************)
time_delay_ticks(n) ==
    /\ Free
    /\ k' = time_delay_internal(k, td, n)
    /\ UNCHANGED <<sem, NAME, conn, call, owed>>

\* An interrupt posts a semaphore that is not strict, through task t's connection.
IsrPost(t) ==
    /\ Interruptible
    /\ conn[t].VALID
    /\ LET s == conn[t].SEM_PTR
       IN  /\ ~Strict(s)
           /\ Postable(s)
           /\ k' = IsrReturn(PostReady(s))
           /\ sem' = IF Destroys(s) THEN [PostCount(s) EXCEPT ![s].block = "freed"]
                     ELSE PostCount(s)
           /\ NAME' = IF Destroys(s) THEN NULL ELSE NAME
           /\ owed' = [owed EXCEPT ![s] = @ + 1]
    /\ UNCHANGED <<conn, call>>

Tick ==
    /\ Interruptible
    /\ k' = IsrReturn(time_notify_kernel(k))
    /\ UNCHANGED <<sem, NAME, conn, call, owed>>

Next ==
    \/ \E s \in Semaphore, flags \in Policies, initial_count \in InitialCounts :
          CreateNamed(s, flags, initial_count)
    \/ sem_create
    \/ OpenFind
    \/ sem_open
    \/ sem_wait
    \/ \E n \in 0 .. MaxDelay : WaitBlock(n)
    \/ WaitReturn
    \/ sem_post
    \/ PostUnboosted
    \/ CheckRunScheduler
    \/ FreeSem
    \/ sem_close
    \/ ClosePost
    \/ CloseEnd
    \/ DestroyFind
    \/ \E force_destroy \in BOOLEAN : sem_destroy(force_destroy)
    \/ \E n \in 1 .. MaxDelay : time_delay_ticks(n)
    \/ \E t \in Task : IsrPost(t)
    \/ Tick

Spec == Init /\ [][Next]_vars

(***************************************************************************)
(* Properties.                                                              *)
(***************************************************************************)
\* The kernel data, the semaphores, the connections and the calls have their types.
TypeOK ==
    /\ k \in Kernel
    /\ sem \in [Semaphore -> SemStruct]
    /\ NAME \in Semaphore \cup {NULL}
    /\ conn \in [Task -> Connection]
    /\ call \in [Task -> Calls]
    /\ owed \in [Semaphore -> Int]

\* The scheduler's own invariants survive every semaphore call, timeout and interrupt.
\* (Only between readying a waiter and calling the scheduler, with interrupts enabled,
\* may a task run although a higher priority is ready.)
SchedulerConsistent ==
    /\ ReadyQueuesOK(k) /\ HintOK(k) /\ TimeoutQueueOK(k)
    /\ call[td].at # "scheduler" => RunningOK(k)

\* A task given the token by a post and not back from its wait yet.
InTransit(s) ==
    {t \in Task : /\ call[t].at = "wait" /\ call[t].s = s
                  /\ k.TD_STATE[t] # "SEM_BLOCKED" /\ k.INFO[t] = "SEM_AVAILABLE"}

\* The connections on WAITING_TASKS are exactly those of the tasks inside a wait for the
\* semaphore, blocked or woken, each once; the ones on OWNING_TASKS exactly those with
\* tokens to post; and nobody is blocked on a semaphore that has been destroyed.
QueuesExact ==
    \A s \in Semaphore :
        /\ sem[s].VALID =>
              /\ NoDuplicates(sem[s].WAITING_TASKS)
              /\ Elems(sem[s].WAITING_TASKS) =
                    {t \in Task : call[t].at = "wait" /\ call[t].s = s}
              /\ NoDuplicates(sem[s].OWNING_TASKS)
              /\ Elems(sem[s].OWNING_TASKS) =
                    {t \in Task : conn[t].SEM_PTR = s /\ conn[t].POST_STATE > 0}
        /\ \A t \in Task :
              k.TD_STATE[t] = "SEM_BLOCKED" => call[t].at = "wait" /\ sem[call[t].s].VALID

\* Whatever semaphore calls, timeouts and interrupts meet, the ready queues, the timeout
\* queue, the semaphore's two queues and the running task fit together.
KernelConsistent == TypeOK /\ SchedulerConsistent /\ QueuesExact

\* Tokens are neither lost nor invented: what was posted and not waited for is in COUNT
\* or on its way to a woken waiter, whatever comes between the post and the waiter's
\* next step; a strict semaphore's other tokens are with the tasks that may post them.
TokensConserved ==
    \A s \in Semaphore :
        sem[s].VALID =>
            /\ owed[s] = sem[s].COUNT + Cardinality(InTransit(s))
            /\ Strict(s) =>
                  owed[s] + Cardinality({p \in Task \X (1 .. sem[s].MAX_COUNT) :
                      /\ conn[p[1]].SEM_PTR = s
                      /\ p[2] <= conn[p[1]].POST_STATE}) = sem[s].MAX_COUNT

\* Nobody is blocked on a semaphore that has a token: a post passes over the waiters
\* that are awake already, and wakes the next one.
NoLostWakeup ==
    \A t \in Task : k.TD_STATE[t] = "SEM_BLOCKED" => sem[call[t].s].COUNT = 0

\* Inherited priorities do not outlive their cause: a task that owns no token and is in
\* no call runs at its own priority, and its connection remembers no boost.
NoBoostLeak ==
    \A t \in Task :
        call[t] = NoCall /\ conn[t].POST_STATE = 0 =>
            /\ k.BOOSTED[t] = 0 /\ k.MY_QUEUE[t] = k.HOME_QUEUE[t]
            /\ conn[t].BOOSTED = 0

\* "Semaphore is destroyed after all the owners post the semaphore": a strict semaphore
\* is not destroyed as long as a task owns a token or has been woken with one (or
\* _sem_close, whose posts would fail, would never return).
DestroyedUnowned ==
    \A s \in Semaphore :
        Strict(s) /\ ~sem[s].VALID =>
            /\ \A t \in Task : conn[t].SEM_PTR = s => conn[t].POST_STATE = 0
            /\ InTransit(s) = {}

\* Whatever calls of _sem_destroy and _sem_post meet, one of them frees the semaphore,
\* and none after it has been freed.
FreedOnce ==
    \A s \in Semaphore :
        LET D == {t \in Task : call[t].s = s /\ call[t].destroying}
        IN  /\ Cardinality(D) <= 1
            /\ sem[s].block = "freed" => D = {}

\* A semaphore is destroyed when its owners are done with it, and by one call only.
DestroyedOnce == DestroyedUnowned /\ FreedOnce
=============================================================================
