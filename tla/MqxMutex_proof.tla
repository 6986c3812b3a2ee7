---------------------------- MODULE MqxMutex_proof ----------------------------
(***************************************************************************)
(* The safety of the mutexes, for any number of tasks, priorities and        *)
(* mutexes and every protocol: the kernel stays consistent through every     *)
(* switch inside a call, and two tasks never hold one mutex.                 *)
(***************************************************************************)
EXTENDS MqxMutex, MqxKernel_proof

\* The kernel inside a mutex call; X: the waiters that _mutex_destroy has dequeued and
\* not readied.  A task waits for a mutex or is ready, and only a ready one is delayed.
Orderly(j, X) ==
    /\ KInv(j, {}) /\ IsReady(j, j.ACTIVE_PTR)
    /\ WaitQueuesOK(j, X)
    /\ \A t \in Task : j.TD_STATE[t] \in {"READY", "MUTEX_BLOCKED"}
    /\ \A t \in j.ON_TIMEOUT_Q : j.TD_STATE[t] = "READY"

\* The same tasks wait for the same mutexes in j and in v.
Same(j, v) ==
    /\ v.TD_STATE = j.TD_STATE /\ v.INFO = j.INFO
    /\ \A o \in Queue : /\ Elems(v.QUEUE[o]) = Elems(j.QUEUE[o])
                        /\ NoDuplicates(v.QUEUE[o])

\* A mutex that has an owner is locked, and the idle task owns none.
OwnerOK(M) == M.OWNER_TD # NULL => M.LOCK /\ M.OWNER_TD # Idle

\* Task t, at call c, with the mutexes mx, the states D and the INFO words I.
CallOK(t, c, mx, D, I) ==
    /\ t = Idle => c = NoCall
    /\ c.m \in Mutex => mx[c.m].VALID \/ mx[c.m].OWNER_TD # NULL
    /\ c.at \in {"boosted", "yield"} => c.n > 0
    /\ c.at = "own" => /\ c.m \in Mutex /\ mx[c.m].VALID
                       /\ mx[c.m].LOCK /\ mx[c.m].OWNER_TD = NULL
    /\ c.at \in {"protect", "destroy"} =>
          c.m \in Mutex /\ mx[c.m].VALID /\ mx[c.m].OWNER_TD = t
    /\ c.at \in {"drain", "drained"} =>
          c.m \in Mutex /\ ~mx[c.m].VALID /\ mx[c.m].OWNER_TD = t
    /\ IF c.at = "drained"
       THEN c.w \in Task /\ D[c.w] = "MUTEX_BLOCKED" /\ I[c.w] = c.m
       ELSE c.w = NULL
    /\ D[t] = "MUTEX_BLOCKED" => c.at = "blocked" /\ I[t] = c.m
    /\ c.at = "blocked" =>
          c.m \in Mutex /\ (D[t] # "MUTEX_BLOCKED" /\ mx[c.m].VALID => mx[c.m].OWNER_TD = t)

\* The waiters that a _mutex_destroy has dequeued and not readied.
Taken == {call[t].w : t \in Task}

\* A task may run below a ready one only where its call has yet to call the scheduler.
Scheduled == call[k.ACTIVE_PTR].at \notin {"drain", "drained", "ceiling"} => RunningOK(k)

\* Who was told that it has locked a mutex owns it.
HeldOK == \A t \in Task : \A m \in held[t] : mutex[m].VALID /\ mutex[m].OWNER_TD = t

\* Between setting LOCK and OWNER_TD, a spinning task is the only one there.
OneTaker ==
    \A t, u \in Task :
        call[t].at = "own" /\ call[u].at = "own" /\ call[t].m = call[u].m => t = u

\* The inductive invariant.  Mutual exclusion needs to know where every task stands: a
\* mutex with LOCK and without OWNER_TD has a task between the two assignments, and a
\* waiter that is ready again owns the mutex or finds it destroyed.
Inv ==
    /\ TypeOK
    /\ Orderly(k, Taken)
    /\ Scheduled
    /\ \A t \in Task : CallOK(t, call[t], mutex, k.TD_STATE, k.INFO)
    /\ \A m \in Mutex : OwnerOK(mutex[m])
    /\ HeldOK
    /\ OneTaker

(***************************************************************************)
(* What the kernel operations do to the waiting tasks.                      *)
(***************************************************************************)
\* Same composes.
LEMMA SameTrans ==
    ASSUME NEW i, NEW j, NEW v, Same(i, j), Same(j, v)
    PROVE  Same(i, v)
BY DEF Same

\* A change of the kernel that leaves states, INFO and the wait queues alone.
LEMMA KeptSame ==
    ASSUME NEW j, NEW X, Orderly(j, X), NEW v,
           v.TD_STATE = j.TD_STATE, v.INFO = j.INFO, v.QUEUE = j.QUEUE
    PROVE  Same(j, v)
BY DEF Same, Orderly, WaitQueuesOK

\* A change that keeps the waiting tasks and the scheduler's invariant keeps the order.
LEMMA KeptOrder ==
    ASSUME NEW j, NEW X, Orderly(j, X), NEW v, Same(j, v),
           KInv(v, {}), IsReady(v, v.ACTIVE_PTR),
           \A t \in v.ON_TIMEOUT_Q : v.TD_STATE[t] = "READY"
    PROVE  Orderly(v, X)
<1>1. WaitQueuesOK(v, X)
  BY DEF Orderly, Same, WaitQueuesOK
<1> QED
  BY <1>1 DEF Orderly, Same

\* Switching tasks.
LEMMA SwitchedOrder ==
    ASSUME NEW j, NEW X, Orderly(j, X), NEW v, OnlySwitched(j, v),
           KInv(v, {}), IsReady(v, v.ACTIVE_PTR)
    PROVE  Orderly(v, X) /\ Same(j, v)
<1>1. Same(j, v)
  BY KeptSame DEF OnlySwitched
<1>2. \A t \in v.ON_TIMEOUT_Q : v.TD_STATE[t] = "READY"
  BY DEF OnlySwitched, Orderly
<1> QED
  BY <1>1, <1>2, KeptOrder

\* The scheduler called by a task.
LEMMA CheckRunOrder ==
    ASSUME NEW j, NEW X, Orderly(j, X)
    PROVE  LET v == CHECK_RUN_SCHEDULER(j)
           IN  Orderly(v, X) /\ Same(j, v) /\ RunningOK(v)
<1> DEFINE v == CHECK_RUN_SCHEDULER(j)
<1>1. KInv(v, {}) /\ TopRuns(v)
  BY CheckRunInv DEF Orderly
<1>2. OnlySwitched(j, v)
  BY SwitchFrame DEF Orderly, KInv
<1> HIDE DEF v
<1>3. RunningOK(v) /\ IsReady(v, v.ACTIVE_PTR)
  BY <1>1, TopIsRunning DEF TopRuns
<1>4. Orderly(v, X) /\ Same(j, v)
  BY <1>1, <1>2, <1>3, SwitchedOrder
<1> QED
  BY <1>3, <1>4 DEF v

\* _sched_yield
LEMMA YieldOrder ==
    ASSUME NEW j, NEW X, Orderly(j, X)
    PROVE  LET v == SchedYield(j)
           IN  Orderly(v, X) /\ Same(j, v) /\ RunningOK(v)
<1> DEFINE v == SchedYield(j)
           t == j.ACTIVE_PTR
           u == UnlinkReady(j, t)
           r == TASK_READY(u, t)
<1>1. KInv(v, {}) /\ TopRuns(v)
  BY SchedYieldInv DEF Orderly
<1>2. /\ j \in Kernel /\ t \in Task /\ j.TD_STATE \in [Task -> State]
      /\ j.TD_STATE[t] = "READY"
  BY KernelFields DEF Orderly, KInv, IsReady
<1>3. OnlySwitched(j, u) /\ u \in Kernel
  <2>1. KInv(u, {t})
    BY <1>2, UnlinkReadyInv DEF Orderly
  <2> QED
    BY <1>2, <2>1, UnlinkFrame DEF KInv
<1>4. r \in Kernel
  BY <1>2, RotateInv DEF Orderly, KInv
<1>5. v = Dispatch(r)
  BY DEF SchedYield
<1> HIDE DEF u, v
<1>6. /\ r.TD_STATE = [u.TD_STATE EXCEPT ![t] = "READY"]
      /\ r.ON_TIMEOUT_Q = u.ON_TIMEOUT_Q
      /\ r.QUEUE = u.QUEUE /\ r.INFO = u.INFO
      /\ r.MY_QUEUE = u.MY_QUEUE /\ r.HOME_QUEUE = u.HOME_QUEUE
      /\ r.BOOSTED = u.BOOSTED
  BY <1>2, <1>3, TaskReadyFrame
<1> HIDE DEF r
<1>7. [j.TD_STATE EXCEPT ![t] = "READY"] = j.TD_STATE
  BY <1>2
<1>8. OnlySwitched(r, v)
  BY <1>4, <1>5, SwitchFrame
<1>9. OnlySwitched(j, v)
  BY <1>3, <1>6, <1>7, <1>8 DEF OnlySwitched
<1>10. RunningOK(v) /\ IsReady(v, v.ACTIVE_PTR)
  BY <1>1, TopIsRunning DEF TopRuns
<1>11. Orderly(v, X) /\ Same(j, v)
  BY <1>1, <1>9, <1>10, SwitchedOrder
<1> QED
  BY <1>10, <1>11 DEF v

\* The active task goes to sleep.
LEMMA DelayOrder ==
    ASSUME NEW j, NEW X, Orderly(j, X), NEW t \in Task, t # Idle, IsReady(j, t),
           NEW n \in Int
    PROVE  LET v == time_delay_internal(j, t, n)
           IN  Orderly(v, X) /\ Same(j, v) /\ RunningOK(v)
<1> DEFINE v == time_delay_internal(j, t, n)
<1>1. j \in Kernel
  BY DEF Orderly, KInv
<1>2. KInv(v, {}) /\ TopRuns(v)
  BY <1>1, TimeDelayInv DEF Orderly
<1>3. /\ v.TD_STATE = j.TD_STATE /\ v.INFO = j.INFO /\ v.QUEUE = j.QUEUE
      /\ v.ON_TIMEOUT_Q = j.ON_TIMEOUT_Q \cup {t}
  BY <1>1, DelayFrame
<1> HIDE DEF v
<1>4. Same(j, v)
  BY <1>3, KeptSame
<1>5. RunningOK(v) /\ IsReady(v, v.ACTIVE_PTR)
  BY <1>2, TopIsRunning DEF TopRuns
<1>6. \A u \in v.ON_TIMEOUT_Q : v.TD_STATE[u] = "READY"
  BY <1>3 DEF Orderly, IsReady
<1>7. Orderly(v, X)
  BY <1>2, <1>4, <1>5, <1>6, KeptOrder
<1> QED
  BY <1>4, <1>5, <1>7 DEF v

\* The timer interrupt: a task that waits for a mutex is never delayed, so none times out.
LEMMA TickOrder ==
    ASSUME NEW j, NEW X, Orderly(j, X)
    PROVE  LET v == IsrReturn(time_notify_kernel(j))
           IN  Orderly(v, X) /\ Same(j, v) /\ RunningOK(v)
<1> DEFINE v == IsrReturn(time_notify_kernel(j))
<1>1. KInv(j, {}) /\ IsReady(j, j.ACTIVE_PTR) /\ j \in Kernel
  BY DEF Orderly, KInv
<1>2. /\ j.ON_TIMEOUT_Q \in SUBSET Task /\ j.TD_STATE \in [Task -> State]
      /\ j.QUEUE \in [Queue -> Seq(Task)]
  BY <1>1, KernelFields
<1>3. KInv(v, {}) /\ RunningOK(v)
  BY <1>1, TickInv
<1>4. PICK S \in SUBSET j.ON_TIMEOUT_Q : TimedOut(j, v, S)
  BY <1>1, TickFrame
<1> HIDE DEF v
<1>5. \A t \in S : j.TD_STATE[t] = "READY"
  BY DEF Orderly
<1>6. v.TD_STATE = j.TD_STATE /\ v.INFO = j.INFO /\ v.ON_TIMEOUT_Q \subseteq j.ON_TIMEOUT_Q
  BY <1>2, <1>4, <1>5 DEF TimedOut, Readied
<1>7. ASSUME NEW o \in Queue
      PROVE  Elems(v.QUEUE[o]) = Elems(j.QUEUE[o]) /\ NoDuplicates(v.QUEUE[o])
  <2> DEFINE D == {t \in S : j.TD_STATE[t] \in AuxStates /\ j.INFO[t] = o}
  <2>1. D = {}
    BY <1>5, States DEF WaitStates
  <2>2. v.QUEUE[o] = Keep(j.QUEUE[o], Task \ D)
    BY <1>4 DEF TimedOut, LeaveAuxQueues
  <2>3. j.QUEUE[o] \in Seq(Task) /\ NoDuplicates(j.QUEUE[o]) /\ Elems(j.QUEUE[o]) \subseteq Task
    BY <1>2, EmptyQueue DEF Orderly, WaitQueuesOK
  <2> HIDE DEF D
  <2>4. /\ Elems(Keep(j.QUEUE[o], Task \ D)) = Elems(j.QUEUE[o]) \cap (Task \ D)
        /\ NoDuplicates(Keep(j.QUEUE[o], Task \ D))
    BY <2>3, KeepElems
  <2> QED
    BY <2>1, <2>2, <2>3, <2>4
<1>8. Same(j, v)
  BY <1>6, <1>7 DEF Same
<1>9. \A u \in v.ON_TIMEOUT_Q : v.TD_STATE[u] = "READY"
  BY <1>6 DEF Orderly
<1>10. Orderly(v, X)
  BY <1>3, <1>8, <1>9, KeptOrder DEF RunningOK
<1> QED
  BY <1>3, <1>8, <1>10 DEF v

\* _task_set_priority: no task waits on a task queue, so none is sorted in anew.
LEMMA PriorityOrder ==
    ASSUME NEW j, NEW X, Orderly(j, X), NEW t \in Task, t # Idle, NEW p \in Priority
    PROVE  LET v == TaskSetPriority(j, t, p)
           IN  Orderly(v, X) /\ Same(j, v) /\ RunningOK(v)
<1> DEFINE v == TaskSetPriority(j, t, p)
<1>1. KInv(j, {}) /\ IsReady(j, j.ACTIVE_PTR)
  BY DEF Orderly
<1>2. KInv(v, {}) /\ TopRuns(v)
  BY <1>1, TaskSetPriorityInv
<1>3. Reprioritized(j, v, t)
  BY <1>1, TaskSetPriorityFrame
<1> HIDE DEF v
<1>4. ~Ordered(j, t)
  BY DEF Ordered, Orderly
<1>5. Same(j, v)
  BY <1>3, <1>4, KeptSame DEF Reprioritized
<1>6. RunningOK(v) /\ IsReady(v, v.ACTIVE_PTR)
  BY <1>2, TopIsRunning DEF TopRuns
<1>7. \A u \in v.ON_TIMEOUT_Q : v.TD_STATE[u] = "READY"
  BY <1>3 DEF Orderly, Reprioritized
<1>8. Orderly(v, X)
  BY <1>2, <1>5, <1>6, <1>7, KeptOrder
<1> QED
  BY <1>5, <1>6, <1>8 DEF v

\* BOOSTED is nothing that the queues depend on.
LEMMA CountOrder ==
    ASSUME NEW j, NEW X, Orderly(j, X), NEW B \in [Task -> Nat]
    PROVE  LET v == [j EXCEPT !.BOOSTED = B]
           IN  Orderly(v, X) /\ Same(j, v) /\ (RunningOK(j) => RunningOK(v))
<1> DEFINE v == [j EXCEPT !.BOOSTED = B]
<1>1. j \in Kernel /\ j.ACTIVE_PTR \in Task /\ KInv(j, {}) /\ IsReady(j, j.ACTIVE_PTR)
  BY KernelFields DEF Orderly, KInv
<1>2. /\ v \in Kernel
      /\ v.READY_Q = j.READY_Q /\ v.CURRENT_READY_Q = j.CURRENT_READY_Q
      /\ v.MY_QUEUE = j.MY_QUEUE /\ v.TD_STATE = j.TD_STATE
      /\ v.ON_TIMEOUT_Q = j.ON_TIMEOUT_Q /\ v.TIMEOUT_QUEUE = j.TIMEOUT_QUEUE
      /\ v.TIMEOUT = j.TIMEOUT /\ v.ACTIVE_PTR = j.ACTIVE_PTR
      /\ v.QUEUE = j.QUEUE /\ v.INFO = j.INFO
      /\ v.PREEMPTION_DISABLED = j.PREEMPTION_DISABLED
  BY <1>1 DEF Kernel
<1> HIDE DEF v
<1>3. KInv(v, {}) /\ \A u \in Task : IsReady(v, u) <=> IsReady(j, u)
  BY <1>1, <1>2, Frame
<1>4. IsReady(v, v.ACTIVE_PTR) /\ (RunningOK(j) => RunningOK(v))
  BY <1>1, <1>2, <1>3 DEF RunningOK
<1>5. Same(j, v)
  BY <1>2, KeptSame
<1>6. \A u \in v.ON_TIMEOUT_Q : v.TD_STATE[u] = "READY"
  BY <1>2 DEF Orderly
<1>7. Orderly(v, X)
  BY <1>3, <1>4, <1>5, <1>6, KeptOrder
<1> QED
  BY <1>4, <1>5, <1>7 DEF v

\* _sched_set_priority_internal and the scheduler after it, with BOOSTED adjusted.
LEMMA MoveOrder ==
    ASSUME NEW j, NEW X, Orderly(j, X), NEW t \in Task, t # Idle, NEW p \in Priority,
           NEW B \in [Task -> Nat]
    PROVE  LET v == CHECK_RUN_SCHEDULER(
                        sched_set_priority_internal([j EXCEPT !.BOOSTED = B], t, p))
           IN  Orderly(v, X) /\ Same(j, v) /\ RunningOK(v)
<1> DEFINE i == [j EXCEPT !.BOOSTED = B]
           s == sched_set_priority_internal(i, t, p)
           v == CHECK_RUN_SCHEDULER(s)
<1>1. Orderly(i, X) /\ Same(j, i)
  BY CountOrder
<1> HIDE DEF i
<1>2. KInv(i, {}) /\ IsReady(i, i.ACTIVE_PTR)
  BY <1>1 DEF Orderly
<1>3. KInv(s, {}) /\ IsReady(s, s.ACTIVE_PTR)
  BY <1>2, SetPriorityInv
<1>4. /\ s.TD_STATE = i.TD_STATE /\ s.ON_TIMEOUT_Q = i.ON_TIMEOUT_Q
      /\ s.QUEUE = i.QUEUE /\ s.INFO = i.INFO
  BY <1>2, SetPriorityFrame, ZenonT(30)
<1> HIDE DEF s
<1>5. Same(i, s)
  BY <1>1, <1>4, KeptSame
<1>6. \A u \in s.ON_TIMEOUT_Q : s.TD_STATE[u] = "READY"
  BY <1>1, <1>4 DEF Orderly
<1>7. Orderly(s, X)
  BY <1>1, <1>3, <1>5, <1>6, KeptOrder
<1>8. Orderly(v, X) /\ Same(s, v) /\ RunningOK(v)
  BY <1>7, CheckRunOrder
<1> HIDE DEF v
<1>9. Same(j, v)
  BY <1>1, <1>5, <1>8, SameTrans
<1> QED
  BY <1>8, <1>9 DEF v, s, i

\* _sched_boost_priority_internal
LEMMA BoostOrder ==
    ASSUME NEW j, NEW X, Orderly(j, X), NEW t \in Task, t # Idle, NEW p \in Priority
    PROVE  LET v == sched_boost_priority_internal(j, t, p)
           IN  Orderly(v, X) /\ Same(j, v) /\ RunningOK(v)
<1> DEFINE B == [j.BOOSTED EXCEPT ![t] = @ + 1]
<1>1. j.BOOSTED \in [Task -> Nat]
  BY KernelFields DEF Orderly, KInv
<1>2. B \in [Task -> Nat]
  BY <1>1
<1>3. sched_boost_priority_internal(j, t, p)
        = CHECK_RUN_SCHEDULER(sched_set_priority_internal([j EXCEPT !.BOOSTED = B], t, p))
  BY DEF sched_boost_priority_internal
<1> HIDE DEF B
<1> QED
  BY <1>2, <1>3, MoveOrder

\* _sched_unboost_priority_internal
LEMMA UnboostOrder ==
    ASSUME NEW j, NEW X, Orderly(j, X), NEW t \in Task, t # Idle, NEW n \in Nat
    PROVE  LET v == sched_unboost_priority_internal(j, t, n)
           IN  Orderly(v, X) /\ Same(j, v) /\ (RunningOK(j) => RunningOK(v))
<1> DEFINE v == sched_unboost_priority_internal(j, t, n)
<1>1. j.BOOSTED \in [Task -> Nat] /\ j.HOME_QUEUE[t] \in Priority
  BY KernelFields DEF Orderly, KInv
<1>2. CASE j.BOOSTED[t] > n
  <2> DEFINE B == [j.BOOSTED EXCEPT ![t] = @ - n]
  <2>1. B \in [Task -> Nat]
    BY <1>1, <1>2
  <2>2. v = [j EXCEPT !.BOOSTED = B]
    BY <1>2 DEF sched_unboost_priority_internal
  <2> HIDE DEF B
  <2> QED
    BY <2>1, <2>2, CountOrder
<1>3. CASE ~(j.BOOSTED[t] > n) /\ j.BOOSTED[t] = 0
  <2>1. v = j
    BY <1>3 DEF sched_unboost_priority_internal
  <2>2. Same(j, j)
    BY KeptSame
  <2> QED
    BY <2>1, <2>2
<1>4. CASE ~(j.BOOSTED[t] > n) /\ j.BOOSTED[t] # 0
  <2> DEFINE B == [j.BOOSTED EXCEPT ![t] = 0]
  <2>1. B \in [Task -> Nat]
    BY <1>1
  <2>2. v = CHECK_RUN_SCHEDULER(
                sched_set_priority_internal([j EXCEPT !.BOOSTED = B], t, j.HOME_QUEUE[t]))
    BY <1>4 DEF sched_unboost_priority_internal
  <2> HIDE DEF B
  <2> QED
    BY <1>1, <2>1, <2>2, MoveOrder
<1> QED
  BY <1>2, <1>3, <1>4

\* Only which tasks are in X matters.
LEMMA TakenOrder ==
    ASSUME NEW j, NEW X, Orderly(j, X), NEW Y, \A t \in Task : t \in X <=> t \in Y
    PROVE  Orderly(j, Y)
<1>1. WaitQueuesOK(j, Y)
  BY DEF Orderly, WaitQueuesOK
<1> QED
  BY <1>1 DEF Orderly

\* Task t, linked on q for mutex m, as _mutex_lock leaves it to the dispatcher.
Enqueued(j, t, m, q) ==
    [UnlinkReady(j, t) EXCEPT !.INFO[t] = m, !.QUEUE[m] = q, !.TD_STATE[t] = "MUTEX_BLOCKED"]

\* It makes no difference that the ready queue is left first.
LEMMA EnqueuedWaiting ==
    ASSUME NEW j \in Kernel, NEW t \in Task, NEW m \in Queue, NEW q \in Seq(Task)
    PROVE  Enqueued(j, t, m, q) = UnlinkReady(Waiting(j, t, m, "MUTEX_BLOCKED", q), t)
<1> DEFINE R == [j.READY_Q EXCEPT ![j.MY_QUEUE[t]] = Unlink(@, t)]
           D == [j.TD_STATE EXCEPT ![t] = "MUTEX_BLOCKED"]
           I == [j.INFO EXCEPT ![t] = m]
           W == [j.QUEUE EXCEPT ![m] = q]
           u == UnlinkReady(j, t)
           w == Waiting(j, t, m, "MUTEX_BLOCKED", q)
<1>1. u = [j EXCEPT !.READY_Q = R]
  BY DEF UnlinkReady
<1>2. w = [j EXCEPT !.TD_STATE = D, !.INFO = I, !.QUEUE = W]
  BY DEF Waiting, Kernel
<1>3. UnlinkReady(w, t) = [w EXCEPT !.READY_Q = [w.READY_Q EXCEPT ![w.MY_QUEUE[t]] = Unlink(@, t)]]
  BY DEF UnlinkReady
<1>4. Enqueued(j, t, m, q)
        = [u EXCEPT !.INFO = [u.INFO EXCEPT ![t] = m], !.QUEUE = [u.QUEUE EXCEPT ![m] = q],
                    !.TD_STATE = [u.TD_STATE EXCEPT ![t] = "MUTEX_BLOCKED"]]
  BY DEF Enqueued
<1> HIDE DEF R, D, I, W
<1>5. u.INFO = j.INFO /\ u.QUEUE = j.QUEUE /\ u.TD_STATE = j.TD_STATE
  BY <1>1 DEF Kernel
<1>6. w.READY_Q = j.READY_Q /\ w.MY_QUEUE = j.MY_QUEUE
  BY <1>2 DEF Kernel
<1>7. Enqueued(j, t, m, q) = [u EXCEPT !.INFO = I, !.QUEUE = W, !.TD_STATE = D]
  BY <1>4, <1>5 DEF I, W, D
<1>8. UnlinkReady(w, t) = [w EXCEPT !.READY_Q = R]
  BY <1>3, <1>6 DEF R
<1>9. [[j EXCEPT !.READY_Q = R] EXCEPT !.INFO = I, !.QUEUE = W, !.TD_STATE = D]
        = [[j EXCEPT !.TD_STATE = D, !.INFO = I, !.QUEUE = W] EXCEPT !.READY_Q = R]
  BY DEF Kernel
<1> HIDE DEF u, w
<1>10. Enqueued(j, t, m, q) = UnlinkReady(w, t)
  BY <1>1, <1>2, <1>7, <1>8, <1>9
<1> QED
  BY <1>10 DEF w

\* q is the queue of m, with task t on it.
Joins(j, t, m, q) == NoDuplicates(q) /\ Elems(q) = Elems(j.QUEUE[m]) \cup {t}

\* The active task is put on the queue of m and another one runs.
LEMMA EnqueueOrder ==
    ASSUME NEW j, NEW X, Orderly(j, X), NEW t \in Task, t # Idle, IsReady(j, t), t \notin X,
           NEW m \in Queue, NEW q \in Seq(Task), Joins(j, t, m, q)
    PROVE  LET v == Dispatch(Enqueued(j, t, m, q))
           IN  /\ Orderly(v, X) /\ RunningOK(v)
               /\ v.TD_STATE = [j.TD_STATE EXCEPT ![t] = "MUTEX_BLOCKED"]
               /\ v.INFO = [j.INFO EXCEPT ![t] = m]
<1> DEFINE e == Enqueued(j, t, m, q)
           v == Dispatch(e)
<1>1. /\ KInv(j, {}) /\ j \in Kernel /\ j.TD_STATE \in [Task -> State]
      /\ j.INFO \in [Task -> Info] /\ j.QUEUE \in [Queue -> Seq(Task)]
      /\ WaitQueuesOK(j, X) /\ j.ON_TIMEOUT_Q \in SUBSET Task
      /\ NoDuplicates(q) /\ Elems(q) = Elems(j.QUEUE[m]) \cup {t}
  BY KernelFields DEF Orderly, KInv, Joins
<1>2. /\ KInv(e, {}) /\ Joined(j, e, t, m, "MUTEX_BLOCKED", q)
      /\ e.ON_TIMEOUT_Q = j.ON_TIMEOUT_Q
  <2>1. "MUTEX_BLOCKED" \in WaitStates
    BY DEF WaitStates, QueueStates
  <2> QED
    BY <1>1, <2>1, EnqueuedWaiting, BlockInv
<1> HIDE DEF e
<1>3. KInv(v, {}) /\ TopRuns(v)
  BY <1>2, DispatchInv
<1>4. OnlySwitched(e, v)
  BY <1>2, SwitchFrame DEF KInv
<1> HIDE DEF v
<1>5. /\ v.TD_STATE = [j.TD_STATE EXCEPT ![t] = "MUTEX_BLOCKED"]
      /\ v.INFO = [j.INFO EXCEPT ![t] = m]
      /\ v.QUEUE = [j.QUEUE EXCEPT ![m] = q]
      /\ v.ON_TIMEOUT_Q = j.ON_TIMEOUT_Q
  BY <1>2, <1>4 DEF Joined, OnlySwitched
<1>6. WaitQueuesOK(v, X)
  <2>1. ASSUME NEW o \in Queue
        PROVE  NoDuplicates(v.QUEUE[o])
    BY <1>1, <1>5, <2>1 DEF WaitQueuesOK
  <2>2. ASSUME NEW o \in Queue, NEW u \in Task
        PROVE  u \in Elems(v.QUEUE[o]) <=> v.TD_STATE[u] \in WaitStates /\ v.INFO[u] = o
                                             /\ u \notin X
    <3>1. u \in Elems(j.QUEUE[o]) <=> j.TD_STATE[u] \in WaitStates /\ j.INFO[u] = o
                                        /\ u \notin X
      BY <1>1 DEF WaitQueuesOK, WaitStates
    <3>2. CASE u = t
      <4>1. v.TD_STATE[u] \in WaitStates /\ v.INFO[u] = m /\ u \notin X
        BY <1>1, <1>5, <3>2 DEF WaitStates, QueueStates
      <4>2. u \notin Elems(j.QUEUE[o])
        BY <3>1, <3>2, States DEF IsReady
      <4>3. CASE o = m
        BY <1>1, <1>5, <3>2, <4>1, <4>3
      <4>4. CASE o # m
        BY <1>1, <1>5, <4>1, <4>2, <4>4
      <4> QED
        BY <4>3, <4>4
    <3>3. CASE u # t
      <4>1. v.TD_STATE[u] = j.TD_STATE[u] /\ v.INFO[u] = j.INFO[u]
        BY <1>1, <1>5, <3>3
      <4>2. u \in Elems(v.QUEUE[o]) <=> u \in Elems(j.QUEUE[o])
        BY <1>1, <1>5, <3>3
      <4> QED
        BY <3>1, <4>1, <4>2
    <3> QED
      BY <3>2, <3>3
  <2> QED
    BY <2>1, <2>2 DEF WaitQueuesOK, WaitStates
<1>7. \A u \in Task : v.TD_STATE[u] \in {"READY", "MUTEX_BLOCKED"}
  BY <1>1, <1>5 DEF Orderly
<1>8. \A u \in v.ON_TIMEOUT_Q : v.TD_STATE[u] = "READY"
  BY <1>1, <1>5 DEF Orderly, IsReady
<1>9. Orderly(v, X) /\ RunningOK(v)
  BY <1>3, <1>6, <1>7, <1>8, TopIsRunning DEF Orderly, TopRuns
<1> QED
  BY <1>5, <1>9 DEF v, e

\* w is the first task that waits for m.
FirstWaiter(j, m, w) ==
    /\ w \in Task /\ w = Head(j.QUEUE[m])
    /\ j.TD_STATE[w] = "MUTEX_BLOCKED" /\ j.INFO[w] = m

\* The first waiter of m is dequeued, and not readied yet.
LEMMA DequeueOrder ==
    ASSUME NEW j, NEW X, Orderly(j, X), NEW m \in Queue, j.QUEUE[m] # <<>>
    PROVE  LET v == [j EXCEPT !.QUEUE[m] = Tail(@)]
               w == Head(j.QUEUE[m])
           IN  /\ FirstWaiter(j, m, w) /\ w \notin X /\ w # Idle
               /\ Orderly(v, X \cup {w}) /\ v.ACTIVE_PTR = j.ACTIVE_PTR
               /\ v.TD_STATE = j.TD_STATE /\ v.INFO = j.INFO
               /\ v.MY_QUEUE = j.MY_QUEUE /\ v.HOME_QUEUE = j.HOME_QUEUE
               /\ (RunningOK(j) => RunningOK(v))
<1> DEFINE w == Head(j.QUEUE[m])
           W == [j.QUEUE EXCEPT ![m] = Tail(@)]
           v == [j EXCEPT !.QUEUE = W]
<1>1. /\ KInv(j, {}) /\ j \in Kernel /\ j.QUEUE \in [Queue -> Seq(Task)]
      /\ j.QUEUE[m] \in Seq(Task) /\ j.ACTIVE_PTR \in Task
      /\ WaitQueuesOK(j, X) /\ IsReady(j, j.ACTIVE_PTR)
  BY KernelFields DEF Orderly, KInv
<1>2. NoDuplicates(j.QUEUE[m])
  BY <1>1 DEF WaitQueuesOK
<1>3. /\ Tail(j.QUEUE[m]) \in Seq(Task) /\ w \in Task /\ w \in Elems(j.QUEUE[m])
      /\ Elems(Tail(j.QUEUE[m])) = Elems(j.QUEUE[m]) \ {w}
      /\ NoDuplicates(Tail(j.QUEUE[m]))
  BY <1>1, <1>2, TailElems
<1>4. W \in [Queue -> Seq(Task)]
  BY <1>1, <1>3
<1>5. [j EXCEPT !.QUEUE[m] = Tail(@)] = v
  OBVIOUS
<1> HIDE DEF w
<1>6. j.TD_STATE[w] \in WaitStates /\ j.INFO[w] = m /\ w \notin X
  BY <1>1, <1>3 DEF WaitQueuesOK, WaitStates
<1>7. j.TD_STATE[w] = "MUTEX_BLOCKED" /\ w # Idle
  BY <1>1, <1>3, <1>6, States DEF Orderly, KInv, IdleOK, IsReady
<1> HIDE DEF W
<1>8. /\ v \in Kernel
      /\ v.READY_Q = j.READY_Q /\ v.CURRENT_READY_Q = j.CURRENT_READY_Q
      /\ v.MY_QUEUE = j.MY_QUEUE /\ v.TD_STATE = j.TD_STATE
      /\ v.ON_TIMEOUT_Q = j.ON_TIMEOUT_Q /\ v.TIMEOUT_QUEUE = j.TIMEOUT_QUEUE
      /\ v.TIMEOUT = j.TIMEOUT /\ v.ACTIVE_PTR = j.ACTIVE_PTR
      /\ v.QUEUE = W /\ v.INFO = j.INFO /\ v.HOME_QUEUE = j.HOME_QUEUE
      /\ v.PREEMPTION_DISABLED = j.PREEMPTION_DISABLED
  BY <1>1, <1>4 DEF Kernel
<1> HIDE DEF v
<1>9. KInv(v, {}) /\ \A u \in Task : IsReady(v, u) <=> IsReady(j, u)
  BY <1>1, <1>8, Frame
<1>10. IsReady(v, v.ACTIVE_PTR) /\ (RunningOK(j) => RunningOK(v))
  BY <1>1, <1>8, <1>9 DEF RunningOK
<1>11. WaitQueuesOK(v, X \cup {w})
  <2>1. ASSUME NEW o \in Queue
        PROVE  NoDuplicates(W[o]) /\ Elems(W[o]) = Elems(j.QUEUE[o]) \ {w}
    <3>1. CASE o = m
      BY <1>1, <1>3, <3>1 DEF W
    <3>2. CASE o # m
      <4>1. W[o] = j.QUEUE[o] /\ w \notin Elems(j.QUEUE[o]) /\ NoDuplicates(j.QUEUE[o])
        BY <1>1, <1>3, <1>6, <3>2 DEF W, WaitQueuesOK
      <4> QED
        BY <4>1
    <3> QED
      BY <3>1, <3>2
  <2>2. ASSUME NEW o \in Queue, NEW u \in Task
        PROVE  u \in Elems(v.QUEUE[o]) <=> v.TD_STATE[u] \in WaitStates /\ v.INFO[u] = o
                                             /\ u \notin X \cup {w}
    <3>1. u \in Elems(j.QUEUE[o]) <=> j.TD_STATE[u] \in WaitStates /\ j.INFO[u] = o
                                        /\ u \notin X
      BY <1>1 DEF WaitQueuesOK, WaitStates
    <3> QED
      BY <1>8, <2>1, <3>1
  <2> QED
    BY <1>8, <2>1, <2>2 DEF WaitQueuesOK, WaitStates
<1>12. Orderly(v, X \cup {w})
  BY <1>8, <1>9, <1>10, <1>11 DEF Orderly
<1> QED
  BY <1>3, <1>5, <1>6, <1>7, <1>8, <1>10, <1>12 DEF FirstWaiter, w

\* A dequeued waiter is readied.
LEMMA ReadyOrder ==
    ASSUME NEW j, NEW X, Orderly(j, X), NEW w \in Task, w \in X,
           j.TD_STATE[w] = "MUTEX_BLOCKED"
    PROVE  LET v == TASK_READY(j, w)
           IN  /\ Orderly(v, X \ {w}) /\ v.ACTIVE_PTR = j.ACTIVE_PTR
               /\ v.TD_STATE = [j.TD_STATE EXCEPT ![w] = "READY"] /\ v.INFO = j.INFO
<1> DEFINE v == TASK_READY(j, w)
<1>1. /\ KInv(j, {}) /\ j \in Kernel /\ j.TD_STATE \in [Task -> State]
      /\ j.ACTIVE_PTR \in Task /\ WaitQueuesOK(j, X) /\ IsReady(j, j.ACTIVE_PTR)
      /\ w \notin j.ON_TIMEOUT_Q
  BY KernelFields DEF Orderly, KInv
<1>2. /\ KInv(v, {} \ {w})
      /\ \A u \in Task : IsReady(v, u) <=> u = w \/ IsReady(j, u)
  <2>1. j.TD_STATE[w] # "READY"
    OBVIOUS
  <2> QED
    BY <1>1, <2>1, TaskReadyInv, Zenon
<1>3. {} \ {w} = {}
  OBVIOUS
<1>4. /\ v.TD_STATE = [j.TD_STATE EXCEPT ![w] = "READY"]
      /\ v.ON_TIMEOUT_Q = j.ON_TIMEOUT_Q /\ v.ACTIVE_PTR = j.ACTIVE_PTR
      /\ v.QUEUE = j.QUEUE /\ v.INFO = j.INFO
  BY <1>1, TaskReadyFrame
<1> HIDE DEF v
<1>5. KInv(v, {})
  BY <1>2, <1>3
<1>6. IsReady(v, v.ACTIVE_PTR)
  BY <1>1, <1>2, <1>4
<1>7. WaitQueuesOK(v, X \ {w})
  <2>1. ASSUME NEW o \in Queue, NEW u \in Task
        PROVE  u \in Elems(v.QUEUE[o]) <=> v.TD_STATE[u] \in WaitStates /\ v.INFO[u] = o
                                             /\ u \notin X \ {w}
    <3>1. u \in Elems(j.QUEUE[o]) <=> j.TD_STATE[u] \in WaitStates /\ j.INFO[u] = o
                                        /\ u \notin X
      BY <1>1 DEF WaitQueuesOK, WaitStates
    <3>2. CASE u = w
      BY <1>1, <1>4, <3>1, <3>2, States
    <3>3. CASE u # w
      BY <1>1, <1>4, <3>1, <3>3
    <3> QED
      BY <3>2, <3>3
  <2> QED
    BY <1>1, <1>4, <2>1 DEF WaitQueuesOK, WaitStates
<1>8. \A u \in Task : v.TD_STATE[u] \in {"READY", "MUTEX_BLOCKED"}
  BY <1>1, <1>4 DEF Orderly
<1>9. \A u \in v.ON_TIMEOUT_Q : v.TD_STATE[u] = "READY"
  BY <1>1, <1>4 DEF Orderly
<1>10. Orderly(v, X \ {w})
  BY <1>5, <1>6, <1>7, <1>8, <1>9 DEF Orderly
<1> QED
  BY <1>4, <1>10 DEF v

\* _mutex_unlock readies the first waiter of m.
LEMMA HandOverOrder ==
    ASSUME NEW j, NEW X, Orderly(j, X), NEW m \in Queue, j.QUEUE[m] # <<>>
    PROVE  LET w == Head(j.QUEUE[m])
               v == TASK_READY([j EXCEPT !.QUEUE[m] = Tail(@)], w)
           IN  /\ FirstWaiter(j, m, w) /\ w \notin X /\ w # Idle
               /\ Orderly(v, X) /\ v.ACTIVE_PTR = j.ACTIVE_PTR
               /\ v.TD_STATE = [j.TD_STATE EXCEPT ![w] = "READY"] /\ v.INFO = j.INFO
<1> DEFINE w == Head(j.QUEUE[m])
           g == [j EXCEPT !.QUEUE[m] = Tail(@)]
           v == TASK_READY(g, w)
<1>1. /\ FirstWaiter(j, m, w) /\ w \notin X /\ w # Idle
      /\ Orderly(g, X \cup {w}) /\ g.ACTIVE_PTR = j.ACTIVE_PTR
      /\ g.TD_STATE = j.TD_STATE /\ g.INFO = j.INFO
  BY DequeueOrder
<1> HIDE DEF w, g
<1>2. w \in Task /\ w \in X \cup {w} /\ g.TD_STATE[w] = "MUTEX_BLOCKED"
  BY <1>1 DEF FirstWaiter
<1>3. /\ Orderly(v, (X \cup {w}) \ {w}) /\ v.ACTIVE_PTR = g.ACTIVE_PTR
      /\ v.TD_STATE = [g.TD_STATE EXCEPT ![w] = "READY"] /\ v.INFO = g.INFO
  BY <1>1, <1>2, ReadyOrder
<1>4. (X \cup {w}) \ {w} = X
  BY <1>1
<1> QED
  BY <1>1, <1>3, <1>4 DEF v, g, w

(***************************************************************************)
(* A step of the active task, as the other tasks see it.                    *)
(***************************************************************************)
\* The same task has the mutex locked.
SameLock(M, N) == N.VALID = M.VALID /\ N.LOCK = M.LOCK /\ N.OWNER_TD = M.OWNER_TD

\* What a step of task a may do to the mutexes when the tasks are at calls c: it locks,
\* unlocks, invalidates or hands over a mutex that is its own or nobody's.
Changes(a, c, mx, nx) ==
    \A m \in Mutex :
        \/ SameLock(mx[m], nx[m])
        \/ /\ mx[m].OWNER_TD \in {NULL, a}
           /\ \A u \in Task \ {a} : c[u].m = m =>
                 /\ c[u].at # "own"
                 /\ nx[m].VALID => mx[m].VALID
                 /\ nx[m].VALID \/ nx[m].OWNER_TD # NULL

\* A step that locks and unlocks nothing.
LocksSame ==
    mutex' \in [Mutex -> MutexStruct] /\ \A m \in Mutex : SameLock(mutex[m], mutex'[m])

\* The fields of a mutex and of a call.
LEMMA Fields ==
    /\ \A M \in MutexStruct : /\ M.PROTOCOLS \in SUBSET (SchedProtocols \cup WaitProtocols)
                              /\ M.VALID \in BOOLEAN /\ M.LOCK \in BOOLEAN
                              /\ M.OWNER_TD \in Task \cup {NULL} /\ M.BOOSTED \in Nat
                              /\ M.PRIORITY_CEILING \in Priority
    /\ \A c \in Calls : /\ c.m \in Mutex \cup {NULL} /\ c.priority \in Priority
                        /\ c.n \in Nat /\ c.b \in {0, 1} /\ c.w \in Task \cup {NULL}
BY DEF MutexStruct, Calls

\* The null pointer is no task and no mutex.
LEMMA NullIs == NULL \notin Task /\ NULL \notin Mutex /\ NoCall \in Calls
<1>1. NULL \notin Task /\ NULL \notin Mutex /\ 0 \in Priority
  BY KernelAssumption, MutexAssumption, Priorities DEF Mutex
<1> QED
  BY <1>1 DEF NoCall, Calls

\* Another task's call stays as good as it was.
LEMMA OtherCall ==
    ASSUME NEW c \in [Task -> Calls], NEW mx, NEW nx, NEW a \in Task, NEW u \in Task, u # a,
           Changes(a, c, mx, nx), NEW D, NEW I, CallOK(u, c[u], mx, D, I),
           NEW E, NEW J, E[u] = D[u], J[u] = I[u],
           c[u].at = "drained" => E[c[u].w] = D[c[u].w] /\ J[c[u].w] = I[c[u].w]
    PROVE  CallOK(u, c[u], nx, E, J)
<1>1. CASE c[u].m \in Mutex
  <2> DEFINE m == c[u].m
  <2>1. CASE SameLock(mx[m], nx[m])
    BY <1>1, <2>1 DEF CallOK, SameLock
  <2>2. CASE /\ mx[m].OWNER_TD \in {NULL, a} /\ c[u].at # "own"
             /\ nx[m].VALID => mx[m].VALID
             /\ nx[m].VALID \/ nx[m].OWNER_TD # NULL
    BY <1>1, <2>2, NullIs DEF CallOK
  <2> QED
    BY <1>1, <2>1, <2>2 DEF Changes
<1>2. CASE c[u].m \notin Mutex
  BY <1>2 DEF CallOK
<1> QED
  BY <1>1, <1>2

\* So does the task's own, if no mutex is locked or unlocked.
LEMMA SameCall ==
    ASSUME NEW c, NEW mx, NEW nx, NEW u, NEW D, NEW I, CallOK(u, c, mx, D, I),
           \A m \in Mutex : SameLock(mx[m], nx[m])
    PROVE  CallOK(u, c, nx, D, I)
BY DEF CallOK, SameLock

\* The active task is ready, and waits for nothing.
LEMMA Active ==
    ASSUME Inv
    PROVE  /\ k.ACTIVE_PTR \in Task /\ IsReady(k, k.ACTIVE_PTR) /\ k \in Kernel
           /\ k.TD_STATE[k.ACTIVE_PTR] = "READY" /\ k.ACTIVE_PTR \notin Taken
<1>1. k.ACTIVE_PTR \in Task /\ IsReady(k, k.ACTIVE_PTR) /\ k \in Kernel
  BY KernelFields DEF Inv, Orderly, KInv
<1>2. k.TD_STATE[k.ACTIVE_PTR] = "READY"
  BY <1>1 DEF IsReady
<1>3. ASSUME NEW t \in Task, call[t].w = k.ACTIVE_PTR
      PROVE  FALSE
  BY <1>1, <1>2, <1>3, NullIs DEF Inv, CallOK
<1> QED
  BY <1>1, <1>2, <1>3 DEF Taken

\* What is left to show of a step of the active task a, which is at call c afterwards and
\* holds the mutexes H.
LEMMA StepInv ==
    ASSUME Inv, NEW a \in Task, a = k.ACTIVE_PTR,
           NEW c \in Calls, call' = [call EXCEPT ![a] = c],
           NEW H \in SUBSET Mutex, held' = [held EXCEPT ![a] = H],
           mutex' \in [Mutex -> MutexStruct], Changes(a, call, mutex, mutex'),
           \A m \in Mutex : OwnerOK(mutex'[m]),
           Orderly(k', Taken'), Scheduled',
           \A u \in Task \ {a} : CallOK(u, call[u], mutex', k'.TD_STATE, k'.INFO),
           CallOK(a, c, mutex', k'.TD_STATE, k'.INFO),
           c.at = "own" => \A u \in Task \ {a} : call[u].at = "own" => call[u].m # c.m,
           \A m \in H : mutex'[m].VALID /\ mutex'[m].OWNER_TD = a
    PROVE  Inv'
<1>1. call \in [Task -> Calls] /\ held \in [Task -> SUBSET Mutex]
  BY DEF Inv, TypeOK
<1>2. TypeOK'
  <2>1. k' \in Kernel
    BY DEF Orderly, KInv
  <2>2. call' \in [Task -> Calls] /\ held' \in [Task -> SUBSET Mutex]
    BY <1>1
  <2> QED
    BY <2>1, <2>2 DEF TypeOK
<1>3. /\ call'[a] = c /\ held'[a] = H
      /\ \A u \in Task \ {a} : call'[u] = call[u] /\ held'[u] = held[u]
  BY <1>1
<1>4. ASSUME NEW t \in Task
      PROVE  CallOK(t, call'[t], mutex', k'.TD_STATE, k'.INFO)
  <2>1. CASE t = a
    BY <1>3, <2>1
  <2>2. CASE t # a
    BY <1>3, <2>2
  <2> QED
    BY <2>1, <2>2
<1>5. HeldOK'
  <2>1. ASSUME NEW t \in Task, NEW m \in held'[t]
        PROVE  mutex'[m].VALID /\ mutex'[m].OWNER_TD = t
    <3>1. CASE t = a
      BY <1>3, <2>1, <3>1
    <3>2. CASE t # a
      <4>1. m \in Mutex /\ mutex[m].VALID /\ mutex[m].OWNER_TD = t
        BY <1>1, <1>3, <2>1, <3>2 DEF Inv, HeldOK
      <4>2. SameLock(mutex[m], mutex'[m])
        BY <3>2, <4>1, NullIs DEF Changes
      <4> QED
        BY <4>1, <4>2 DEF SameLock
    <3> QED
      BY <3>1, <3>2
  <2> QED
    BY <2>1 DEF HeldOK
<1>6. OneTaker'
  <2>1. ASSUME NEW t \in Task, NEW u \in Task, call'[t].at = "own", call'[u].at = "own",
               call'[t].m = call'[u].m
        PROVE  t = u
    <3>1. CASE t = a /\ u # a
      BY <1>3, <2>1, <3>1
    <3>2. CASE u = a /\ t # a
      BY <1>3, <2>1, <3>2
    <3>3. CASE t # a /\ u # a
      BY <1>3, <2>1, <3>3 DEF Inv, OneTaker
    <3> QED
      BY <3>1, <3>2, <3>3
  <2> QED
    BY <2>1 DEF OneTaker
<1> QED
  BY <1>2, <1>4, <1>5, <1>6 DEF Inv

\* A step in which nobody starts or stops waiting.
LEMMA QuietInv ==
    ASSUME Inv, NEW a \in Task, a = k.ACTIVE_PTR,
           NEW c \in Calls, call' = [call EXCEPT ![a] = c], c.w = call[a].w,
           NEW H \in SUBSET Mutex, held' = [held EXCEPT ![a] = H],
           mutex' \in [Mutex -> MutexStruct], Changes(a, call, mutex, mutex'),
           \A m \in Mutex : OwnerOK(mutex'[m]),
           Orderly(k', Taken), Same(k, k'),
           RunningOK(k') \/ (k'.ACTIVE_PTR = a /\ c.at \in {"drain", "drained", "ceiling"}),
           CallOK(a, c, mutex', k.TD_STATE, k.INFO),
           c.at = "own" => \A u \in Task \ {a} : call[u].at = "own" => call[u].m # c.m,
           \A m \in H : mutex'[m].VALID /\ mutex'[m].OWNER_TD = a
    PROVE  Inv'
<1>1. call \in [Task -> Calls]
  BY DEF Inv, TypeOK
<1>2. Taken' = Taken
  <2>1. \A t \in Task : call'[t].w = call[t].w
    BY <1>1
  <2> QED
    BY <2>1 DEF Taken
<1>3. Scheduled'
  <2>1. call'[a] = c
    BY <1>1
  <2> QED
    BY <2>1 DEF Scheduled
<1>4. k'.TD_STATE = k.TD_STATE /\ k'.INFO = k.INFO
  BY DEF Same
<1>5. ASSUME NEW u \in Task \ {a}
      PROVE  CallOK(u, call[u], mutex', k'.TD_STATE, k'.INFO)
  <2>1. CallOK(u, call[u], mutex, k.TD_STATE, k.INFO)
    BY DEF Inv
  <2> QED
    BY <1>1, <1>4, <2>1, OtherCall
<1>6. Orderly(k', Taken')
  BY <1>2
<1>7. CallOK(a, c, mutex', k'.TD_STATE, k'.INFO)
  BY <1>4
<1> QED
  BY <1>3, <1>5, <1>6, <1>7, StepInv

\* Such a step disturbs nobody.
LEMMA LocksKept ==
    ASSUME Inv, NEW a, LocksSame
    PROVE  /\ mutex' \in [Mutex -> MutexStruct]
           /\ Changes(a, call, mutex, mutex') /\ \A m \in Mutex : OwnerOK(mutex'[m])
BY DEF LocksSame, Changes, Inv, OwnerOK, SameLock

\* A mutex is written to and stays locked, or unlocked, by the same task.
LEMMA UpdateKept ==
    ASSUME Inv, NEW m \in Mutex, NEW M \in MutexStruct, SameLock(mutex[m], M),
           mutex' = [mutex EXCEPT ![m] = M]
    PROVE  LocksSame
<1>1. mutex \in [Mutex -> MutexStruct]
  BY DEF Inv, TypeOK
<1> QED
  BY <1>1 DEF LocksSame, SameLock

\* BOOSTED of a mutex is set to n.
LEMMA BoostedKept ==
    ASSUME Inv, NEW m \in Mutex, NEW n \in Nat, mutex' = [mutex EXCEPT ![m].BOOSTED = n]
    PROVE  LocksSame
<1> DEFINE M == [mutex[m] EXCEPT !.BOOSTED = n]
<1>1. mutex[m] \in MutexStruct
  BY DEF Inv, TypeOK
<1>2. M \in MutexStruct /\ SameLock(mutex[m], M)
  BY <1>1 DEF MutexStruct, SameLock
<1>3. mutex' = [mutex EXCEPT ![m] = M]
  OBVIOUS
<1> HIDE DEF M
<1> QED
  BY <1>2, <1>3, UpdateKept

\* No mutex is written to at all.
LEMMA UnchangedKept ==
    ASSUME Inv, UNCHANGED mutex
    PROVE  LocksSame
BY DEF Inv, TypeOK, LocksSame, SameLock

\* A step of the active task's call that locks and unlocks nothing and leaves it at call c.
LEMMA CallInv ==
    ASSUME Inv, NEW a \in Task, a = k.ACTIVE_PTR,
           NEW c \in Calls, call' = [call EXCEPT ![a] = c], c.w = call[a].w, c.at # "own",
           UNCHANGED held, LocksSame,
           Orderly(k', Taken), Same(k, k'),
           RunningOK(k') \/ (k'.ACTIVE_PTR = a /\ c.at \in {"drain", "drained", "ceiling"}),
           CallOK(a, c, mutex, k.TD_STATE, k.INFO)
    PROVE  Inv'
<1>1. held \in [Task -> SUBSET Mutex]
  BY DEF Inv, TypeOK
<1>2. PICK H \in SUBSET Mutex : H = held[a]
  BY <1>1
<1>3. held' = [held EXCEPT ![a] = H]
  BY <1>1, <1>2
<1>4. /\ mutex' \in [Mutex -> MutexStruct]
      /\ Changes(a, call, mutex, mutex') /\ \A m \in Mutex : OwnerOK(mutex'[m])
  BY LocksKept
<1>5. CallOK(a, c, mutex', k.TD_STATE, k.INFO)
  BY SameCall DEF LocksSame
<1>6. \A m \in H : mutex'[m].VALID /\ mutex'[m].OWNER_TD = a
  BY <1>1, <1>2 DEF Inv, HeldOK, LocksSame, SameLock
<1> QED
  BY <1>3, <1>4, <1>5, <1>6, QuietInv

\* Nothing has happened to the kernel.
LEMMA SameKernel ==
    ASSUME Inv
    PROVE  Orderly(k, Taken) /\ Same(k, k)
<1>1. Orderly(k, Taken)
  BY DEF Inv
<1> QED
  BY <1>1, KeptSame

\* What is known of the active task, and of one that is inside a call.
LEMMA Going ==
    ASSUME Inv, NEW a \in Task, a = k.ACTIVE_PTR
    PROVE  /\ call[a] \in Calls /\ CallOK(a, call[a], mutex, k.TD_STATE, k.INFO)
           /\ call[a].at # "none" => a # Idle
           /\ call[a].at # "drained" => call[a].w = NULL
           /\ call[a].at \notin {"drain", "drained", "ceiling"} => RunningOK(k)
           /\ IsReady(k, a) /\ k.TD_STATE[a] = "READY"
<1>1. call[a] \in Calls /\ CallOK(a, call[a], mutex, k.TD_STATE, k.INFO)
  BY DEF Inv, TypeOK
<1> QED
  BY <1>1, Active, SMTT(30) DEF CallOK, NoCall, Inv, Scheduled

\* A task in no call.
LEMMA FreeTask ==
    ASSUME Inv, NEW a \in Task, a = k.ACTIVE_PTR, Free(a)
    PROVE  /\ a # Idle /\ call[a] = NoCall /\ call[a].w = NULL /\ RunningOK(k)
           /\ IsReady(k, a) /\ CallOK(a, NoCall, mutex, k.TD_STATE, k.INFO)
BY Going DEF Free, NoCall

(***************************************************************************)
(* What tasks do outside mutex calls, and the timer interrupt.              *)
(***************************************************************************)
\* A step that is no part of a mutex call.
LEMMA OutsideInv ==
    ASSUME Inv, UNCHANGED <<call, held>>, LocksSame,
           Orderly(k', Taken), Same(k, k'), RunningOK(k')
    PROVE  Inv'
<1>1. PICK a \in Task : a = k.ACTIVE_PTR
  BY Active
<1>2. call \in [Task -> Calls] /\ held \in [Task -> SUBSET Mutex]
  BY DEF Inv, TypeOK
<1>3. PICK c \in Calls : c = call[a]
  BY <1>2
<1>4. PICK H \in SUBSET Mutex : H = held[a]
  BY <1>2
<1>5. /\ held' = [held EXCEPT ![a] = H] /\ call' = [call EXCEPT ![a] = c]
      /\ c.w = call[a].w
  BY <1>2, <1>3, <1>4
<1>6. /\ Changes(a, call, mutex, mutex') /\ mutex' \in [Mutex -> MutexStruct]
      /\ \A m \in Mutex : OwnerOK(mutex'[m])
  BY LocksKept
<1>7. CallOK(a, c, mutex', k.TD_STATE, k.INFO)
  <2>1. CallOK(a, c, mutex, k.TD_STATE, k.INFO)
    BY <1>1, <1>3, Going
  <2> QED
    BY <2>1, SameCall DEF LocksSame
<1>8. c.at = "own" => \A u \in Task \ {a} : call[u].at = "own" => call[u].m # c.m
  BY <1>3 DEF Inv, OneTaker
<1>9. \A m \in H : mutex'[m].VALID /\ mutex'[m].OWNER_TD = a
  BY <1>2, <1>4 DEF Inv, HeldOK, LocksSame, SameLock
<1> QED
  BY <1>1, <1>2, <1>5, <1>6, <1>7, <1>8, <1>9, QuietInv

\* _time_delay_ticks
LEMMA DelayInv ==
    ASSUME Inv, NEW n \in 1 .. MaxDelay, time_delay_ticks(n)
    PROVE  Inv'
<1>1. PICK a \in Task : a = k.ACTIVE_PTR
  BY Active
<1>2. Free(a) /\ k' = time_delay_internal(k, a, n) /\ UNCHANGED <<mutex, call, held>>
  BY <1>1 DEF time_delay_ticks, td
<1>3. a # Idle /\ IsReady(k, a) /\ n \in Int /\ Orderly(k, Taken)
  BY <1>1, <1>2, FreeTask, SameKernel
<1>4. Orderly(k', Taken) /\ Same(k, k') /\ RunningOK(k')
  BY <1>2, <1>3, DelayOrder
<1> QED
  BY <1>2, <1>4, OutsideInv, UnchangedKept

\* _task_set_priority
LEMMA SetPriorityStep ==
    ASSUME Inv, NEW t \in Task, NEW p \in NewPriorities, task_set_priority(t, p)
    PROVE  Inv'
<1>1. t # Idle /\ k' = TaskSetPriority(k, t, p) /\ UNCHANGED <<mutex, call, held>>
  BY DEF task_set_priority
<1>2. p \in Priority /\ Orderly(k, Taken)
  BY MutexAssumption, KernelAssumption, SameKernel DEF Priority, IDLE_PRIORITY
<1>3. Orderly(k', Taken) /\ Same(k, k') /\ RunningOK(k')
  BY <1>1, <1>2, PriorityOrder
<1> QED
  BY <1>1, <1>3, OutsideInv, UnchangedKept

\* The timer interrupt.
LEMMA TickStep ==
    ASSUME Inv, Tick
    PROVE  Inv'
<1>1. k' = IsrReturn(time_notify_kernel(k)) /\ UNCHANGED <<mutex, call, held>>
  BY DEF Tick
<1>2. Orderly(k', Taken) /\ Same(k, k') /\ RunningOK(k')
  BY <1>1, SameKernel, TickOrder
<1> QED
  BY <1>1, <1>2, OutsideInv, UnchangedKept

\* _mutex_set_priority_ceiling
LEMMA CeilingInv ==
    ASSUME Inv, NEW m \in Mutex, NEW pc \in Ceilings, mutex_set_priority_ceiling(m, pc)
    PROVE  Inv'
<1> DEFINE M == [mutex[m] EXCEPT !.PRIORITY_CEILING = pc]
<1>1. PICK a \in Task : a = k.ACTIVE_PTR
  BY Active
<1>2. /\ Free(a) /\ UNCHANGED <<k, call, held>>
      /\ mutex' = [mutex EXCEPT ![m].PRIORITY_CEILING = pc]
  BY <1>1 DEF mutex_set_priority_ceiling, td
<1>3. mutex[m] \in MutexStruct /\ pc \in Priority
  BY MutexAssumption, KernelAssumption DEF Inv, TypeOK, Priority, IDLE_PRIORITY
<1>4. M \in MutexStruct /\ SameLock(mutex[m], M)
  BY <1>3 DEF MutexStruct, SameLock
<1>5. mutex' = [mutex EXCEPT ![m] = M]
  BY <1>2
<1> HIDE DEF M
<1>6. LocksSame
  BY <1>4, <1>5, UpdateKept
<1>7. Orderly(k', Taken) /\ Same(k, k') /\ RunningOK(k')
  BY <1>1, <1>2, FreeTask, SameKernel
<1> QED
  BY <1>2, <1>6, <1>7, OutsideInv

(***************************************************************************)
(* _mutex_lock, up to the point where the mutex is taken.                   *)
(***************************************************************************)
\* A call from its checks to its first step.
LEMMA EnterInv ==
    ASSUME Inv, NEW m \in Mutex, NEW op \in {"lock", "destroy"}, Free(td), LockEnter(m, op)
    PROVE  Inv'
<1>1. PICK a \in Task : a = k.ACTIVE_PTR
  BY Active
<1>2. PICK at \in {"spin", "lock"}, n \in Nat :
        /\ mutex[m].VALID
        /\ call' = [call EXCEPT ![a] = [op |-> op, m |-> m, priority |-> k.MY_QUEUE[a],
                                        b |-> 0, w |-> NULL, at |-> at, n |-> n]]
        /\ UNCHANGED <<k, mutex, held>>
  BY <1>1, MutexAssumption DEF LockEnter, td
<1> DEFINE c == [op |-> op, m |-> m, priority |-> k.MY_QUEUE[a],
                 b |-> 0, w |-> NULL, at |-> at, n |-> n]
<1>3. k.MY_QUEUE[a] \in Priority
  BY KernelFields DEF Inv, TypeOK
<1>4. c \in Calls
  BY <1>3 DEF Calls
<1>5. /\ a # Idle /\ call[a].w = NULL /\ RunningOK(k) /\ k.TD_STATE[a] = "READY"
  BY <1>1, FreeTask, Going DEF td
<1>6. CallOK(a, c, mutex, k.TD_STATE, k.INFO)
  BY <1>2, <1>5 DEF CallOK
<1>7. c.w = call[a].w /\ c.at # "own" /\ call' = [call EXCEPT ![a] = c]
  BY <1>2, <1>5
<1> HIDE DEF c
<1>8. Orderly(k', Taken) /\ Same(k, k') /\ RunningOK(k') /\ UNCHANGED held /\ LocksSame
  BY <1>2, <1>5, SameKernel, UnchangedKept
<1> QED
  BY <1>1, <1>4, <1>6, <1>7, <1>8, CallInv

\* The owner of a mutex inherits a priority, and the call goes on.
LEMMA BoostOwnerInv ==
    ASSUME Inv, NEW m \in Mutex, NEW at \in {"enqueue", "boosted"}, BoostOwner(m, at),
           call[td].at \in {"lock", "spin", "yielded"}, call[td].m = m,
           at = "boosted" => call[td].n > 0, UNCHANGED <<mutex, held>>
    PROVE  Inv'
<1>1. PICK a \in Task : a = k.ACTIVE_PTR
  BY Active
<1>2. PICK p \in Priority : p = call[a].priority
  BY <1>1, Going, Fields
<1>3. PICK b \in {0, 1} :
        /\ call' = [call EXCEPT ![a].at = at, ![a].b = b]
        /\ k' = IF Raises(m, p) THEN sched_boost_priority_internal(k, mutex[m].OWNER_TD, p)
                ELSE k
  BY <1>1, <1>2 DEF BoostOwner, td
<1> DEFINE c == [call[a] EXCEPT !.at = at, !.b = b]
<1>4. /\ call[a] \in Calls /\ CallOK(a, call[a], mutex, k.TD_STATE, k.INFO) /\ a # Idle
      /\ call[a].w = NULL /\ RunningOK(k) /\ k.TD_STATE[a] = "READY"
  BY <1>1, Going DEF td
<1>5. /\ c \in Calls /\ c.op = call[a].op /\ c.m = m /\ c.n = call[a].n /\ c.w = call[a].w
      /\ c.at = at
  BY <1>1, <1>4, ZenonT(30) DEF Calls, td
<1>6. call' = [call EXCEPT ![a] = c]
  BY <1>3 DEF Inv, TypeOK
<1> HIDE DEF c
<1>7. CallOK(a, c, mutex, k.TD_STATE, k.INFO)
  BY <1>1, <1>4, <1>5 DEF CallOK, td
<1>8. Orderly(k', Taken) /\ Same(k, k') /\ RunningOK(k')
  <2>1. CASE Raises(m, p)
    <3>1. mutex[m].OWNER_TD # NULL
      BY <2>1 DEF Raises, CountsAsBoost
    <3>2. PICK o \in Task : o = mutex[m].OWNER_TD /\ o # Idle
      BY <3>1, Fields DEF Inv, TypeOK, OwnerOK
    <3>3. k' = sched_boost_priority_internal(k, o, p)
      BY <1>3, <2>1, <3>2
    <3> QED
      BY <3>2, <3>3, SameKernel, BoostOrder
  <2>2. CASE ~Raises(m, p)
    BY <1>3, <1>4, <2>2, SameKernel
  <2> QED
    BY <2>1, <2>2
<1>9. LocksSame /\ UNCHANGED held /\ c.at # "own"
  BY <1>5, UnchangedKept
<1> QED
  BY <1>1, <1>5, <1>6, <1>7, <1>8, <1>9, CallInv

\* A call is over, but for taking back boosts.
Leaving(c) == c \in Calls /\ c.m = NULL /\ c.w = NULL /\ c.at \in {"none", "unboost"}

\* Such a call refers to no mutex.
LEMMA LeavingOK ==
    ASSUME NEW c, Leaving(c), NEW a \in Task \ {Idle}, NEW mx, NEW D, D[a] = "READY", NEW I
    PROVE  CallOK(a, c, mx, D, I)
BY NullIs DEF Leaving, CallOK

\* Where a call ends.
LEMMA EndCall ==
    /\ Leaving(NoCall)
    /\ \A n \in Nat : Leaving(IF n = 0 THEN NoCall
                              ELSE [NoCall EXCEPT !.op = "unlock", !.at = "unboost", !.n = n])
BY NullIs DEF Leaving, NoCall, Calls

\* The call of the active task is over.
LEMMA LeaveInv ==
    ASSUME Inv, NEW a \in Task, a = k.ACTIVE_PTR, a # Idle, call[a].at # "drained",
           NEW c, Leaving(c), call' = [call EXCEPT ![a] = c],
           UNCHANGED held, LocksSame,
           Orderly(k', Taken), Same(k, k'), RunningOK(k')
    PROVE  Inv'
<1>1. call[a].w = NULL /\ k.TD_STATE[a] = "READY"
  BY Going
<1>2. c \in Calls /\ c.w = call[a].w /\ c.at # "own"
  BY <1>1 DEF Leaving
<1>3. CallOK(a, c, mutex, k.TD_STATE, k.INFO)
  BY <1>1, LeavingOK
<1> QED
  BY <1>2, <1>3, CallInv

\* A call returns an error, and nothing else happens.
LEMMA FailInv ==
    ASSUME Inv, call[td].at \notin {"none", "drain", "drained", "ceiling"},
           Fail, UNCHANGED <<k, mutex>>
    PROVE  Inv'
<1>1. PICK a \in Task : a = k.ACTIVE_PTR
  BY Active
<1>2. call' = [call EXCEPT ![a] = NoCall] /\ UNCHANGED held
  BY <1>1 DEF Fail, td
<1>3. a # Idle /\ call[a].at # "drained" /\ RunningOK(k)
  BY <1>1, Going DEF td
<1>4. Orderly(k', Taken) /\ Same(k, k') /\ RunningOK(k') /\ LocksSame
  BY <1>3, SameKernel, UnchangedKept
<1> QED
  BY <1>1, <1>2, <1>3, <1>4, EndCall, LeaveInv

\* A spinning task gives up.
LEMMA SpinFailsInv ==
    ASSUME Inv, NEW m \in Mutex, SpinFails(m)
    PROVE  Inv'
<1>1. call[td].at \in {"spin", "yielded"} /\ Fail /\ UNCHANGED <<k, mutex>>
  BY DEF SpinFails, GoOn
<1> QED
  BY <1>1, FailInv

\* It counts the boost it has caused.
LEMMA SpinBoostedInv ==
    ASSUME Inv, NEW m \in Mutex, SpinBoosted(m)
    PROVE  Inv'
<1>1. PICK a \in Task : a = k.ACTIVE_PTR
  BY Active
<1>2. /\ call[a].at = "boosted" /\ call' = [call EXCEPT ![a].at = "yield", ![a].b = 0]
      /\ mutex' = [mutex EXCEPT ![m].BOOSTED = @ + call[a].b]
      /\ UNCHANGED <<k, held>>
  BY <1>1 DEF SpinBoosted, GoOn, td
<1> DEFINE c == [call[a] EXCEPT !.at = "yield", !.b = 0]
<1>3. /\ call[a] \in Calls /\ CallOK(a, call[a], mutex, k.TD_STATE, k.INFO) /\ a # Idle
      /\ RunningOK(k) /\ k.TD_STATE[a] = "READY"
  BY <1>1, <1>2, Going
<1>4. c \in Calls /\ c.m = call[a].m /\ c.n = call[a].n /\ c.w = call[a].w /\ c.at = "yield"
  BY <1>3 DEF Calls
<1>5. call' = [call EXCEPT ![a] = c]
  BY <1>2 DEF Inv, TypeOK
<1> HIDE DEF c
<1>6. CallOK(a, c, mutex, k.TD_STATE, k.INFO)
  BY <1>2, <1>3, <1>4 DEF CallOK
<1>7. PICK n \in Nat : n = mutex[m].BOOSTED + call[a].b
  BY <1>3, Fields DEF Inv, TypeOK
<1>8. mutex' = [mutex EXCEPT ![m].BOOSTED = n]
  BY <1>2, <1>7 DEF Inv, TypeOK
<1>9. LocksSame /\ UNCHANGED held /\ c.at # "own"
  BY <1>2, <1>4, <1>8, BoostedKept
<1>10. Orderly(k', Taken) /\ Same(k, k') /\ RunningOK(k')
  BY <1>2, <1>3, SameKernel
<1> QED
  BY <1>1, <1>4, <1>5, <1>6, <1>9, <1>10, CallInv

\* It gives up the processor.
LEMMA SpinYieldsInv ==
    ASSUME Inv, NEW m \in Mutex, SpinYields(m)
    PROVE  Inv'
<1>1. PICK a \in Task : a = k.ACTIVE_PTR
  BY Active
<1>2. /\ call[a].at = "yield" /\ k' = SchedYield(k) /\ UNCHANGED <<mutex, held>>
      /\ call' = [call EXCEPT ![a].at = "yielded",
                              ![a].n = IF m \in SPIN_ONLY THEN @ ELSE @ - 1]
  BY <1>1 DEF SpinYields, GoOn, td
<1>3. /\ call[a] \in Calls /\ CallOK(a, call[a], mutex, k.TD_STATE, k.INFO) /\ a # Idle
      /\ k.TD_STATE[a] = "READY"
  BY <1>1, <1>2, Going
<1>4. PICK n \in Nat : n = IF m \in SPIN_ONLY THEN call[a].n ELSE call[a].n - 1
  BY <1>2, <1>3, Fields DEF CallOK
<1> DEFINE c == [call[a] EXCEPT !.at = "yielded", !.n = n]
<1>5. c \in Calls /\ c.m = call[a].m /\ c.w = call[a].w /\ c.at = "yielded"
  BY <1>3 DEF Calls
<1>6. call' = [call EXCEPT ![a] = c]
  BY <1>2, <1>4 DEF Inv, TypeOK
<1> HIDE DEF c
<1>7. CallOK(a, c, mutex, k.TD_STATE, k.INFO)
  BY <1>2, <1>3, <1>5 DEF CallOK
<1>8. LocksSame /\ UNCHANGED held /\ c.at # "own"
  BY <1>2, <1>5, UnchangedKept
<1>9. Orderly(k', Taken) /\ Same(k, k') /\ RunningOK(k')
  BY <1>2, SameKernel, YieldOrder
<1> QED
  BY <1>1, <1>5, <1>6, <1>7, <1>8, <1>9, CallInv

(***************************************************************************)
(* Taking the mutex.                                                        *)
(***************************************************************************)
\* The mutexes mx are as those of the state, but for m, which task a owns.
TakenBy(a, m, mx) ==
    /\ mx \in [Mutex -> MutexStruct] /\ mx[m].VALID /\ mx[m].OWNER_TD = a
    /\ Changes(a, call, mutex, mx)
    /\ \A o \in Mutex : OwnerOK(mx[o])
    /\ \A o \in Mutex \ {m} : SameLock(mutex[o], mx[o])

\* A step that lets the active task have the mutex: it goes on with the ceiling, returns to
\* the application, or goes on in _mutex_destroy.
LEMMA GotInv ==
    ASSUME Inv, NEW m \in Mutex, call[td].m = m, call[td].at \notin {"none", "drained"},
           NEW mx, TakenBy(td, m, mx),
           mutex' \in [Mutex -> MutexStruct], \A o \in Mutex : SameLock(mx[o], mutex'[o]),
           Orderly(k', Taken), Same(k, k'), RunningOK(k'),
           (Goto("protect") /\ UNCHANGED held) \/ Locked(m)
    PROVE  Inv'
<1>1. PICK a \in Task : a = k.ACTIVE_PTR
  BY Active
<1>2. /\ call[a] \in Calls /\ CallOK(a, call[a], mutex, k.TD_STATE, k.INFO) /\ a # Idle
      /\ call[a].w = NULL /\ k.TD_STATE[a] = "READY" /\ call[a].m = m
  BY <1>1, Going DEF td
<1>3. call \in [Task -> Calls] /\ held \in [Task -> SUBSET Mutex]
  BY DEF Inv, TypeOK
<1>4. PICK c \in Calls, H \in SUBSET Mutex :
        /\ call' = [call EXCEPT ![a] = c] /\ held' = [held EXCEPT ![a] = H]
        /\ c.w = NULL /\ H \subseteq held[a] \cup {m}
        /\ Leaving(c) \/ (c.m = m /\ c.at \in {"protect", "destroy"})
  <2>1. ASSUME NEW at \in {"protect", "destroy"}, Goto(at) /\ UNCHANGED held
        PROVE  \E c \in Calls, H \in SUBSET Mutex :
                 /\ call' = [call EXCEPT ![a] = c] /\ held' = [held EXCEPT ![a] = H]
                 /\ c.w = NULL /\ H \subseteq held[a] \cup {m}
                 /\ Leaving(c) \/ (c.m = m /\ c.at \in {"protect", "destroy"})
    <3> DEFINE c == [call[a] EXCEPT !.at = at]
    <3>1. c \in Calls /\ c.m = m /\ c.w = NULL /\ c.at = at
      BY <1>2 DEF Calls
    <3>2. call' = [call EXCEPT ![a] = c]
      BY <1>1, <1>3, <2>1 DEF Goto, td
    <3>3. held' = [held EXCEPT ![a] = held[a]] /\ held[a] \in SUBSET Mutex
      BY <1>3, <2>1
    <3> HIDE DEF c
    <3> QED
      BY <3>1, <3>2, <3>3
  <2>2. CASE call' = [call EXCEPT ![a] = NoCall] /\ held' = [held EXCEPT ![a] = @ \cup {m}]
    <3>1. held' = [held EXCEPT ![a] = held[a] \cup {m}] /\ held[a] \cup {m} \in SUBSET Mutex
      BY <1>3, <2>2
    <3> QED
      BY <2>2, <3>1, EndCall DEF Leaving
  <2> QED
    BY <1>1, <2>1, <2>2 DEF Locked, td
<1>5. TakenBy(a, m, mx)
  BY <1>1 DEF td
<1>6. Changes(a, call, mutex, mutex') /\ \A o \in Mutex : OwnerOK(mutex'[o])
  BY <1>5 DEF TakenBy, Changes, SameLock, OwnerOK
<1>7. mutex'[m].VALID /\ mutex'[m].OWNER_TD = a
  BY <1>5 DEF TakenBy, SameLock
<1>8. CallOK(a, c, mutex', k.TD_STATE, k.INFO)
  <2>1. CASE Leaving(c)
    BY <1>2, <2>1, LeavingOK
  <2>2. CASE c.m = m /\ c.at \in {"protect", "destroy"}
    BY <1>2, <1>4, <1>7, <2>2 DEF CallOK
  <2> QED
    BY <1>4, <2>1, <2>2
<1>9. ASSUME NEW o \in H
      PROVE  mutex'[o].VALID /\ mutex'[o].OWNER_TD = a
  <2>1. CASE o = m
    BY <1>7, <2>1
  <2>2. CASE o # m
    <3>1. o \in held[a] /\ o \in Mutex
      BY <1>3, <1>4, <2>2
    <3>2. mutex[o].VALID /\ mutex[o].OWNER_TD = a
      BY <3>1 DEF Inv, HeldOK
    <3> QED
      BY <1>5, <2>2, <3>1, <3>2 DEF TakenBy, SameLock
  <2> QED
    BY <2>1, <2>2
<1>10. c.w = call[a].w /\ c.at # "own"
  BY <1>2, <1>4 DEF Leaving
<1> QED
  BY <1>1, <1>4, <1>6, <1>8, <1>9, <1>10, QuietInv

\* _sched_get_max_priority_on_q_internal finds a priority, or says that nobody waits.
LEMMA MaxPriority ==
    ASSUME Inv, NEW m \in Mutex
    PROVE  sched_get_max_priority_on_q_internal(k.QUEUE[m]) \in Nat
<1>1. /\ k.QUEUE[m] \in Seq(Task) /\ k.MY_QUEUE \in [Task -> Priority]
  BY KernelFields DEF Inv, TypeOK, Mutex
<1> DEFINE q == k.QUEUE[m]
           S == {k.MY_QUEUE[t] : t \in Elems(q)}
<1>2. Elems(q) \subseteq Task /\ (q # <<>> => Elems(q) # {})
  BY <1>1, EmptyQueue
<1>3. S \in SUBSET Nat
  BY <1>1, <1>2, Priorities DEF Priority
<1>4. CASE q = <<>>
  BY <1>4, Priorities DEF sched_get_max_priority_on_q_internal
<1>5. CASE q # <<>>
  <2>1. S # {}
    BY <1>2, <1>5
  <2>2. \E n \in S : \A r \in S : n <= r
    BY <1>3, <2>1, LeastNatural
  <2>3. \E p \in S : \A t \in Elems(q) : p <= k.MY_QUEUE[t]
    BY <2>2
  <2>4. sched_get_max_priority_on_q_internal(q)
          = CHOOSE p \in S : \A t \in Elems(q) : p <= k.MY_QUEUE[t]
    BY <1>5 DEF sched_get_max_priority_on_q_internal
  <2> HIDE DEF S
  <2>5. sched_get_max_priority_on_q_internal(q) \in S
    BY <2>3, <2>4
  <2> QED
    BY <1>3, <2>5
<1> QED
  BY <1>4, <1>5

\* The new owner is boosted.
LEMMA OwnerBoosted ==
    ASSUME Inv, td # Idle, RunningOK(k), NEW m \in Mutex, NEW mx \in [Mutex -> MutexStruct],
           NEW p \in Nat, OwnerBoost(m, mx, p)
    PROVE  /\ mutex' \in [Mutex -> MutexStruct] /\ \A o \in Mutex : SameLock(mx[o], mutex'[o])
           /\ Orderly(k', Taken) /\ Same(k, k') /\ RunningOK(k')
<1>1. PICK a \in Task : a = k.ACTIVE_PTR
  BY Active
<1>2. /\ k' = (IF p < k.HOME_QUEUE[a] /\ p < k.MY_QUEUE[a]
               THEN sched_boost_priority_internal(k, a, p) ELSE k)
      /\ mutex' = [mx EXCEPT ![m].BOOSTED = IF p < k.HOME_QUEUE[a] THEN @ + 1 ELSE @]
  BY <1>1 DEF OwnerBoost, td
<1>3. k.HOME_QUEUE[a] \in Priority /\ a # Idle
  BY <1>1, KernelFields DEF Inv, TypeOK, td
<1>4. Orderly(k', Taken) /\ Same(k, k') /\ RunningOK(k')
  <2>1. CASE p < k.HOME_QUEUE[a] /\ p < k.MY_QUEUE[a]
    <3>1. p \in Priority
      BY <1>3, <2>1, Priorities DEF Priority
    <3>2. k' = sched_boost_priority_internal(k, a, p)
      BY <1>2, <2>1
    <3> QED
      BY <1>3, <3>1, <3>2, SameKernel, BoostOrder
  <2>2. CASE ~(p < k.HOME_QUEUE[a] /\ p < k.MY_QUEUE[a])
    BY <1>2, <2>2, SameKernel
  <2> QED
    BY <2>1, <2>2
<1>5. PICK n \in Nat : n = IF p < k.HOME_QUEUE[a] THEN mx[m].BOOSTED + 1 ELSE mx[m].BOOSTED
  BY Fields
<1> DEFINE M == [mx[m] EXCEPT !.BOOSTED = n]
<1>6. M \in MutexStruct /\ SameLock(mx[m], M)
  BY DEF MutexStruct, SameLock
<1>7. mutex' = [mx EXCEPT ![m] = M]
  BY <1>2, <1>5
<1> HIDE DEF M
<1>8. mutex' \in [Mutex -> MutexStruct] /\ \A o \in Mutex : SameLock(mx[o], mutex'[o])
  BY <1>6, <1>7 DEF SameLock
<1> QED
  BY <1>4, <1>8

\* The active task has got the mutex in _mutex_lock.
LEMMA GotMutexInv ==
    ASSUME Inv, NEW m \in Mutex, call[td].m = m,
           call[td].at \notin {"none", "drain", "drained", "ceiling"},
           NEW mx, TakenBy(td, m, mx), GotMutex(m, mx)
    PROVE  Inv'
<1>1. PICK a \in Task : a = k.ACTIVE_PTR
  BY Active
<1>2. td # Idle /\ RunningOK(k) /\ mx \in [Mutex -> MutexStruct]
  BY <1>1, Going DEF td, TakenBy
<1>3. /\ mutex' \in [Mutex -> MutexStruct] /\ \A o \in Mutex : SameLock(mx[o], mutex'[o])
      /\ Orderly(k', Taken) /\ Same(k, k') /\ RunningOK(k')
  <2>1. CASE m \in PRIO_INHERIT \ PRIORITY_QUEUEING
    <3>1. PICK p \in Nat : p = sched_get_max_priority_on_q_internal(k.QUEUE[m])
      BY MaxPriority
    <3>2. OwnerBoost(m, mx, p)
      BY <2>1, <3>1 DEF GotMutex
    <3> QED
      BY <1>2, <3>2, OwnerBoosted
  <2>2. CASE m \notin PRIO_INHERIT \ PRIORITY_QUEUEING
    <3>1. mutex' = mx /\ UNCHANGED k
      BY <2>2 DEF GotMutex
    <3> QED
      BY <1>2, <3>1, SameKernel DEF SameLock
  <2> QED
    BY <2>1, <2>2
<1>4. (Goto("protect") /\ UNCHANGED held) \/ Locked(m)
  BY DEF GotMutex
<1> QED
  BY <1>3, <1>4, GotInv

\* A mutex that is nobody's becomes the active task's.
LEMMA TakesIt ==
    ASSUME Inv, NEW a \in Task, a # Idle, NEW m \in Mutex,
           mutex[m].VALID, mutex[m].OWNER_TD = NULL,
           \A u \in Task \ {a} : call[u].m = m => call[u].at # "own",
           NEW M \in MutexStruct, M.VALID, M.LOCK, M.OWNER_TD = a
    PROVE  TakenBy(a, m, [mutex EXCEPT ![m] = M])
<1> DEFINE mx == [mutex EXCEPT ![m] = M]
<1>1. mutex \in [Mutex -> MutexStruct]
  BY DEF Inv, TypeOK
<1>2. mx \in [Mutex -> MutexStruct] /\ mx[m] = M /\ \A o \in Mutex \ {m} : mx[o] = mutex[o]
  BY <1>1
<1> HIDE DEF mx
<1>3. \A o \in Mutex \ {m} : SameLock(mutex[o], mx[o])
  BY <1>2 DEF SameLock
<1>4. \A o \in Mutex : OwnerOK(mx[o])
  BY <1>2 DEF OwnerOK, Inv
<1>5. Changes(a, call, mutex, mx)
  BY <1>2, <1>3 DEF Changes
<1> QED
  BY <1>2, <1>3, <1>4, <1>5 DEF TakenBy, mx

\* The mutex that the active task's call is about is free.
LEMMA FreeMutex ==
    ASSUME Inv, NEW m \in Mutex, ~mutex[m].LOCK
    PROVE  /\ mutex[m].OWNER_TD = NULL
           /\ \A u \in Task : call[u].m = m => mutex[m].VALID /\ call[u].at # "own"
<1>1. mutex[m].OWNER_TD = NULL
  BY DEF Inv, OwnerOK
<1>2. ASSUME NEW u \in Task, call[u].m = m
      PROVE  mutex[m].VALID /\ call[u].at # "own"
  BY <1>1, <1>2 DEF Inv, CallOK
<1> QED
  BY <1>1, <1>2

\* The mutex is free and is taken.
LEMMA LockFreeInv ==
    ASSUME Inv, NEW m \in Mutex, LockFree(m)
    PROVE  Inv'
<1>1. PICK a \in Task : a = k.ACTIVE_PTR
  BY Active
<1> DEFINE M == [mutex[m] EXCEPT !.LOCK = TRUE, !.OWNER_TD = a]
           mx == [mutex EXCEPT ![m].LOCK = TRUE, ![m].OWNER_TD = a]
<1>2. /\ call[a].at = "lock" /\ call[a].m = m /\ ~mutex[m].LOCK /\ GotMutex(m, mx)
  BY <1>1 DEF LockFree, GoOn, td
<1>3. /\ mutex[m].VALID /\ mutex[m].OWNER_TD = NULL /\ a # Idle
      /\ \A u \in Task \ {a} : call[u].m = m => call[u].at # "own"
  BY <1>1, <1>2, FreeMutex, Going
<1>4. mutex[m] \in MutexStruct /\ mutex \in [Mutex -> MutexStruct]
  BY DEF Inv, TypeOK
<1>5. M \in MutexStruct /\ M.VALID /\ M.LOCK /\ M.OWNER_TD = a
  BY <1>3, <1>4 DEF MutexStruct
<1>6. mx = [mutex EXCEPT ![m] = M]
  BY <1>4
<1> HIDE DEF M, mx
<1>7. TakenBy(a, m, mx)
  BY <1>3, <1>5, <1>6, TakesIt
<1> QED
  BY <1>1, <1>2, <1>7, GotMutexInv DEF td

\* The mutex is locked: the owner inherits the priority.
LEMMA LockBusyInv ==
    ASSUME Inv, NEW m \in Mutex, LockBusy(m)
    PROVE  Inv'
<1>1. /\ call[td].at = "lock" /\ call[td].m = m /\ BoostOwner(m, "enqueue")
      /\ UNCHANGED <<mutex, held>>
  BY DEF LockBusy, GoOn
<1> QED
  BY <1>1, BoostOwnerInv

\* A spinning task finds the mutex locked, or sets LOCK.
LEMMA SpinTriesInv ==
    ASSUME Inv, NEW m \in Mutex, SpinTries(m)
    PROVE  Inv'
<1>1. call[td].at \in {"spin", "yielded"} /\ call[td].m = m /\ call[td].n > 0
  BY DEF SpinTries, GoOn
<1>2. CASE mutex[m].LOCK
  <2>1. BoostOwner(m, "boosted") /\ UNCHANGED <<mutex, held>>
    BY <1>2 DEF SpinTries
  <2> QED
    BY <1>1, <2>1, BoostOwnerInv
<1>3. CASE ~mutex[m].LOCK
  <2>1. PICK a \in Task : a = k.ACTIVE_PTR
    BY Active
  <2> DEFINE M == [mutex[m] EXCEPT !.LOCK = TRUE]
             c == [call[a] EXCEPT !.at = "own"]
  <2>2. /\ mutex' = [mutex EXCEPT ![m].LOCK = TRUE] /\ UNCHANGED <<k, held>>
        /\ call' = [call EXCEPT ![a].at = "own"]
    BY <1>3, <2>1 DEF SpinTries, Goto, td
  <2>3. /\ call[a] \in Calls /\ a # Idle /\ call[a].w = NULL /\ RunningOK(k)
        /\ k.TD_STATE[a] = "READY" /\ call[a].m = m
    BY <1>1, <2>1, Going DEF td
  <2>4. /\ mutex[m].OWNER_TD = NULL /\ mutex[m].VALID
        /\ \A u \in Task \ {a} : call[u].m = m => call[u].at # "own"
    BY <1>3, <2>3, FreeMutex
  <2>5. /\ mutex[m] \in MutexStruct /\ mutex \in [Mutex -> MutexStruct]
        /\ call \in [Task -> Calls] /\ held \in [Task -> SUBSET Mutex]
    BY DEF Inv, TypeOK
  <2>6. M \in MutexStruct /\ M.VALID /\ M.LOCK /\ M.OWNER_TD = NULL
    BY <2>4, <2>5 DEF MutexStruct
  <2>7. c \in Calls /\ c.m = m /\ c.w = NULL /\ c.at = "own"
    BY <2>3 DEF Calls
  <2>8. mutex' = [mutex EXCEPT ![m] = M] /\ call' = [call EXCEPT ![a] = c]
    BY <2>2, <2>5
  <2> HIDE DEF M, c
  <2>9. /\ mutex' \in [Mutex -> MutexStruct] /\ mutex'[m] = M
        /\ \A o \in Mutex \ {m} : mutex'[o] = mutex[o]
    BY <2>5, <2>6, <2>8
  <2>10. Changes(a, call, mutex, mutex')
    BY <2>4, <2>6, <2>9 DEF Changes, SameLock
  <2>11. \A o \in Mutex : OwnerOK(mutex'[o])
    BY <2>6, <2>9 DEF OwnerOK, Inv
  <2>12. CallOK(a, c, mutex', k.TD_STATE, k.INFO)
    BY <2>3, <2>6, <2>7, <2>9 DEF CallOK
  <2>13. PICK H \in SUBSET Mutex : H = held[a]
    BY <2>5
  <2>14. held' = [held EXCEPT ![a] = H]
    BY <2>2, <2>5, <2>13
  <2>15. ASSUME NEW o \in H
         PROVE  mutex'[o].VALID /\ mutex'[o].OWNER_TD = a
    <3>1. o \in Mutex /\ mutex[o].VALID /\ mutex[o].OWNER_TD = a
      BY <2>13 DEF Inv, HeldOK
    <3>2. o # m
      BY <2>4, <3>1, NullIs
    <3> QED
      BY <2>9, <3>1, <3>2
  <2>16. Orderly(k', Taken) /\ Same(k, k') /\ RunningOK(k')
    BY <2>2, <2>3, SameKernel
  <2>17. c.w = call[a].w /\ \A u \in Task \ {a} : call[u].at = "own" => call[u].m # c.m
    BY <2>3, <2>4, <2>7
  <2> QED
    BY <2>1, <2>7, <2>8, <2>9, <2>10, <2>11, <2>12, <2>14, <2>15, <2>16, <2>17, QuietInv
<1> QED
  BY <1>2, <1>3

\* The active task owns m already.
LEMMA OwnsIt ==
    ASSUME Inv, NEW a \in Task, NEW m \in Mutex, mutex[m].VALID, mutex[m].OWNER_TD = a
    PROVE  TakenBy(a, m, mutex)
BY DEF TakenBy, Inv, TypeOK, Changes, SameLock

\* Back from the scheduler, the task finds the mutex destroyed or its own.
LEMMA LockResumeInv ==
    ASSUME Inv, NEW m \in Mutex, LockResume(m)
    PROVE  Inv'
<1>1. PICK a \in Task : a = k.ACTIVE_PTR
  BY Active
<1>2. call[a].at = "blocked" /\ call[a].m = m
  BY <1>1 DEF LockResume, GoOn, td
<1>3. CASE mutex[m].VALID
  <2>1. mutex[m].OWNER_TD = a
    BY <1>1, <1>2, <1>3, Going DEF CallOK
  <2>2. TakenBy(a, m, mutex) /\ GotMutex(m, mutex)
    BY <1>3, <2>1, OwnsIt DEF LockResume
  <2> QED
    BY <1>1, <1>2, <2>2, GotMutexInv DEF td
<1>4. CASE ~mutex[m].VALID
  <2>1. Fail /\ UNCHANGED <<k, mutex>>
    BY <1>4 DEF LockResume
  <2> QED
    BY <1>1, <1>2, <2>1, FailInv DEF td
<1> QED
  BY <1>3, <1>4

\* The ceiling is applied.
LEMMA ProtectInv ==
    ASSUME Inv, NEW m \in Mutex, Protect(m)
    PROVE  Inv'
<1>1. PICK a \in Task : a = k.ACTIVE_PTR
  BY Active
<1>2. call[a].at = "protect" /\ call[a].m = m /\ Locked(m)
  BY <1>1 DEF Protect, GoOn, td
<1>3. a # Idle /\ RunningOK(k) /\ mutex[m].VALID /\ mutex[m].OWNER_TD = a
  BY <1>1, <1>2, Going DEF CallOK
<1>4. TakenBy(a, m, mutex) /\ mutex \in [Mutex -> MutexStruct]
  BY <1>3, OwnsIt DEF Inv, TypeOK
<1>5. PICK p \in Nat : p = mutex[m].PRIORITY_CEILING
  BY <1>4, Fields, Priorities DEF Priority
<1>6. OwnerBoost(m, mutex, p)
  BY <1>5 DEF Protect
<1>7. /\ mutex' \in [Mutex -> MutexStruct] /\ \A o \in Mutex : SameLock(mutex[o], mutex'[o])
      /\ Orderly(k', Taken) /\ Same(k, k') /\ RunningOK(k')
  BY <1>1, <1>3, <1>4, <1>6, OwnerBoosted DEF td
<1> QED
  BY <1>1, <1>2, <1>4, <1>7, GotInv DEF td

\* The spinning task that has set LOCK sets OWNER_TD.
LEMMA SpinOwnInv ==
    ASSUME Inv, NEW m \in Mutex, SpinOwn(m)
    PROVE  Inv'
<1>1. PICK a \in Task : a = k.ACTIVE_PTR
  BY Active
<1> DEFINE M == [mutex[m] EXCEPT !.OWNER_TD = a]
<1>2. /\ call[a].at = "own" /\ call[a].m = m /\ UNCHANGED k
      /\ mutex' = [mutex EXCEPT ![m].OWNER_TD = a]
      /\ (Goto("protect") /\ UNCHANGED held) \/ Locked(m)
  BY <1>1 DEF SpinOwn, GoOn, td
<1>3. /\ a # Idle /\ RunningOK(k)
      /\ mutex[m].VALID /\ mutex[m].LOCK /\ mutex[m].OWNER_TD = NULL
  BY <1>1, <1>2, Going DEF CallOK
<1>4. \A u \in Task \ {a} : call[u].m = m => call[u].at # "own"
  BY <1>2 DEF Inv, OneTaker
<1>5. mutex[m] \in MutexStruct /\ mutex \in [Mutex -> MutexStruct]
  BY DEF Inv, TypeOK
<1>6. M \in MutexStruct /\ M.VALID /\ M.LOCK /\ M.OWNER_TD = a
  BY <1>3, <1>5 DEF MutexStruct
<1>7. mutex' = [mutex EXCEPT ![m] = M]
  BY <1>2, <1>5
<1> HIDE DEF M
<1> DEFINE mx == [mutex EXCEPT ![m] = M]
<1>8. TakenBy(a, m, mx)
  BY <1>3, <1>4, <1>6, TakesIt
<1>9. mutex' = mx
  BY <1>7
<1> HIDE DEF mx
<1>10. mutex' \in [Mutex -> MutexStruct] /\ \A o \in Mutex : SameLock(mx[o], mutex'[o])
  BY <1>8, <1>9 DEF TakenBy, SameLock
<1>11. Orderly(k', Taken) /\ Same(k, k') /\ RunningOK(k')
  BY <1>2, <1>3, SameKernel
<1> QED
  BY <1>1, <1>2, <1>8, <1>10, <1>11, GotInv DEF td

\* _mutex_try_lock
LEMMA TryLockInv ==
    ASSUME Inv, NEW m \in Mutex, mutex_try_lock(m)
    PROVE  Inv'
<1>1. PICK a \in Task : a = k.ACTIVE_PTR
  BY Active
<1> DEFINE M == [mutex[m] EXCEPT !.LOCK = TRUE, !.OWNER_TD = a]
           mx == [mutex EXCEPT ![m] = M]
           p == [NoCall EXCEPT !.op = "lock", !.at = "protect", !.m = m]
<1>2. /\ Free(a) /\ mutex[m].VALID /\ ~mutex[m].LOCK /\ UNCHANGED k
      /\ mutex' = [mutex EXCEPT ![m].LOCK = TRUE, ![m].OWNER_TD = a]
      /\ \/ call' = [call EXCEPT ![a] = p] /\ UNCHANGED held
         \/ held' = [held EXCEPT ![a] = @ \cup {m}] /\ UNCHANGED call
  BY <1>1 DEF mutex_try_lock, td
<1>3. /\ a # Idle /\ call[a] = NoCall /\ call[a].w = NULL /\ RunningOK(k)
      /\ CallOK(a, NoCall, mutex, k.TD_STATE, k.INFO) /\ k.TD_STATE[a] = "READY"
  BY <1>1, <1>2, FreeTask, Going
<1>4. /\ mutex[m] \in MutexStruct /\ mutex \in [Mutex -> MutexStruct]
      /\ call \in [Task -> Calls] /\ held \in [Task -> SUBSET Mutex]
  BY DEF Inv, TypeOK
<1>5. /\ mutex[m].OWNER_TD = NULL
      /\ \A u \in Task \ {a} : call[u].m = m => call[u].at # "own"
  BY <1>2, FreeMutex
<1>6. M \in MutexStruct /\ M.VALID /\ M.LOCK /\ M.OWNER_TD = a
  BY <1>2, <1>4 DEF MutexStruct
<1>7. mutex' = mx
  BY <1>2, <1>4
<1>8. p \in Calls /\ p.at = "protect" /\ p.m = m /\ p.w = NULL
  BY NullIs DEF NoCall, Calls
<1> HIDE DEF M, p
<1>9. TakenBy(a, m, mx)
  BY <1>2, <1>3, <1>5, <1>6, TakesIt
<1> HIDE DEF mx
<1>10. PICK c \in Calls, H \in SUBSET Mutex :
         /\ call' = [call EXCEPT ![a] = c] /\ held' = [held EXCEPT ![a] = H]
         /\ c \in {NoCall, p} /\ H \subseteq held[a] \cup {m}
  <2>1. CASE call' = [call EXCEPT ![a] = p] /\ UNCHANGED held
    <3>1. held' = [held EXCEPT ![a] = held[a]] /\ held[a] \in SUBSET Mutex
      BY <1>4, <2>1
    <3> QED
      BY <1>8, <2>1, <3>1
  <2>2. CASE held' = [held EXCEPT ![a] = @ \cup {m}] /\ UNCHANGED call
    <3>1. held' = [held EXCEPT ![a] = held[a] \cup {m}] /\ held[a] \cup {m} \in SUBSET Mutex
      BY <1>4, <2>2
    <3>2. call' = [call EXCEPT ![a] = NoCall] /\ NoCall \in Calls
      BY <1>3, <1>4, <2>2, NullIs
    <3> QED
      BY <3>1, <3>2
  <2> QED
    BY <1>2, <2>1, <2>2
<1>11. /\ mutex' \in [Mutex -> MutexStruct] /\ Changes(a, call, mutex, mutex')
       /\ \A o \in Mutex : OwnerOK(mutex'[o])
       /\ mutex'[m].VALID /\ mutex'[m].OWNER_TD = a
       /\ \A o \in Mutex \ {m} : SameLock(mutex[o], mutex'[o])
  BY <1>7, <1>9 DEF TakenBy
<1>12. CallOK(a, c, mutex', k.TD_STATE, k.INFO)
  <2>1. CASE c = NoCall
    BY <1>3, <2>1, EndCall, LeavingOK
  <2>2. CASE c = p
    BY <1>3, <1>8, <1>11, <2>2 DEF CallOK
  <2> QED
    BY <1>10, <2>1, <2>2
<1>13. c.w = call[a].w /\ c.at # "own"
  BY <1>3, <1>8, <1>10 DEF NoCall
<1>14. ASSUME NEW o \in H
       PROVE  mutex'[o].VALID /\ mutex'[o].OWNER_TD = a
  <2>1. CASE o = m
    BY <1>11, <2>1
  <2>2. CASE o # m
    <3>1. o \in held[a] /\ o \in Mutex
      BY <1>4, <1>10, <2>2
    <3>2. mutex[o].VALID /\ mutex[o].OWNER_TD = a
      BY <3>1 DEF Inv, HeldOK
    <3> QED
      BY <1>11, <2>2, <3>1, <3>2 DEF SameLock
  <2> QED
    BY <2>1, <2>2
<1>15. Orderly(k', Taken) /\ Same(k, k') /\ RunningOK(k')
  BY <1>2, <1>3, SameKernel
<1> QED
  BY <1>1, <1>10, <1>11, <1>12, <1>13, <1>14, <1>15, QuietInv

(***************************************************************************)
(* _mutex_init                                                              *)
(***************************************************************************)
\* No call is about a mutex that does not exist, so nobody waits for it.
LEMMA Unused ==
    ASSUME Inv, NEW m \in Mutex, ~mutex[m].VALID, mutex[m].OWNER_TD = NULL
    PROVE  k.QUEUE[m] = <<>> /\ \A t \in Task : call[t].m # m
<1>1. \A t \in Task : call[t].m # m
  BY DEF Inv, CallOK
<1>2. k.QUEUE[m] \in Seq(Task) /\ m \in Queue
  BY KernelFields DEF Inv, TypeOK, Mutex
<1>3. Elems(k.QUEUE[m]) \subseteq Task
  BY <1>2, EmptyQueue
<1>4. ASSUME NEW t \in Elems(k.QUEUE[m])
      PROVE  FALSE
  <2>1. t \in Task /\ Orderly(k, Taken)
    BY <1>3 DEF Inv
  <2>2. k.TD_STATE[t] \in WaitStates /\ k.INFO[t] = m
    BY <1>2, <2>1 DEF Orderly, WaitQueuesOK, WaitStates
  <2>3. k.TD_STATE[t] = "MUTEX_BLOCKED"
    BY <2>1, <2>2, States DEF Orderly
  <2>4. CallOK(t, call[t], mutex, k.TD_STATE, k.INFO)
    BY <2>1 DEF Inv
  <2> QED
    BY <1>1, <2>1, <2>2, <2>3, <2>4 DEF CallOK
<1> QED
  BY <1>1, <1>2, <1>4, EmptyQueue

\* _mutex_init
LEMMA MutexInitInv ==
    ASSUME Inv, NEW m \in Mutex, NEW protocols \in Protocols, NEW pc \in Ceilings,
           mutex_init(m, protocols, pc)
    PROVE  Inv'
<1>1. PICK a \in Task : a = k.ACTIVE_PTR
  BY Active
<1> DEFINE M == [PROTOCOLS |-> protocols, VALID |-> TRUE, LOCK |-> FALSE, OWNER_TD |-> NULL,
                 BOOSTED |-> 0, PRIORITY_CEILING |-> pc]
<1>2. /\ Free(a) /\ ~mutex[m].VALID /\ mutex[m].OWNER_TD = NULL
      /\ mutex' = [mutex EXCEPT ![m] = M] /\ UNCHANGED <<call, held>>
      /\ k' = [k EXCEPT !.QUEUE[m] = <<>>]
  BY <1>1 DEF mutex_init, td
<1>3. k.QUEUE[m] = <<>> /\ \A t \in Task : call[t].m # m
  BY <1>2, Unused
<1>4. k' = k
  <2>1. k \in Kernel /\ k.QUEUE \in [Queue -> Seq(Task)] /\ m \in Queue
    BY KernelFields DEF Inv, TypeOK, Mutex
  <2>2. [k.QUEUE EXCEPT ![m] = <<>>] = k.QUEUE
    BY <1>3, <2>1
  <2>3. k' = [k EXCEPT !.QUEUE = k.QUEUE]
    BY <1>2, <2>2
  <2> QED
    BY <2>1, <2>3 DEF Kernel
<1>5. /\ a # Idle /\ call[a] = NoCall /\ RunningOK(k) /\ k.TD_STATE[a] = "READY"
  BY <1>1, <1>2, FreeTask, Going
<1>6. /\ mutex[m] \in MutexStruct /\ mutex \in [Mutex -> MutexStruct]
      /\ call \in [Task -> Calls] /\ held \in [Task -> SUBSET Mutex]
  BY DEF Inv, TypeOK
<1>7. M \in MutexStruct /\ M.VALID /\ M.OWNER_TD = NULL
  <2>1. pc \in Priority /\ NULL \in Task \cup {NULL}
    BY MutexAssumption, KernelAssumption DEF Priority, IDLE_PRIORITY
  <2>2. protocols \in SUBSET (SchedProtocols \cup WaitProtocols)
    BY MutexAssumption DEF ValidProtocols
  <2> QED
    BY <2>1, <2>2 DEF MutexStruct
<1> HIDE DEF M
<1>8. /\ mutex' \in [Mutex -> MutexStruct] /\ mutex'[m] = M
      /\ \A o \in Mutex \ {m} : mutex'[o] = mutex[o]
  BY <1>2, <1>6, <1>7
<1>9. Changes(a, call, mutex, mutex') /\ \A o \in Mutex : OwnerOK(mutex'[o])
  BY <1>2, <1>3, <1>7, <1>8 DEF Changes, SameLock, OwnerOK, Inv
<1>10. PICK H \in SUBSET Mutex : H = held[a]
  BY <1>6
<1>11. held' = [held EXCEPT ![a] = H] /\ call' = [call EXCEPT ![a] = NoCall]
  BY <1>2, <1>5, <1>6, <1>10
<1>12. ASSUME NEW o \in H
       PROVE  mutex'[o].VALID /\ mutex'[o].OWNER_TD = a
  <2>1. o \in Mutex /\ mutex[o].VALID /\ mutex[o].OWNER_TD = a
    BY <1>10 DEF Inv, HeldOK
  <2>2. o # m
    BY <1>2, <2>1
  <2> QED
    BY <1>8, <2>1, <2>2
<1>13. CallOK(a, NoCall, mutex', k.TD_STATE, k.INFO)
  BY <1>5, EndCall, LeavingOK
<1>14. Orderly(k', Taken) /\ Same(k, k') /\ RunningOK(k')
  BY <1>4, <1>5, SameKernel
<1>15. NoCall \in Calls /\ NoCall.w = call[a].w /\ NoCall.at # "own"
  BY <1>5, NullIs DEF NoCall
<1> QED
  BY <1>1, <1>8, <1>9, <1>11, <1>12, <1>13, <1>14, <1>15, QuietInv

(***************************************************************************)
(* _mutex_unlock                                                            *)
(***************************************************************************)
\* The owner of a mutex unlocks it, hands it over or invalidates it.
LEMMA OwnerWrites ==
    ASSUME Inv, NEW a \in Task, NEW m \in Mutex, mutex[m].OWNER_TD = a,
           NEW M \in MutexStruct, OwnerOK(M), M.VALID => mutex[m].VALID,
           M.VALID \/ M.OWNER_TD # NULL, mutex' = [mutex EXCEPT ![m] = M]
    PROVE  /\ mutex' \in [Mutex -> MutexStruct] /\ mutex'[m] = M
           /\ Changes(a, call, mutex, mutex') /\ \A o \in Mutex : OwnerOK(mutex'[o])
           /\ held[a] \ {m} \in SUBSET Mutex
           /\ \A o \in held[a] \ {m} : mutex'[o].VALID /\ mutex'[o].OWNER_TD = a
<1>1. mutex \in [Mutex -> MutexStruct] /\ held \in [Task -> SUBSET Mutex]
  BY DEF Inv, TypeOK
<1>2. /\ mutex' \in [Mutex -> MutexStruct] /\ mutex'[m] = M
      /\ \A o \in Mutex \ {m} : mutex'[o] = mutex[o]
  BY <1>1
<1>3. \A u \in Task : call[u].m = m => call[u].at # "own"
  BY NullIs DEF Inv, CallOK
<1>4. Changes(a, call, mutex, mutex') /\ \A o \in Mutex : OwnerOK(mutex'[o])
  BY <1>2, <1>3 DEF Changes, SameLock, Inv
<1>5. held[a] \ {m} \in SUBSET Mutex
  BY <1>1
<1>6. ASSUME NEW o \in held[a] \ {m}
      PROVE  mutex'[o].VALID /\ mutex'[o].OWNER_TD = a
  BY <1>1, <1>2 DEF Inv, HeldOK
<1> QED
  BY <1>2, <1>4, <1>5, <1>6

\* Nobody waits, or everybody spins: the mutex is free again.
LEMMA ReleaseInv ==
    ASSUME Inv, NEW a \in Task, a = k.ACTIVE_PTR, Free(a), NEW m \in Mutex,
           mutex[m].VALID, mutex[m].OWNER_TD = a,
           mutex' = [mutex EXCEPT ![m].BOOSTED = 0, ![m].LOCK = FALSE, ![m].OWNER_TD = NULL],
           NEW c, Leaving(c), call' = [call EXCEPT ![a] = c],
           held' = [held EXCEPT ![a] = @ \ {m}], UNCHANGED k
    PROVE  Inv'
<1> DEFINE M == [mutex[m] EXCEPT !.BOOSTED = 0, !.LOCK = FALSE, !.OWNER_TD = NULL]
<1>1. /\ mutex[m] \in MutexStruct /\ mutex \in [Mutex -> MutexStruct]
      /\ held \in [Task -> SUBSET Mutex]
  BY DEF Inv, TypeOK
<1>2. M \in MutexStruct /\ M.VALID /\ M.OWNER_TD = NULL
  BY <1>1 DEF MutexStruct
<1>3. mutex' = [mutex EXCEPT ![m] = M]
  BY <1>1
<1> HIDE DEF M
<1>4. OwnerOK(M)
  BY <1>2 DEF OwnerOK
<1>5. PICK H \in SUBSET Mutex : H = held[a] \ {m}
  BY <1>1
<1>6. held' = [held EXCEPT ![a] = H]
  BY <1>1, <1>5
<1>7. /\ mutex' \in [Mutex -> MutexStruct]
      /\ Changes(a, call, mutex, mutex') /\ \A o \in Mutex : OwnerOK(mutex'[o])
      /\ \A o \in H : mutex'[o].VALID /\ mutex'[o].OWNER_TD = a
  BY <1>2, <1>3, <1>4, <1>5, OwnerWrites
<1>8. /\ a # Idle /\ call[a].w = NULL /\ RunningOK(k) /\ k.TD_STATE[a] = "READY"
  BY FreeTask, Going
<1>9. CallOK(a, c, mutex', k.TD_STATE, k.INFO)
  BY <1>8, LeavingOK
<1>10. c \in Calls /\ c.w = call[a].w /\ c.at # "own"
  BY <1>8 DEF Leaving
<1>11. Orderly(k', Taken) /\ Same(k, k') /\ RunningOK(k')
  BY <1>8, SameKernel
<1> QED
  BY <1>6, <1>7, <1>9, <1>10, <1>11, QuietInv

\* In the step, task w becomes ready and no other task starts or stops waiting.
Woken(w) == k'.TD_STATE = [k.TD_STATE EXCEPT ![w] = "READY"] /\ k'.INFO = k.INFO

\* Another task's call, when w becomes ready: w itself finds its call in order by CallOK.
LEMMA WokenCall ==
    ASSUME Inv, NEW a \in Task, Changes(a, call, mutex, mutex'),
           NEW w \in Task, Woken(w), NEW u \in Task, u # a, u # w,
           call[u].at = "drained" => call[u].w # w
    PROVE  CallOK(u, call[u], mutex', k'.TD_STATE, k'.INFO)
<1>1. k.TD_STATE \in [Task -> State] /\ call \in [Task -> Calls]
  BY KernelFields DEF Inv, TypeOK
<1>2. CallOK(u, call[u], mutex, k.TD_STATE, k.INFO)
  BY DEF Inv
<1>3. \A t \in Task \ {w} : k'.TD_STATE[t] = k.TD_STATE[t]
  BY <1>1 DEF Woken
<1>4. k'.INFO = k.INFO
  BY DEF Woken
<1>5. k'.TD_STATE[u] = k.TD_STATE[u] /\ k'.INFO[u] = k.INFO[u]
  BY <1>3, <1>4
<1>6. call[u].at = "drained" => call[u].w \in Task \ {w}
  BY <1>2 DEF CallOK
<1>7. call[u].at = "drained" => /\ k'.TD_STATE[call[u].w] = k.TD_STATE[call[u].w]
                                /\ k'.INFO[call[u].w] = k.INFO[call[u].w]
  BY <1>3, <1>4, <1>6
<1> QED
  BY <1>1, <1>2, <1>5, <1>7, OtherCall

\* The first waiter, w, owns the mutex and is ready.
LEMMA HandOverInv ==
    ASSUME Inv, NEW a \in Task, a = k.ACTIVE_PTR, Free(a), NEW m \in Mutex,
           mutex[m].VALID, mutex[m].OWNER_TD = a,
           NEW w \in Task, FirstWaiter(k, m, w), w \notin Taken, w # Idle,
           NEW M \in MutexStruct, M.VALID, M.LOCK, M.OWNER_TD = w,
           mutex' = [mutex EXCEPT ![m] = M],
           NEW c \in Calls, call' = [call EXCEPT ![a] = c], c.w = NULL,
           Leaving(c) \/ (c.at = "ceiling" /\ c.m = m),
           held' = [held EXCEPT ![a] = @ \ {m}],
           Woken(w), Orderly(k', Taken),
           RunningOK(k') \/ (k'.ACTIVE_PTR = a /\ c.at = "ceiling")
    PROVE  Inv'
<1>1. held \in [Task -> SUBSET Mutex] /\ call \in [Task -> Calls]
  BY DEF Inv, TypeOK
<1>2. k.TD_STATE[w] = "MUTEX_BLOCKED" /\ k.INFO[w] = m
  BY DEF FirstWaiter
<1>3. OwnerOK(M) /\ M.OWNER_TD # NULL
  BY NullIs DEF OwnerOK
<1>4. PICK H \in SUBSET Mutex : H = held[a] \ {m}
  BY <1>1
<1>5. held' = [held EXCEPT ![a] = H]
  BY <1>1, <1>4
<1>6. /\ mutex' \in [Mutex -> MutexStruct] /\ mutex'[m] = M
      /\ Changes(a, call, mutex, mutex') /\ \A o \in Mutex : OwnerOK(mutex'[o])
      /\ \A o \in H : mutex'[o].VALID /\ mutex'[o].OWNER_TD = a
  BY <1>3, <1>4, OwnerWrites, ZenonT(30)
<1>7. a # Idle /\ call[a].w = NULL /\ k.TD_STATE[a] = "READY" /\ w # a
  BY <1>2, FreeTask, Going
<1>8. k'.TD_STATE[w] = "READY" /\ k'.TD_STATE[a] = "READY" /\ k'.INFO = k.INFO
  BY <1>7, KernelFields DEF Inv, TypeOK, Woken
<1>9. CallOK(a, c, mutex', k'.TD_STATE, k'.INFO)
  <2>1. CASE Leaving(c)
    BY <1>7, <1>8, <2>1, LeavingOK
  <2>2. CASE c.at = "ceiling" /\ c.m = m
    BY <1>6, <1>7, <1>8, <2>2 DEF CallOK
  <2> QED
    BY <2>1, <2>2
<1>10. ASSUME NEW u \in Task \ {a}
       PROVE  CallOK(u, call[u], mutex', k'.TD_STATE, k'.INFO)
  <2>1. CallOK(u, call[u], mutex, k.TD_STATE, k.INFO)
    BY DEF Inv
  <2>2. CASE u = w
    <3>1. call[u].at = "blocked" /\ call[u].m = m
      BY <1>2, <2>1, <2>2 DEF CallOK
    <3> QED
      BY <1>6, <1>8, <2>1, <2>2, <3>1 DEF CallOK
  <2>3. CASE u # w
    <3>1. call[u].w # w
      BY DEF Taken
    <3> QED
      BY <1>6, <2>3, <3>1, WokenCall
  <2> QED
    BY <2>2, <2>3
<1>11. Taken' = Taken
  <2>1. \A t \in Task : call'[t].w = call[t].w
    BY <1>1, <1>7
  <2> QED
    BY <2>1 DEF Taken
<1>12. Scheduled'
  <2>1. call'[a] = c
    BY <1>1
  <2> QED
    BY <2>1 DEF Scheduled
<1>13. Orderly(k', Taken') /\ c.at # "own"
  BY <1>11 DEF Leaving
<1>14. \A u \in Task \ {a} : CallOK(u, call[u], mutex', k'.TD_STATE, k'.INFO)
  BY <1>10
<1>15. /\ mutex' \in [Mutex -> MutexStruct] /\ Changes(a, call, mutex, mutex')
       /\ \A o \in Mutex : OwnerOK(mutex'[o])
       /\ \A o \in H : mutex'[o].VALID /\ mutex'[o].OWNER_TD = a
  BY <1>6
<1> QED
  BY <1>5, <1>9, <1>12, <1>13, <1>14, <1>15, StepInv, ZenonT(30)

\* _mutex_unlock
LEMMA UnlockInv ==
    ASSUME Inv, NEW m \in Mutex, mutex_unlock(m)
    PROVE  Inv'
<1>1. PICK a \in Task : a = k.ACTIVE_PTR
  BY Active
<1>2. PICK n \in Nat : n = mutex[m].BOOSTED
  BY Fields DEF Inv, TypeOK
<1> DEFINE e == IF n = 0 THEN NoCall
                ELSE [NoCall EXCEPT !.op = "unlock", !.at = "unboost", !.n = n]
           r == [NoCall EXCEPT !.op = "unlock", !.at = "ceiling", !.m = m, !.n = n]
<1>3. /\ Free(a) /\ mutex[m].VALID /\ mutex[m].LOCK /\ mutex[m].OWNER_TD = a
      /\ held' = [held EXCEPT ![a] = @ \ {m}]
  BY <1>1 DEF mutex_unlock, td
<1>4. Leaving(e)
  BY EndCall
<1>5. r \in Calls /\ r.at = "ceiling" /\ r.m = m /\ r.w = NULL
  BY NullIs DEF NoCall, Calls
<1>6. Leaving(e) /\ e \in Calls /\ e.w = NULL
  BY <1>4 DEF Leaving
<1>7. CASE Spins(m) \/ k.QUEUE[m] = <<>>
  <2>1. /\ mutex' = [mutex EXCEPT ![m].BOOSTED = 0, ![m].LOCK = FALSE, ![m].OWNER_TD = NULL]
        /\ call' = [call EXCEPT ![a] = e] /\ UNCHANGED k
    BY <1>1, <1>2, <1>7 DEF mutex_unlock, ThenUnboost, td
  <2> HIDE DEF e, r
  <2> QED
    BY <1>1, <1>3, <1>4, <2>1, ReleaseInv
<1>8. CASE ~(Spins(m) \/ k.QUEUE[m] = <<>>)
  <2> DEFINE W == Head(k.QUEUE[m])
             K == TASK_READY([k EXCEPT !.QUEUE[m] = Tail(@)], W)
  <2>1. /\ FirstWaiter(k, m, W) /\ W \notin Taken /\ W # Idle
        /\ Orderly(K, Taken) /\ K.ACTIVE_PTR = k.ACTIVE_PTR
        /\ K.TD_STATE = [k.TD_STATE EXCEPT ![W] = "READY"] /\ K.INFO = k.INFO
    <3>1. k.QUEUE[m] # <<>> /\ m \in Queue /\ Orderly(k, Taken)
      BY <1>8, SameKernel DEF Mutex
    <3> QED
      BY <3>1, HandOverOrder
  <2>2. W \in Task /\ K \in Kernel
    BY <2>1 DEF FirstWaiter, Orderly, KInv
  <2>3. PICK w \in Task, j \in Kernel : w = W /\ j = K
    BY <2>2
  <2>4. \/ /\ k' = CHECK_RUN_SCHEDULER(j)
           /\ call' = [call EXCEPT ![a] = e]
        \/ /\ k' = j \/ \E p \in Priority : k' = sched_boost_priority_internal(j, w, p)
           /\ call' = [call EXCEPT ![a] = r]
    <3>1. mutex[m].PRIORITY_CEILING \in Priority
      BY Fields DEF Inv, TypeOK
    <3> QED
      BY <1>1, <1>2, <1>8, <2>3, <3>1 DEF mutex_unlock, ThenUnboost, td
  <2>5. PICK M \in MutexStruct : /\ mutex' = [mutex EXCEPT ![m] = M]
                                 /\ M.VALID /\ M.LOCK /\ M.OWNER_TD = w
    <3> DEFINE M == [mutex[m] EXCEPT !.BOOSTED = 0, !.OWNER_TD = w]
    <3>1. mutex' = [mutex EXCEPT ![m].BOOSTED = 0, ![m].OWNER_TD = w]
      BY <1>8, <2>3 DEF mutex_unlock
    <3>2. mutex[m] \in MutexStruct /\ mutex \in [Mutex -> MutexStruct]
      BY DEF Inv, TypeOK
    <3>3. M \in MutexStruct /\ M.VALID /\ M.LOCK /\ M.OWNER_TD = w
      BY <1>3, <3>2 DEF MutexStruct
    <3>4. mutex' = [mutex EXCEPT ![m] = M]
      BY <3>1, <3>2
    <3> HIDE DEF M
    <3> QED
      BY <3>3, <3>4
  <2>6. /\ FirstWaiter(k, m, w) /\ w \notin Taken /\ w # Idle
        /\ Orderly(j, Taken) /\ j.ACTIVE_PTR = k.ACTIVE_PTR
        /\ j.TD_STATE = [k.TD_STATE EXCEPT ![w] = "READY"] /\ j.INFO = k.INFO
    BY <2>1, <2>3
  <2> HIDE DEF W, K, e, r
  <2>7. CASE k' = CHECK_RUN_SCHEDULER(j) /\ call' = [call EXCEPT ![a] = e]
    <3>1. Orderly(k', Taken) /\ Same(j, k') /\ RunningOK(k')
      BY <2>6, <2>7, CheckRunOrder
    <3>2. Woken(w)
      BY <2>6, <3>1 DEF Same, Woken
    <3> QED
      BY <1>1, <1>3, <1>6, <2>5, <2>6, <2>7, <3>1, <3>2, HandOverInv
  <2>8. CASE k' = j /\ call' = [call EXCEPT ![a] = r]
    <3>1. Orderly(k', Taken) /\ k'.ACTIVE_PTR = a /\ Woken(w)
      BY <1>1, <2>6, <2>8 DEF Woken
    <3> QED
      BY <1>1, <1>3, <1>5, <2>5, <2>6, <2>8, <3>1, HandOverInv
  <2>9. ASSUME NEW p \in Priority, k' = sched_boost_priority_internal(j, w, p),
               call' = [call EXCEPT ![a] = r]
        PROVE  Inv'
    <3>1. Orderly(k', Taken) /\ Same(j, k') /\ RunningOK(k')
      BY <2>6, <2>9, BoostOrder
    <3>2. Woken(w)
      BY <2>6, <3>1 DEF Same, Woken
    <3> QED
      BY <1>1, <1>3, <1>5, <2>5, <2>6, <2>9, <3>1, <3>2, HandOverInv
  <2> QED
    BY <2>4, <2>7, <2>8, <2>9
<1> QED
  BY <1>7, <1>8

\* The boost by the ceiling is counted, and the scheduler called.
LEMMA UnlockCeilingInv ==
    ASSUME Inv, NEW m \in Mutex, UnlockCeiling(m)
    PROVE  Inv'
<1>1. PICK a \in Task : a = k.ACTIVE_PTR
  BY Active
<1>2. PICK n \in Nat : n = call[a].n
  BY <1>1, Going, Fields
<1>3. PICK b \in Nat : b = mutex[m].BOOSTED + 1
  BY Fields DEF Inv, TypeOK
<1> DEFINE e == IF n = 0 THEN NoCall
                ELSE [NoCall EXCEPT !.op = "unlock", !.at = "unboost", !.n = n]
<1>4. /\ call[a].at = "ceiling" /\ k' = CHECK_RUN_SCHEDULER(k) /\ UNCHANGED held
      /\ mutex' = [mutex EXCEPT ![m].BOOSTED = b] /\ call' = [call EXCEPT ![a] = e]
  BY <1>1, <1>2, <1>3 DEF UnlockCeiling, ThenUnboost, GoOn, td
<1>5. Leaving(e)
  BY EndCall
<1> HIDE DEF e
<1>6. a # Idle /\ LocksSame
  BY <1>1, <1>4, Going, BoostedKept
<1>7. Orderly(k', Taken) /\ Same(k, k') /\ RunningOK(k')
  BY <1>4, SameKernel, CheckRunOrder
<1> QED
  BY <1>1, <1>4, <1>5, <1>6, <1>7, LeaveInv

\* The boosts of the unlocked mutex are taken back.
LEMMA UnboostInv ==
    ASSUME Inv, Unboost
    PROVE  Inv'
<1>1. PICK a \in Task : a = k.ACTIVE_PTR
  BY Active
<1>2. PICK n \in Nat : n = call[a].n
  BY <1>1, Going, Fields
<1>3. /\ call[a].at = "unboost" /\ call' = [call EXCEPT ![a] = NoCall]
      /\ k' = sched_unboost_priority_internal(k, a, n) /\ UNCHANGED <<mutex, held>>
  BY <1>1, <1>2 DEF Unboost, td
<1>4. a # Idle /\ RunningOK(k) /\ LocksSame
  BY <1>1, <1>3, Going, UnchangedKept
<1>5. Orderly(k', Taken) /\ Same(k, k') /\ RunningOK(k')
  BY <1>3, <1>4, SameKernel, UnboostOrder
<1> QED
  BY <1>1, <1>3, <1>4, <1>5, EndCall, LeaveInv

(***************************************************************************)
(* _mutex_destroy                                                           *)
(***************************************************************************)
\* The owner goes on at once, another task locks the mutex first.
LEMMA DestroyInv ==
    ASSUME Inv, NEW m \in Mutex, mutex_destroy(m)
    PROVE  Inv'
<1>1. PICK a \in Task : a = k.ACTIVE_PTR
  BY Active
<1>2. Free(a) /\ mutex[m].VALID
  BY <1>1 DEF mutex_destroy, td
<1>3. CASE mutex[m].OWNER_TD = a
  <2> DEFINE c == [NoCall EXCEPT !.op = "destroy", !.at = "destroy", !.m = m]
  <2>1. call' = [call EXCEPT ![a] = c] /\ UNCHANGED <<k, mutex, held>>
    BY <1>1, <1>3 DEF mutex_destroy, td
  <2>2. c \in Calls /\ c.at = "destroy" /\ c.m = m /\ c.w = NULL
    BY NullIs DEF NoCall, Calls
  <2> HIDE DEF c
  <2>3. /\ a # Idle /\ call[a].w = NULL /\ RunningOK(k) /\ k.TD_STATE[a] = "READY"
    BY <1>1, <1>2, FreeTask, Going
  <2>4. CallOK(a, c, mutex, k.TD_STATE, k.INFO)
    BY <1>2, <1>3, <2>2, <2>3 DEF CallOK
  <2>5. /\ Orderly(k', Taken) /\ Same(k, k') /\ RunningOK(k') /\ LocksSame
        /\ UNCHANGED held /\ c.w = call[a].w /\ c.at # "own"
    BY <2>1, <2>2, <2>3, SameKernel, UnchangedKept
  <2> QED
    BY <1>1, <2>1, <2>2, <2>4, <2>5, CallInv
<1>4. CASE mutex[m].OWNER_TD # a
  <2>1. Free(td) /\ LockEnter(m, "destroy")
    BY <1>1, <1>4 DEF mutex_destroy, td
  <2> QED
    BY <2>1, EnterInv
<1> QED
  BY <1>3, <1>4

\* The mutex is invalidated.
LEMMA InvalidateInv ==
    ASSUME Inv, NEW m \in Mutex, DestroyInvalidate(m)
    PROVE  Inv'
<1>1. PICK a \in Task : a = k.ACTIVE_PTR
  BY Active
<1> DEFINE M == [mutex[m] EXCEPT !.VALID = FALSE]
           c == [call[a] EXCEPT !.at = "drain"]
<1>2. /\ call[a].at = "destroy" /\ call[a].m = m /\ UNCHANGED k
      /\ mutex' = [mutex EXCEPT ![m].VALID = FALSE]
      /\ held' = [held EXCEPT ![a] = @ \ {m}] /\ call' = [call EXCEPT ![a].at = "drain"]
  BY <1>1 DEF DestroyInvalidate, GoOn, Goto, td
<1>3. /\ call[a] \in Calls /\ a # Idle /\ call[a].w = NULL /\ RunningOK(k)
      /\ k.TD_STATE[a] = "READY" /\ mutex[m].OWNER_TD = a
  BY <1>1, <1>2, Going DEF CallOK
<1>4. /\ mutex[m] \in MutexStruct /\ mutex \in [Mutex -> MutexStruct]
      /\ held \in [Task -> SUBSET Mutex] /\ call \in [Task -> Calls]
  BY DEF Inv, TypeOK
<1>5. M \in MutexStruct /\ ~M.VALID /\ M.OWNER_TD = a /\ M.LOCK = mutex[m].LOCK
  BY <1>3, <1>4 DEF MutexStruct
<1>6. c \in Calls /\ c.at = "drain" /\ c.m = m /\ c.w = call[a].w
  BY <1>2, <1>3 DEF Calls
<1>7. mutex' = [mutex EXCEPT ![m] = M] /\ call' = [call EXCEPT ![a] = c]
  BY <1>2, <1>4
<1> HIDE DEF M, c
<1>8. OwnerOK(M) /\ M.OWNER_TD # NULL
  BY <1>3, <1>5, NullIs DEF Inv, OwnerOK
<1>9. PICK H \in SUBSET Mutex : H = held[a] \ {m}
  BY <1>4
<1>10. held' = [held EXCEPT ![a] = H]
  BY <1>2, <1>4, <1>9
<1>11. /\ mutex' \in [Mutex -> MutexStruct] /\ mutex'[m] = M
       /\ Changes(a, call, mutex, mutex') /\ \A o \in Mutex : OwnerOK(mutex'[o])
       /\ \A o \in H : mutex'[o].VALID /\ mutex'[o].OWNER_TD = a
  BY <1>3, <1>5, <1>7, <1>8, <1>9, OwnerWrites
<1>12. CallOK(a, c, mutex', k.TD_STATE, k.INFO)
  BY <1>3, <1>5, <1>6, <1>11, NullIs DEF CallOK
<1>13. Orderly(k', Taken) /\ Same(k, k') /\ RunningOK(k') /\ c.at # "own"
  BY <1>2, <1>3, <1>6, SameKernel
<1> QED
  BY <1>1, <1>6, <1>7, <1>10, <1>11, <1>12, <1>13, QuietInv

\* Everybody has been readied.
LEMMA DestroyEndInv ==
    ASSUME Inv, NEW m \in Mutex, DestroyEnd(m)
    PROVE  Inv'
<1>1. PICK a \in Task : a = k.ACTIVE_PTR
  BY Active
<1>2. PICK n \in Nat : n = mutex[m].BOOSTED
  BY Fields DEF Inv, TypeOK
<1> DEFINE j == IF n > 0 THEN sched_unboost_priority_internal(k, a, n) ELSE k
<1>3. /\ call[a].at = "drain" /\ call' = [call EXCEPT ![a] = NoCall]
      /\ k' = CHECK_RUN_SCHEDULER(j) /\ UNCHANGED <<mutex, held>>
  BY <1>1, <1>2 DEF DestroyEnd, GoOn, td
<1>4. a # Idle /\ LocksSame
  BY <1>1, <1>3, Going, UnchangedKept
<1>5. Orderly(j, Taken) /\ Same(k, j)
  BY <1>4, SameKernel, UnboostOrder
<1> HIDE DEF j
<1>6. Orderly(k', Taken) /\ Same(j, k') /\ RunningOK(k')
  BY <1>3, <1>5, CheckRunOrder
<1>7. Same(k, k')
  BY <1>5, <1>6, SameTrans
<1> QED
  BY <1>1, <1>3, <1>4, <1>6, <1>7, EndCall, LeaveInv

\* A step of a call that locks and unlocks nothing, but lets a task start or stop waiting.
LEMMA WaitStep ==
    ASSUME Inv, NEW a \in Task, a = k.ACTIVE_PTR,
           NEW c \in Calls, call' = [call EXCEPT ![a] = c], c.at # "own",
           UNCHANGED held, LocksSame,
           Orderly(k', Taken'), Scheduled',
           \A u \in Task \ {a} : CallOK(u, call[u], mutex', k'.TD_STATE, k'.INFO),
           CallOK(a, c, mutex', k'.TD_STATE, k'.INFO)
    PROVE  Inv'
<1>1. held \in [Task -> SUBSET Mutex]
  BY DEF Inv, TypeOK
<1>2. PICK H \in SUBSET Mutex : H = held[a]
  BY <1>1
<1>3. held' = [held EXCEPT ![a] = H]
  BY <1>1, <1>2
<1>4. /\ mutex' \in [Mutex -> MutexStruct]
      /\ Changes(a, call, mutex, mutex') /\ \A m \in Mutex : OwnerOK(mutex'[m])
  BY LocksKept
<1>5. \A m \in H : mutex'[m].VALID /\ mutex'[m].OWNER_TD = a
  BY <1>1, <1>2 DEF Inv, HeldOK, LocksSame, SameLock
<1> QED
  BY <1>3, <1>4, <1>5, StepInv

\* What changes for Taken when the active task goes on to a call with c.w.
LEMMA TakenBecomes ==
    ASSUME Inv, NEW a \in Task, NEW c \in Calls, call' = [call EXCEPT ![a] = c]
    PROVE  \A t \in Task :
              /\ t \in Taken <=> t = call[a].w \/ \E u \in Task \ {a} : call[u].w = t
              /\ t \in Taken' <=> t = c.w \/ \E u \in Task \ {a} : call[u].w = t
<1>1. call'[a] = c /\ \A u \in Task \ {a} : call'[u] = call[u]
  BY DEF Inv, TypeOK
<1> QED
  BY <1>1 DEF Taken

\* The first waiter is dequeued.
LEMMA DrainInv ==
    ASSUME Inv, NEW m \in Mutex, DestroyDrain(m)
    PROVE  Inv'
<1>1. PICK a \in Task : a = k.ACTIVE_PTR
  BY Active
<1> DEFINE W == Head(k.QUEUE[m])
           K == [k EXCEPT !.QUEUE[m] = Tail(@)]
<1>2. /\ call[a].at = "drain" /\ call[a].m = m /\ k.QUEUE[m] # <<>> /\ k' = K
      /\ call' = [call EXCEPT ![a].at = "drained", ![a].w = W] /\ UNCHANGED <<mutex, held>>
  BY <1>1 DEF DestroyDrain, GoOn, td
<1>3. /\ FirstWaiter(k, m, W)
      /\ Orderly(K, Taken \cup {W}) /\ K.ACTIVE_PTR = k.ACTIVE_PTR
      /\ K.TD_STATE = k.TD_STATE /\ K.INFO = k.INFO
  <2>1. m \in Queue /\ Orderly(k, Taken)
    BY SameKernel DEF Mutex
  <2> QED
    BY <1>2, <2>1, DequeueOrder
<1>4. PICK w \in Task : w = W
  BY <1>3 DEF FirstWaiter
<1> DEFINE c == [call[a] EXCEPT !.at = "drained", !.w = w]
<1>5. /\ k.TD_STATE[w] = "MUTEX_BLOCKED" /\ k.INFO[w] = m
      /\ Orderly(k', Taken \cup {w}) /\ k'.ACTIVE_PTR = a
      /\ k'.TD_STATE = k.TD_STATE /\ k'.INFO = k.INFO
  BY <1>1, <1>2, <1>3, <1>4 DEF FirstWaiter
<1>6. /\ call[a] \in Calls /\ a # Idle /\ call[a].w = NULL /\ k.TD_STATE[a] = "READY"
      /\ ~mutex[m].VALID /\ mutex[m].OWNER_TD = a /\ call \in [Task -> Calls]
  BY <1>1, <1>2, Going DEF CallOK, Inv, TypeOK
<1>7. c \in Calls /\ c.at = "drained" /\ c.m = m /\ c.w = w
  BY <1>2, <1>6 DEF Calls
<1>8. call' = [call EXCEPT ![a] = c]
  BY <1>2, <1>4, <1>6
<1> HIDE DEF W, K, c
<1>9. Orderly(k', Taken')
  <2>1. \A t \in Task :
           /\ t \in Taken <=> t = call[a].w \/ \E u \in Task \ {a} : call[u].w = t
           /\ t \in Taken' <=> t = c.w \/ \E u \in Task \ {a} : call[u].w = t
    BY <1>7, <1>8, TakenBecomes
  <2>2. \A t \in Task : t \in Taken \cup {w} <=> t \in Taken'
    BY <1>6, <1>7, <2>1, NullIs
  <2> QED
    BY <1>5, <2>2, TakenOrder
<1>10. CallOK(a, c, mutex', k'.TD_STATE, k'.INFO)
  BY <1>2, <1>5, <1>6, <1>7, NullIs DEF CallOK
<1>11. \A u \in Task \ {a} : CallOK(u, call[u], mutex', k'.TD_STATE, k'.INFO)
  BY <1>2, <1>5 DEF Inv
<1>12. Scheduled'
  <2>1. call'[a] = c
    BY <1>6, <1>8
  <2> QED
    BY <1>5, <1>7, <2>1 DEF Scheduled
<1>13. LocksSame /\ UNCHANGED held /\ c.at # "own"
  BY <1>2, <1>7, UnchangedKept
<1> QED
  BY <1>1, <1>7, <1>8, <1>9, <1>10, <1>11, <1>12, <1>13, WaitStep

\* It is readied: its call will find the mutex destroyed.
LEMMA DestroyReadyInv ==
    ASSUME Inv, NEW m \in Mutex, DestroyReady(m)
    PROVE  Inv'
<1>1. PICK a \in Task : a = k.ACTIVE_PTR
  BY Active
<1>2. /\ call[a].at = "drained" /\ call[a].m = m /\ k' = TASK_READY(k, call[a].w)
      /\ call' = [call EXCEPT ![a].at = "drain", ![a].w = NULL] /\ UNCHANGED <<mutex, held>>
  BY <1>1 DEF DestroyReady, GoOn, td
<1>3. /\ call[a] \in Calls /\ a # Idle /\ k.TD_STATE[a] = "READY"
      /\ ~mutex[m].VALID /\ mutex[m].OWNER_TD = a /\ call \in [Task -> Calls]
  BY <1>1, <1>2, Going DEF CallOK, Inv, TypeOK
<1>4. PICK w \in Task : /\ w = call[a].w
                        /\ k.TD_STATE[w] = "MUTEX_BLOCKED" /\ k.INFO[w] = m
  BY <1>1, <1>2, Going DEF CallOK
<1> DEFINE c == [call[a] EXCEPT !.at = "drain", !.w = NULL]
<1>5. c \in Calls /\ c.at = "drain" /\ c.m = m /\ c.w = NULL
  BY <1>2, <1>3 DEF Calls
<1>6. call' = [call EXCEPT ![a] = c]
  BY <1>2, <1>3
<1> HIDE DEF c
<1>7. Orderly(k', Taken \ {w}) /\ k'.ACTIVE_PTR = a /\ Woken(w)
  <2>1. w \in Taken /\ Orderly(k, Taken) /\ k' = TASK_READY(k, w)
    BY <1>2, <1>4, SameKernel DEF Taken
  <2> QED
    BY <1>1, <1>4, <2>1, ReadyOrder DEF Woken
<1>8. ASSUME NEW u \in Task \ {a}
      PROVE  call[u].w # w
  <2>1. CallOK(u, call[u], mutex, k.TD_STATE, k.INFO)
    BY DEF Inv
  <2> QED
    BY <1>3, <1>4, <2>1, NullIs DEF CallOK
<1>9. Orderly(k', Taken')
  <2>1. \A t \in Task :
           /\ t \in Taken <=> t = call[a].w \/ \E u \in Task \ {a} : call[u].w = t
           /\ t \in Taken' <=> t = c.w \/ \E u \in Task \ {a} : call[u].w = t
    BY <1>5, <1>6, TakenBecomes
  <2>2. \A t \in Task : t \in Taken \ {w} <=> t \in Taken'
    BY <1>4, <1>5, <1>8, <2>1, NullIs
  <2> QED
    BY <1>7, <2>2, TakenOrder
<1>10. k'.TD_STATE[w] = "READY" /\ k'.TD_STATE[a] = "READY" /\ k'.INFO = k.INFO
  BY <1>3, <1>4, <1>7, KernelFields DEF Inv, TypeOK, Woken
<1>11. CallOK(a, c, mutex', k'.TD_STATE, k'.INFO)
  BY <1>2, <1>3, <1>5, <1>10, NullIs DEF CallOK
<1>12. LocksSame /\ UNCHANGED held /\ c.at # "own"
  BY <1>2, <1>5, UnchangedKept
<1>13. ASSUME NEW u \in Task \ {a}
       PROVE  CallOK(u, call[u], mutex', k'.TD_STATE, k'.INFO)
  <2>1. CASE u = w
    <3>1. CallOK(u, call[u], mutex, k.TD_STATE, k.INFO)
      BY DEF Inv
    <3>2. call[u].at = "blocked" /\ call[u].m = m
      BY <1>4, <2>1, <3>1 DEF CallOK
    <3> QED
      BY <1>2, <1>3, <1>10, <2>1, <3>1, <3>2 DEF CallOK
  <2>2. CASE u # w
    BY <1>7, <1>8, <1>12, <2>2, LocksKept, WokenCall
  <2> QED
    BY <2>1, <2>2
<1>14. Scheduled'
  <2>1. call'[a] = c
    BY <1>3, <1>6
  <2> QED
    BY <1>5, <1>7, <2>1 DEF Scheduled
<1> QED
  BY <1>1, <1>5, <1>6, <1>9, <1>11, <1>12, <1>13, <1>14, WaitStep

(***************************************************************************)
(* Waiting for the mutex.                                                   *)
(***************************************************************************)
\* Task t joins the queue r in FIFO order or by priority.
LEMMA JoinedQueue ==
    ASSUME NEW r \in Seq(Task), NoDuplicates(r), NEW t \in Task, t \notin Elems(r), NEW j, NEW q,
           q = sched_insert_priorityq_internal(j, r, t) \/ q = Append(r, t)
    PROVE  q \in Seq(Task) /\ NoDuplicates(q) /\ Elems(q) = Elems(r) \cup {t}
<1>1. CASE q = sched_insert_priorityq_internal(j, r, t)
  <2> DEFINE S == {u \in Task : j.MY_QUEUE[u] > j.MY_QUEUE[t]}
  <2>1. q = InsertBefore(r, t, S)
    BY <1>1 DEF sched_insert_priorityq_internal
  <2> HIDE DEF S
  <2> QED
    BY <2>1, InsertElems
<1>2. CASE q = Append(r, t)
  BY <1>2, AppendElems
<1> QED
  BY <1>1, <1>2

\* _mutex_lock puts the task on WAITING_TASKS and calls the dispatcher.
LEMMA EnqueueInv ==
    ASSUME Inv, NEW m \in Mutex, Enqueue(m)
    PROVE  Inv'
<1>1. PICK a \in Task : a = k.ACTIVE_PTR
  BY Active
<1> DEFINE i == UnlinkReady(k, a)
           Q == IF m \in PRIORITY_QUEUEING
                THEN sched_insert_priorityq_internal(i, i.QUEUE[m], a)
                ELSE Append(i.QUEUE[m], a)
<1>2. /\ call[a].at = "enqueue" /\ call[a].m = m /\ UNCHANGED held
      /\ mutex' = [mutex EXCEPT ![m].BOOSTED = @ + call[a].b]
      /\ call' = [call EXCEPT ![a].at = "blocked"]
  BY <1>1 DEF Enqueue, GoOn, Goto, td
<1>3. k' = Dispatch(Enqueued(k, a, m, Q))
  BY <1>1 DEF Enqueue, Enqueued, td
<1>4. i.QUEUE = k.QUEUE
  BY Active DEF UnlinkReady, Kernel
<1> HIDE DEF i
<1>5. PICK r \in Seq(Task) : r = k.QUEUE[m] /\ NoDuplicates(r) /\ a \notin Elems(r)
  <2>1. k.QUEUE[m] \in Seq(Task) /\ m \in Queue /\ Orderly(k, Taken)
    BY KernelFields, SameKernel DEF Inv, TypeOK, Mutex
  <2>2. NoDuplicates(k.QUEUE[m]) /\ a \notin Elems(k.QUEUE[m])
    BY <1>1, <2>1, Active, States DEF Orderly, WaitQueuesOK, WaitStates
  <2> QED
    BY <2>1, <2>2
<1>6. PICK q \in Seq(Task) : k' = Dispatch(Enqueued(k, a, m, q)) /\ Joins(k, a, m, q)
  <2>1. Q = sched_insert_priorityq_internal(i, r, a) \/ Q = Append(r, a)
    BY <1>4, <1>5
  <2> HIDE DEF Q
  <2>2. Q \in Seq(Task) /\ NoDuplicates(Q) /\ Elems(Q) = Elems(r) \cup {a}
    <3>1. r \in Seq(Task) /\ NoDuplicates(r) /\ a \notin Elems(r)
      BY <1>5
    <3>2. CASE Q = sched_insert_priorityq_internal(i, r, a)
      BY <3>1, <3>2, JoinedQueue
    <3>3. CASE Q = Append(r, a)
      BY <3>1, <3>3, JoinedQueue
    <3> QED
      BY <2>1, <3>2, <3>3
  <2> QED
    BY <1>3, <1>5, <2>2 DEF Joins
<1> HIDE DEF Q
<1>7. /\ call[a] \in Calls /\ a # Idle /\ call[a].w = NULL /\ k.TD_STATE[a] = "READY"
      /\ mutex[m].VALID \/ mutex[m].OWNER_TD # NULL
      /\ IsReady(k, a) /\ a \notin Taken
  BY <1>1, <1>2, Going, Active DEF CallOK
<1>8. /\ Orderly(k', Taken) /\ RunningOK(k')
      /\ k'.TD_STATE = [k.TD_STATE EXCEPT ![a] = "MUTEX_BLOCKED"]
      /\ k'.INFO = [k.INFO EXCEPT ![a] = m]
  <2>1. m \in Queue /\ Orderly(k, Taken)
    BY SameKernel DEF Mutex
  <2>2. a # Idle /\ IsReady(k, a) /\ a \notin Taken
    BY <1>7
  <2> QED
    BY <1>6, <2>1, <2>2, EnqueueOrder
<1>9. /\ call \in [Task -> Calls] /\ mutex \in [Mutex -> MutexStruct]
      /\ k.TD_STATE \in [Task -> State] /\ k.INFO \in [Task -> Info]
  BY KernelFields DEF Inv, TypeOK
<1>10. /\ k'.TD_STATE[a] = "MUTEX_BLOCKED" /\ k'.INFO[a] = m
      /\ \A u \in Task \ {a} : k'.TD_STATE[u] = k.TD_STATE[u] /\ k'.INFO[u] = k.INFO[u]
  BY <1>8, <1>9
<1> DEFINE c == [call[a] EXCEPT !.at = "blocked"]
<1>11. c \in Calls /\ c.at = "blocked" /\ c.m = m /\ c.w = NULL
  BY <1>2, <1>7 DEF Calls
<1>12. call' = [call EXCEPT ![a] = c]
  BY <1>2, <1>9
<1> HIDE DEF c
<1>13. PICK n \in Nat : n = mutex[m].BOOSTED + call[a].b
  BY <1>7, <1>9, Fields
<1>14. mutex' = [mutex EXCEPT ![m].BOOSTED = n]
  BY <1>2, <1>9, <1>13
<1>15. LocksSame /\ UNCHANGED held /\ c.at # "own"
  BY <1>2, <1>11, <1>14, BoostedKept
<1>16. Taken' = Taken
  <2>1. \A t \in Task : call'[t].w = call[t].w
    BY <1>7, <1>9, <1>11, <1>12
  <2> QED
    BY <2>1 DEF Taken
<1>17. Orderly(k', Taken') /\ Scheduled'
  BY <1>8, <1>16 DEF Scheduled
<1>18. CallOK(a, c, mutex', k'.TD_STATE, k'.INFO)
  <2>1. mutex'[m].VALID \/ mutex'[m].OWNER_TD # NULL
    BY <1>7, <1>15 DEF LocksSame, SameLock
  <2> QED
    BY <1>7, <1>10, <1>11, <2>1 DEF CallOK
<1>19. ASSUME NEW u \in Task \ {a}
       PROVE  CallOK(u, call[u], mutex', k'.TD_STATE, k'.INFO)
  <2>1. CallOK(u, call[u], mutex, k.TD_STATE, k.INFO) /\ Changes(a, call, mutex, mutex')
    BY <1>15, LocksKept DEF Inv
  <2>2. call[u].at = "drained" => call[u].w \in Task \ {a}
    BY <1>7, <2>1 DEF CallOK, Taken
  <2>3. call[u].at = "drained" => /\ k'.TD_STATE[call[u].w] = k.TD_STATE[call[u].w]
                                  /\ k'.INFO[call[u].w] = k.INFO[call[u].w]
    BY <1>10, <2>2
  <2>4. k'.TD_STATE[u] = k.TD_STATE[u] /\ k'.INFO[u] = k.INFO[u]
    BY <1>10
  <2> QED
    BY <1>9, <2>1, <2>3, <2>4, OtherCall
<1> QED
  BY <1>1, <1>11, <1>12, <1>15, <1>17, <1>18, <1>19, WaitStep

(***************************************************************************)
(* The theorems.                                                            *)
(***************************************************************************)
\* The system starts without mutexes.
LEMMA InitInv == Init => Inv
<1> SUFFICES ASSUME Init PROVE Inv
  OBVIOUS
<1> DEFINE M == [PROTOCOLS |-> {}, VALID |-> FALSE, LOCK |-> FALSE, OWNER_TD |-> NULL,
                 BOOSTED |-> 0, PRIORITY_CEILING |-> 0]
<1>1. /\ k = Boot /\ mutex = [m \in Mutex |-> M] /\ call = [t \in Task |-> NoCall]
      /\ held = [t \in Task |-> {}]
  BY DEF Init
<1>2. M \in MutexStruct /\ M.OWNER_TD = NULL
  BY Priorities DEF MutexStruct
<1> HIDE DEF M
<1>3. /\ KInv(k, {}) /\ RunningOK(k) /\ WaitQueuesOK(k, {})
      /\ k.TD_STATE = [t \in Task |-> "READY"] /\ k.ON_TIMEOUT_Q = {}
  BY <1>1, BootWait DEF Consistent, WaitInv
<1>4. /\ TypeOK /\ HeldOK /\ OneTaker /\ Scheduled
      /\ \A m \in Mutex : OwnerOK(mutex[m])
  BY <1>1, <1>2, <1>3, NullIs
     DEF TypeOK, KInv, HeldOK, OneTaker, NoCall, Scheduled, OwnerOK
<1>5. ASSUME NEW t \in Task
      PROVE  CallOK(t, call[t], mutex, k.TD_STATE, k.INFO)
  BY <1>1, <1>3, NullIs DEF CallOK, NoCall
<1>6. Orderly(k, {})
  BY <1>3 DEF Orderly, RunningOK
<1>7. \A t \in Task : t \notin Taken
  BY <1>1, NullIs DEF Taken, NoCall
<1>8. Orderly(k, Taken)
  BY <1>6, <1>7, TakenOrder
<1> QED
  BY <1>4, <1>5, <1>8 DEF Inv

\* Every step of a call, and every interrupt, preserves it.
LEMMA NextInv == Inv /\ [Next]_vars => Inv'
<1> SUFFICES ASSUME Inv, [Next]_vars
             PROVE  Inv'
  OBVIOUS
<1>1. CASE UNCHANGED vars
  BY <1>1 DEF vars, Inv, TypeOK, Taken, Scheduled, HeldOK, OneTaker
<1>2. ASSUME NEW m \in Mutex, mutex_lock(m) PROVE Inv'
  BY <1>2, EnterInv DEF mutex_lock
<1>3. ASSUME NEW m \in Mutex,
             LockFree(m) \/ LockBusy(m) \/ Enqueue(m) \/ LockResume(m) \/ Protect(m)
      PROVE  Inv'
  BY <1>3, LockFreeInv, LockBusyInv, EnqueueInv, LockResumeInv, ProtectInv
<1>4. ASSUME NEW m \in Mutex,
             \/ SpinFails(m) \/ SpinTries(m) \/ SpinBoosted(m) \/ SpinYields(m)
             \/ SpinOwn(m) \/ mutex_try_lock(m)
      PROVE  Inv'
  BY <1>4, SpinFailsInv, SpinTriesInv, SpinBoostedInv, SpinYieldsInv, SpinOwnInv, TryLockInv
<1>5. ASSUME NEW m \in Mutex,
             \/ mutex_unlock(m) \/ UnlockCeiling(m) \/ mutex_destroy(m)
             \/ DestroyInvalidate(m) \/ DestroyDrain(m) \/ DestroyReady(m) \/ DestroyEnd(m)
      PROVE  Inv'
  BY <1>5, UnlockInv, UnlockCeilingInv, DestroyInv, InvalidateInv, DrainInv,
     DestroyReadyInv, DestroyEndInv
<1> QED
  BY <1>1, <1>2, <1>3, <1>4, <1>5, MutexInitInv, CeilingInv, UnboostInv, DelayInv,
     SetPriorityStep, TickStep DEF Next

\* The inductive invariant holds in every state.
THEOREM Invariance == Spec => []Inv
BY InitInv, NextInv, PTL DEF Spec

\* Whatever mutex calls, boosts, delays and interrupts meet, also where the scheduler is
\* called in the middle of a call, the ready queues, the timeout queue, the mutexes' queues
\* and the running task fit together.
THEOREM KernelAlwaysConsistent == Spec => []KernelConsistent
<1>1. Inv => KernelConsistent
  <2> SUFFICES ASSUME Inv PROVE KernelConsistent
    OBVIOUS
  <2>1. KInv(k, {}) /\ WaitQueuesOK(k, Taken)
    BY DEF Inv, Orderly
  <2>2. ReadyQueuesOK(k) /\ HintOK(k) /\ TimeoutQueueOK(k)
    BY <2>1 DEF KInv, ReadyExcept, ReadyQueuesOK
  <2>3. WaitersExact
    BY <2>1 DEF WaitersExact, Taken
  <2> QED
    BY <2>2, <2>3 DEF Inv, KernelConsistent, SchedulerConsistent, Scheduled, td
<1> QED
  BY <1>1, Invariance, PTL

\* Two tasks never hold one mutex: who was told that it has locked a mutex owns it until
\* it unlocks or destroys it, with every protocol, though a spinning task sets LOCK and
\* OWNER_TD in separate steps and a mutex is handed over while its next owner sleeps.
THEOREM MutexesExclude == Spec => []MutualExclusion
<1>1. Inv => MutualExclusion
  <2> SUFFICES ASSUME Inv, NEW t \in Task, NEW m \in held[t]
               PROVE  mutex[m].LOCK /\ mutex[m].OWNER_TD = t
    BY DEF MutualExclusion
  <2>1. m \in Mutex /\ mutex[m].OWNER_TD = t
    BY DEF Inv, TypeOK, HeldOK
  <2> QED
    BY <2>1, NullIs DEF Inv, OwnerOK
<1> QED
  BY <1>1, Invariance, PTL
=============================================================================
