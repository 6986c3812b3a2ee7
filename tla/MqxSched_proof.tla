---------------------------- MODULE MqxSched_proof ----------------------------
(***************************************************************************)
(* The safety invariants of the scheduler, for any number of tasks,          *)
(* priorities, delays and time slices.                                       *)
(***************************************************************************)
EXTENDS MqxSched, MqxKernel_proof

\* The inductive invariant.  RunsHighestPriority alone is not inductive: the next task
\* that is dispatched is the one the ready queues and the hint lead to.
Inv == KInv(k, {}) /\ RunningOK(k)

\* A kernel whose active task has the highest priority is a correct one.
LEMMA TopIsRunningOK ==
    ASSUME NEW j, TopRuns(j)
    PROVE  RunningOK(j)
BY DEF TopRuns, RunningOK

\* A call that changes flags and time slices only.
LEMMA FlagsInv ==
    ASSUME Inv, NEW v \in Kernel,
           v.READY_Q = k.READY_Q, v.CURRENT_READY_Q = k.CURRENT_READY_Q,
           v.MY_QUEUE = k.MY_QUEUE, v.TD_STATE = k.TD_STATE,
           v.ON_TIMEOUT_Q = k.ON_TIMEOUT_Q, v.TIMEOUT_QUEUE = k.TIMEOUT_QUEUE,
           v.TIMEOUT = k.TIMEOUT, v.ACTIVE_PTR = k.ACTIVE_PTR
    PROVE  /\ KInv(v, {})
           /\ IsReady(v, v.ACTIVE_PTR)
           /\ k.PREEMPTION_DISABLED \subseteq v.PREEMPTION_DISABLED => RunningOK(v)
<1>1. k.ACTIVE_PTR \in Task
  BY KernelFields DEF Inv, KInv
<1>2. KInv(v, {}) /\ \A u \in Task : IsReady(v, u) <=> IsReady(k, u)
  BY Frame DEF Inv
<1>3. IsReady(v, v.ACTIVE_PTR)
  BY <1>1, <1>2 DEF Inv, RunningOK
<1> QED
  BY <1>1, <1>2, <1>3 DEF Inv, RunningOK

\* The invariant holds when the first task is dispatched.
LEMMA InitInv == Init => Inv
<1>1. KInv(Boot, {}) /\ RunningOK(Boot)
  BY BootInv, TopIsRunningOK
<1> QED
  BY <1>1 DEF Init, Inv

\* Every kernel call and every interrupt preserves the invariant.
LEMMA NextInv == Inv /\ [Next]_k => Inv'
<1> SUFFICES ASSUME Inv, [Next]_k
             PROVE  Inv'
  OBVIOUS
<1>1. /\ KInv(k, {}) /\ RunningOK(k) /\ IsReady(k, k.ACTIVE_PTR)
      /\ k \in Kernel /\ k.ACTIVE_PTR \in Task
      /\ k.PREEMPTION_DISABLED \in SUBSET Task /\ k.TIME_SLICE_TASK \in SUBSET Task
      /\ k.TIME_SLICE \in [Task -> 0 .. MaxTimeSlice]
  BY KernelFields DEF Inv, KInv, RunningOK
<1>2. CASE task_block
  <2>1. KInv(TaskBlock(k), {}) /\ TopRuns(TaskBlock(k))
    BY <1>1, <1>2, TaskBlockInv DEF task_block, Caller
  <2> QED
    BY <1>2, <2>1, TopIsRunningOK DEF task_block, Inv
<1>3. ASSUME NEW t \in Task, task_ready(t)
      PROVE  Inv'
  <2> DEFINE j == TASK_READY(k, t)
  <2>1. /\ KInv(j, {} \ {t}) /\ j.ACTIVE_PTR = k.ACTIVE_PTR
        /\ \A u \in Task : IsReady(j, u) <=> u = t \/ IsReady(k, u)
    <3>1. t \notin k.ON_TIMEOUT_Q /\ k.TD_STATE[t] # "READY"
      BY <1>3 DEF task_ready, Readyable
    <3> QED
      BY <1>1, <3>1, TaskReadyInv, Zenon
  <2>2. KInv(j, {}) /\ IsReady(j, j.ACTIVE_PTR)
    <3>1. {} \ {t} = {}
      OBVIOUS
    <3>2. KInv(j, {})
      BY <2>1, <3>1
    <3> QED
      BY <1>1, <2>1, <3>2
  <2>3. k' = CHECK_RUN_SCHEDULER(j)
    BY <1>3 DEF task_ready
  <2> HIDE DEF j
  <2> QED
    BY <2>2, <2>3, CheckRunInv, TopIsRunningOK DEF Inv
<1>4. CASE sched_yield
  <2>1. KInv(SchedYield(k), {}) /\ TopRuns(SchedYield(k))
    BY <1>1, SchedYieldInv
  <2> QED
    BY <1>4, <2>1, TopIsRunningOK DEF sched_yield, Inv
<1>5. ASSUME NEW n \in Int, Caller
      PROVE  /\ KInv(time_delay_internal(k, k.ACTIVE_PTR, n), {})
             /\ TopRuns(time_delay_internal(k, k.ACTIVE_PTR, n))
  BY <1>1, <1>5, TimeDelayInv DEF Caller
<1>6. ASSUME NEW n \in 0 .. MaxDelay, time_delay_ticks(n)
      PROVE  Inv'
  <2>1. n \in Int /\ Caller
    BY <1>6 DEF time_delay_ticks
  <2>2. CASE n = 0
    <3>1. k' = SchedYield(k)
      BY <1>6, <2>2 DEF time_delay_ticks
    <3> QED
      BY <1>1, <3>1, SchedYieldInv, TopIsRunningOK DEF Inv
  <2>3. CASE n # 0
    <3>1. k' = time_delay_internal(k, k.ACTIVE_PTR, n)
      BY <1>6, <2>3 DEF time_delay_ticks
    <3> QED
      BY <1>5, <2>1, <3>1, TopIsRunningOK DEF Inv
  <2> QED
    BY <2>2, <2>3
<1>7. ASSUME NEW n \in -1 .. MaxDelay, time_delay_until(n)
      PROVE  Inv'
  <2>1. n \in Int /\ Caller /\ k' = time_delay_internal(k, k.ACTIVE_PTR, n)
    BY <1>7 DEF time_delay_until
  <2> QED
    BY <1>5, <2>1, TopIsRunningOK DEF Inv
<1>8. ASSUME NEW t \in Task, time_dequeue(t)
      PROVE  Inv'
  <2> DEFINE j == TIME_DEQUEUE(k, t)
  <2>1. /\ KInv(j, {}) /\ j.ACTIVE_PTR = k.ACTIVE_PTR /\ j.MY_QUEUE = k.MY_QUEUE
        /\ j.PREEMPTION_DISABLED = k.PREEMPTION_DISABLED
        /\ \A u \in Task : IsReady(j, u) <=> IsReady(k, u)
    BY <1>1, TimeDequeueInv
  <2>2. k' = j
    BY <1>8 DEF time_dequeue
  <2> HIDE DEF j
  <2>3. RunningOK(j)
    BY <1>1, <2>1 DEF RunningOK
  <2> QED
    BY <2>1, <2>2, <2>3 DEF Inv
<1>9. ASSUME NEW t \in Task, NEW p \in 0 .. LOWEST_TASK_PRIORITY, task_set_priority(t, p)
      PROVE  Inv'
  <2>1. p \in Priority
    BY KernelAssumption DEF Priority, IDLE_PRIORITY
  <2>2. t # Idle /\ k' = TaskSetPriority(k, t, p)
    BY <1>9 DEF task_set_priority
  <2> QED
    BY <1>1, <2>1, <2>2, TaskSetPriorityInv, TopIsRunningOK DEF Inv
<1>10. CASE task_stop_preemption
  <2> DEFINE P == k.PREEMPTION_DISABLED \cup {k.ACTIVE_PTR}
             v == [k EXCEPT !.PREEMPTION_DISABLED = P]
  <2>1. P \in SUBSET Task /\ k.PREEMPTION_DISABLED \subseteq P
    BY <1>1
  <2> HIDE DEF P
  <2>2. v \in Kernel /\ v.PREEMPTION_DISABLED = P
    BY <1>1, <2>1 DEF Kernel
  <2>3. /\ v.READY_Q = k.READY_Q /\ v.CURRENT_READY_Q = k.CURRENT_READY_Q
        /\ v.MY_QUEUE = k.MY_QUEUE /\ v.TD_STATE = k.TD_STATE
        /\ v.ON_TIMEOUT_Q = k.ON_TIMEOUT_Q /\ v.TIMEOUT_QUEUE = k.TIMEOUT_QUEUE
        /\ v.TIMEOUT = k.TIMEOUT /\ v.ACTIVE_PTR = k.ACTIVE_PTR
    BY <1>1 DEF Kernel
  <2>4. k' = v
    BY <1>10 DEF task_stop_preemption, P
  <2> HIDE DEF v
  <2> QED
    BY <2>1, <2>2, <2>3, <2>4, FlagsInv DEF Inv
<1>11. CASE task_start_preemption
  <2> DEFINE P == k.PREEMPTION_DISABLED \ {k.ACTIVE_PTR}
             v == [k EXCEPT !.PREEMPTION_DISABLED = P]
  <2>1. P \in SUBSET Task
    BY <1>1
  <2> HIDE DEF P
  <2>2. v \in Kernel
    BY <1>1, <2>1 DEF Kernel
  <2>3. /\ v.READY_Q = k.READY_Q /\ v.CURRENT_READY_Q = k.CURRENT_READY_Q
        /\ v.MY_QUEUE = k.MY_QUEUE /\ v.TD_STATE = k.TD_STATE
        /\ v.ON_TIMEOUT_Q = k.ON_TIMEOUT_Q /\ v.TIMEOUT_QUEUE = k.TIMEOUT_QUEUE
        /\ v.TIMEOUT = k.TIMEOUT /\ v.ACTIVE_PTR = k.ACTIVE_PTR
    BY <1>1 DEF Kernel
  <2>4. k' = CHECK_RUN_SCHEDULER(v)
    BY <1>11 DEF task_start_preemption, P
  <2> HIDE DEF v
  <2>5. KInv(v, {}) /\ IsReady(v, v.ACTIVE_PTR)
    BY <2>2, <2>3, FlagsInv
  <2> QED
    BY <2>4, <2>5, CheckRunInv, TopIsRunningOK DEF Inv
<1>12. ASSUME NEW t \in Task, NEW rr \in BOOLEAN, sched_set_policy(t, rr)
       PROVE  Inv'
  <2> DEFINE S == IF rr THEN k.TIME_SLICE_TASK \cup {t} ELSE k.TIME_SLICE_TASK \ {t}
             v == [k EXCEPT !.TIME_SLICE_TASK = S]
  <2>1. S \in SUBSET Task
    BY <1>1
  <2> HIDE DEF S
  <2>2. v \in Kernel /\ v.PREEMPTION_DISABLED = k.PREEMPTION_DISABLED
    BY <1>1, <2>1 DEF Kernel
  <2>3. /\ v.READY_Q = k.READY_Q /\ v.CURRENT_READY_Q = k.CURRENT_READY_Q
        /\ v.MY_QUEUE = k.MY_QUEUE /\ v.TD_STATE = k.TD_STATE
        /\ v.ON_TIMEOUT_Q = k.ON_TIMEOUT_Q /\ v.TIMEOUT_QUEUE = k.TIMEOUT_QUEUE
        /\ v.TIMEOUT = k.TIMEOUT /\ v.ACTIVE_PTR = k.ACTIVE_PTR
    BY <1>1 DEF Kernel
  <2>4. k' = v
    BY <1>12 DEF sched_set_policy, S
  <2> HIDE DEF v
  <2> QED
    BY <2>2, <2>3, <2>4, FlagsInv DEF Inv
<1>13. ASSUME NEW t \in Task, NEW n \in 0 .. MaxTimeSlice, sched_set_rr_interval(t, n)
       PROVE  Inv'
  <2> DEFINE S == [k.TIME_SLICE EXCEPT ![t] = n]
             v == [k EXCEPT !.TIME_SLICE = S]
  <2>1. S \in [Task -> 0 .. MaxTimeSlice]
    BY <1>1
  <2> HIDE DEF S
  <2>2. v \in Kernel /\ v.PREEMPTION_DISABLED = k.PREEMPTION_DISABLED
    BY <1>1, <2>1 DEF Kernel
  <2>3. /\ v.READY_Q = k.READY_Q /\ v.CURRENT_READY_Q = k.CURRENT_READY_Q
        /\ v.MY_QUEUE = k.MY_QUEUE /\ v.TD_STATE = k.TD_STATE
        /\ v.ON_TIMEOUT_Q = k.ON_TIMEOUT_Q /\ v.TIMEOUT_QUEUE = k.TIMEOUT_QUEUE
        /\ v.TIMEOUT = k.TIMEOUT /\ v.ACTIVE_PTR = k.ACTIVE_PTR
    BY <1>1 DEF Kernel
  <2>4. k' = v
    BY <1>13 DEF sched_set_rr_interval, S
  <2> HIDE DEF v
  <2> QED
    BY <2>2, <2>3, <2>4, FlagsInv DEF Inv
<1>14. CASE Tick
  BY <1>1, <1>14, TickInv DEF Tick, Inv
<1>15. ASSUME NEW t \in Task, IsrTaskReady(t)
       PROVE  Inv'
  <2> DEFINE j == TASK_READY(k, t)
  <2>1. /\ KInv(j, {} \ {t}) /\ j.ACTIVE_PTR = k.ACTIVE_PTR
        /\ \A u \in Task : IsReady(j, u) <=> u = t \/ IsReady(k, u)
    <3>1. t \notin k.ON_TIMEOUT_Q /\ k.TD_STATE[t] # "READY"
      BY <1>15 DEF IsrTaskReady, Readyable
    <3> QED
      BY <1>1, <3>1, TaskReadyInv, Zenon
  <2>2. KInv(j, {}) /\ IsReady(j, j.ACTIVE_PTR)
    <3>1. {} \ {t} = {}
      OBVIOUS
    <3>2. KInv(j, {})
      BY <2>1, <3>1
    <3> QED
      BY <1>1, <2>1, <3>2
  <2>3. k' = IsrReturn(j)
    BY <1>15 DEF IsrTaskReady
  <2> HIDE DEF j
  <2> QED
    BY <2>2, <2>3, IsrReturnInv DEF Inv
<1>16. CASE UNCHANGED k
  BY <1>16 DEF Inv
<1> QED
  BY <1>2, <1>3, <1>4, <1>6, <1>7, <1>8, <1>9, <1>10, <1>11, <1>12, <1>13, <1>14,
     <1>15, <1>16 DEF Next, TaskCall

\* The invariant implies what the runs check.
LEMMA InvImplies ==
    Inv => TypeOK /\ ReadyQueuesExact /\ HintIsSafe /\ RunsHighestPriority /\ TimeoutQueueExact
<1>1. Inv => ReadyQueuesOK(k)
  BY DEF Inv, KInv, ReadyExcept, ReadyQueuesOK
<1> QED
  BY <1>1 DEF Inv, KInv, TypeOK, ReadyQueuesExact, HintIsSafe, RunsHighestPriority,
              TimeoutQueueExact

(***************************************************************************)
(* Delays end on time.  Only the timer interrupt shortens a delay.          *)
(***************************************************************************)
\* What WakesOnTime asks of a step from j to v.
OnTime(j, v) ==
    \A t \in j.ON_TIMEOUT_Q :
        /\ IsReady(v, t) => j.TIMEOUT[t] <= 1
        /\ t \in v.ON_TIMEOUT_Q /\ v.TIMEOUT[t] < j.TIMEOUT[t] => v.TIMEOUT[t] > 0

\* The timeout queue's tasks are the same, and so is the time they have left.
SameDelays(j, v) == v.ON_TIMEOUT_Q = j.ON_TIMEOUT_Q /\ v.TIMEOUT = j.TIMEOUT

\* A step that leaves the delays alone ends none.
LEMMA SameIsOnTime ==
    ASSUME NEW j \in Kernel, NEW v, SameDelays(j, v)
    PROVE  OnTime(j, v)
<1>1. j.ON_TIMEOUT_Q \in SUBSET Task /\ j.TIMEOUT \in [Task -> Int]
  BY KernelFields
<1> QED
  BY <1>1 DEF SameDelays, OnTime, IsReady

\* Switching tasks leaves the delays alone.
LEMMA SwitchDelays ==
    ASSUME NEW j \in Kernel
    PROVE  /\ SameDelays(j, Dispatch(j))
           /\ SameDelays(j, CHECK_RUN_SCHEDULER(j))
           /\ SameDelays(j, IsrReturn(j))
<1>1. SameDelays(j, Dispatch(j))
  BY DEF SameDelays, Dispatch, Kernel
<1>2. SameDelays(j, j)
  BY DEF SameDelays
<1> QED
  BY <1>1, <1>2 DEF CHECK_RUN_SCHEDULER, IsrReturn

\* So do _QUEUE_UNLINK from a ready queue, _TASK_READY and a change of MY_QUEUE.
LEMMA ReadyQueueDelays ==
    ASSUME NEW j \in Kernel, NEW t \in Task
    PROVE  /\ SameDelays(j, UnlinkReady(j, t))
           /\ SameDelays(j, TASK_READY(j, t))
           /\ \A p \in Priority : SameDelays(j, [j EXCEPT !.MY_QUEUE[t] = p])
BY DEF SameDelays, UnlinkReady, TASK_READY, Kernel

\* _task_block
LEMMA BlockDelays ==
    ASSUME NEW j, KInv(j, {}), IsReady(j, j.ACTIVE_PTR), j.ACTIVE_PTR # Idle
    PROVE  SameDelays(j, TaskBlock(j))
<1> DEFINE f == [j.TD_STATE EXCEPT ![j.ACTIVE_PTR] = IF @ = "READY" THEN "BLOCKED" ELSE @]
           b == [j EXCEPT !.TD_STATE = f]
           u == UnlinkReady(b, j.ACTIVE_PTR)
<1>1. j \in Kernel /\ j.ACTIVE_PTR \in Task /\ j.TD_STATE \in [Task -> State]
  BY KernelFields DEF KInv
<1>2. f \in [Task -> State]
  BY <1>1, States
<1>3. TaskBlock(j) = Dispatch(u)
  BY DEF TaskBlock
<1> HIDE DEF f
<1>4. b \in Kernel /\ SameDelays(j, b)
  BY <1>1, <1>2 DEF Kernel, SameDelays
<1> HIDE DEF b
<1>5. SameDelays(b, u)
  BY <1>1, <1>4, ReadyQueueDelays
<1>6. u.TIMEOUT = Dispatch(u).TIMEOUT /\ u.ON_TIMEOUT_Q = Dispatch(u).ON_TIMEOUT_Q
  BY <1>1, <1>4 DEF u, UnlinkReady, Dispatch, Kernel
<1> QED
  BY <1>3, <1>4, <1>5, <1>6 DEF SameDelays

\* A task at the tail of its ready queue has been unlinked first and readied again.
LEMMA RotateDelays ==
    ASSUME NEW j, KInv(j, {}), NEW t \in Task, IsReady(j, t)
    PROVE  SameDelays(j, TASK_READY(UnlinkReady(j, t), t))
<1> DEFINE u == UnlinkReady(j, t)
<1>1. j \in Kernel /\ u \in Kernel
  BY UnlinkReadyInv DEF KInv
<1>2. SameDelays(j, u)
  BY <1>1, ReadyQueueDelays
<1> HIDE DEF u
<1>3. SameDelays(u, TASK_READY(u, t))
  BY <1>1, ReadyQueueDelays
<1> QED
  BY <1>2, <1>3 DEF SameDelays, u

\* _sched_yield
LEMMA YieldDelays ==
    ASSUME NEW j, KInv(j, {}), IsReady(j, j.ACTIVE_PTR)
    PROVE  SameDelays(j, SchedYield(j))
<1> DEFINE r == TASK_READY(UnlinkReady(j, j.ACTIVE_PTR), j.ACTIVE_PTR)
<1>1. j.ACTIVE_PTR \in Task
  BY KernelFields DEF KInv
<1>2. SameDelays(j, r) /\ r \in Kernel
  BY <1>1, RotateDelays, RotateInv DEF KInv
<1>3. SchedYield(j) = Dispatch(r)
  BY DEF SchedYield
<1> HIDE DEF r
<1> QED
  BY <1>2, <1>3, SwitchDelays DEF SameDelays

\* _sched_set_priority_internal
LEMMA SetPriorityDelays ==
    ASSUME NEW j, KInv(j, {}), NEW t \in Task, t # Idle, NEW p \in Priority
    PROVE  SameDelays(j, sched_set_priority_internal(j, t, p))
<1> DEFINE u == UnlinkReady(j, t)
           w == [u EXCEPT !.MY_QUEUE[t] = p]
           moved == TASK_READY(w, t)
           v == sched_set_priority_internal(j, t, p)
<1>0. j \in Kernel
  BY DEF KInv
<1>1. CASE IsReady(j, t)
  <2>1. KInv(u, {t}) /\ u \in Kernel /\ SameDelays(j, u)
    BY <1>0, <1>1, UnlinkReadyInv, ReadyQueueDelays DEF KInv
  <2>2. t \in {t}
    OBVIOUS
  <2> HIDE DEF u
  <2>3. w \in Kernel /\ SameDelays(u, w) /\ KInv(w, {t})
    BY <2>1, <2>2, ReadyQueueDelays, ChangePriorityInv DEF KInv
  <2>4. t \notin w.ON_TIMEOUT_Q
    BY <1>1, <2>1, <2>3 DEF SameDelays, IsReady
  <2> HIDE DEF w
  <2>5. SameDelays(w, moved) /\ moved \in Kernel
    BY <2>2, <2>3, <2>4, ReadyQueueDelays, TaskReadyInv DEF KInv
  <2>6. v = moved \/ v = Dispatch(moved)
    BY <1>1 DEF sched_set_priority_internal, w, u
  <2> HIDE DEF moved
  <2> QED
    BY <2>1, <2>3, <2>5, <2>6, SwitchDelays DEF SameDelays
<1>2. CASE ~IsReady(j, t)
  BY <1>0, <1>2, ReadyQueueDelays DEF sched_set_priority_internal
<1> QED
  BY <1>1, <1>2

\* _task_set_priority
LEMMA TaskSetPriorityDelays ==
    ASSUME NEW j, KInv(j, {}), IsReady(j, j.ACTIVE_PTR), NEW t \in Task, t # Idle,
           NEW p \in Priority
    PROVE  SameDelays(j, TaskSetPriority(j, t, p))
<1> DEFINE h == [j.HOME_QUEUE EXCEPT ![t] = p]
           k1 == [j EXCEPT !.HOME_QUEUE = h]
           k2 == IF j.BOOSTED[t] = 0 \/ p < j.MY_QUEUE[t]
                 THEN sched_set_priority_internal(k1, t, p)
                 ELSE k1
           c  == /\ j.TD_STATE[t] = "TASK_QUEUE_BLOCKED"
                 /\ t \notin j.ON_TIMEOUT_Q
                 /\ j.INFO[t] \in PriorityQueue
           w  == [k2.QUEUE EXCEPT ![j.INFO[t]] =
                     sched_insert_priorityq_internal(k2, Unlink(@, t), t)]
           k3 == IF c THEN [k2 EXCEPT !.QUEUE = w] ELSE k2
<1>1. j \in Kernel /\ j.HOME_QUEUE \in [Task -> Priority]
  BY KernelFields DEF KInv
<1>2. TaskSetPriority(j, t, p) = CHECK_RUN_SCHEDULER(k3)
  BY DEF TaskSetPriority
<1>3. h \in [Task -> Priority]
  BY <1>1
<1> HIDE DEF h
<1>4. /\ k1 \in Kernel /\ SameDelays(j, k1)
      /\ k1.READY_Q = j.READY_Q /\ k1.CURRENT_READY_Q = j.CURRENT_READY_Q
      /\ k1.MY_QUEUE = j.MY_QUEUE /\ k1.TD_STATE = j.TD_STATE
      /\ k1.ON_TIMEOUT_Q = j.ON_TIMEOUT_Q /\ k1.TIMEOUT_QUEUE = j.TIMEOUT_QUEUE
      /\ k1.TIMEOUT = j.TIMEOUT /\ k1.ACTIVE_PTR = j.ACTIVE_PTR
  BY <1>1, <1>3 DEF Kernel, SameDelays
<1> HIDE DEF k1
<1>5. KInv(k1, {}) /\ IsReady(k1, k1.ACTIVE_PTR)
  BY <1>4, Frame DEF IsReady
<1>6. SameDelays(k1, k2) /\ k2 \in Kernel
  BY <1>4, <1>5, SetPriorityDelays, SetPriorityInv DEF SameDelays, KInv
<1> HIDE DEF k2, w
<1>7. SameDelays(k2, k3) /\ SameDelays(k3, CHECK_RUN_SCHEDULER(k3))
  BY <1>6 DEF SameDelays, Kernel, CHECK_RUN_SCHEDULER, Dispatch
<1> QED
  BY <1>2, <1>4, <1>6, <1>7 DEF SameDelays

\* _time_delay_internal: nobody else's delay changes.
LEMMA DelayDelays ==
    ASSUME NEW j, KInv(j, {}), NEW t \in Task, t # Idle, IsReady(j, t), NEW n \in Int
    PROVE  LET v == time_delay_internal(j, t, n)
           IN  /\ v.ON_TIMEOUT_Q = j.ON_TIMEOUT_Q \cup {t}
               /\ \A u \in Task \ {t} : v.TIMEOUT[u] = j.TIMEOUT[u]
<1> DEFINE f == [j.TIMEOUT EXCEPT ![t] = n]
           k1 == [j EXCEPT !.TIMEOUT = f]
           u == UnlinkReady(k1, t)
           w == InsertBefore(u.TIMEOUT_QUEUE, t, DELAY_ENQUEUE_POLICY(k1, t))
           o == u.ON_TIMEOUT_Q \cup {t}
           d == [u EXCEPT !.TIMEOUT_QUEUE = w, !.ON_TIMEOUT_Q = o]
<1>1. j \in Kernel /\ j.TIMEOUT \in [Task -> Int]
  BY KernelFields DEF KInv
<1>2. time_delay_internal(j, t, n) = Dispatch(d)
  BY DEF time_delay_internal
<1>3. f \in [Task -> Int] /\ \A x \in Task \ {t} : f[x] = j.TIMEOUT[x]
  BY <1>1
<1> HIDE DEF f
<1>4. k1 \in Kernel /\ k1.ON_TIMEOUT_Q = j.ON_TIMEOUT_Q /\ k1.TIMEOUT = f
  BY <1>1, <1>3 DEF Kernel
<1> HIDE DEF k1
<1>5. SameDelays(k1, u)
  BY <1>4, ReadyQueueDelays
<1> HIDE DEF w, o
<1>6. Dispatch(d).ON_TIMEOUT_Q = o /\ Dispatch(d).TIMEOUT = u.TIMEOUT
  BY <1>4 DEF d, u, UnlinkReady, Dispatch, Kernel
<1> QED
  BY <1>2, <1>3, <1>4, <1>5, <1>6 DEF SameDelays, o

\* _TIME_DEQUEUE: nobody else's delay changes, and the task is not made ready.
LEMMA DequeueDelays ==
    ASSUME NEW j, KInv(j, {}), NEW t \in j.ON_TIMEOUT_Q
    PROVE  LET v == TIME_DEQUEUE(j, t)
           IN  /\ v.ON_TIMEOUT_Q = j.ON_TIMEOUT_Q \ {t}
               /\ \A u \in Task \ {t} : v.TIMEOUT[u] = j.TIMEOUT[u]
               /\ ~IsReady(v, t)
<1>1. j \in Kernel /\ j.TIMEOUT \in [Task -> Int] /\ j.ON_TIMEOUT_Q \in SUBSET Task
  BY KernelFields DEF KInv
<1>2. t \in Task
  BY <1>1
<1>3. TIME_DEQUEUE(j, t).TD_STATE[t] # "READY"
  BY <1>2, TimeDequeueInv
<1> QED
  BY <1>1, <1>2, <1>3 DEF TIME_DEQUEUE, Kernel, IsReady

\* The timer interrupt's loop readies a delayed task exactly if its time has come: the queue
\* is sorted, so that the loop may stop at the first entry that is not due.
LEMMA ExpireDelays ==
    ASSUME NEW j, KInv(j, {})
    PROVE  LET v == Expire(j)
           IN  \A t \in j.ON_TIMEOUT_Q :
                  \/ Due(j, t) /\ t \notin v.ON_TIMEOUT_Q
                  \/ /\ ~Due(j, t) /\ t \in v.ON_TIMEOUT_Q
                     /\ v.TIMEOUT[t] = j.TIMEOUT[t]
<1> DEFINE w == j.TIMEOUT_QUEUE
           n == CHOOSE i \in 0 .. Len(w) :
                   /\ \A x \in 1 .. i : Due(j, w[x])
                   /\ i < Len(w) => ~Due(j, w[i + 1])
           due == SubSeq(w, 1, n)
           rest == SubSeq(w, n + 1, Len(w))
           o == j.ON_TIMEOUT_Q \ Elems(due)
           f == [t \in Task |-> IF t \in Elems(due) THEN 0 ELSE j.TIMEOUT[t]]
           d == [j EXCEPT !.TIMEOUT_QUEUE = rest, !.ON_TIMEOUT_Q = o, !.TIMEOUT = f,
                          !.QUEUE = LeaveAuxQueues(j, Elems(due))]
           v == ReadyAll(d, due)
<1>1. /\ j \in Kernel /\ j.ON_TIMEOUT_Q \in SUBSET Task /\ w \in Seq(Task)
      /\ j.TIMEOUT \in [Task -> Int]
  BY KernelFields DEF KInv
<1>2. /\ n \in 0 .. Len(w)
      /\ \A x \in 1 .. n : Due(j, w[x])
      /\ n < Len(w) => ~Due(j, w[n + 1])
  BY <1>1, DuePrefix
<1>3. Expire(j) = v
  BY DEF Expire
<1> HIDE DEF n
<1>4. Elems(due) = {w[x] : x \in 1 .. n}
  BY <1>1, <1>2 DEF Elems
<1>5. /\ Elems(w) = j.ON_TIMEOUT_Q
      /\ \A x, y \in 1 .. Len(w) : x < y => j.TIMEOUT[w[x]] <= j.TIMEOUT[w[y]]
  BY DEF KInv, TimeoutQueueOK
<1>6. ASSUME NEW t \in j.ON_TIMEOUT_Q
      PROVE  Due(j, t) <=> t \in Elems(due)
  <2>1. PICK x \in 1 .. Len(w) : w[x] = t
    BY <1>5 DEF Elems
  <2>2. CASE x <= n
    <3>1. x \in 1 .. n
      BY <1>1, <1>2, <2>1, <2>2
    <3> QED
      BY <1>2, <1>4, <2>1, <3>1
  <2>3. CASE x > n
    <3>1. n + 1 \in 1 .. Len(w) /\ n < Len(w) /\ (n + 1 < x \/ n + 1 = x)
      BY <1>1, <1>2, <2>1, <2>3
    <3>2. j.TIMEOUT[w[n + 1]] <= j.TIMEOUT[t]
      <4>1. w[n + 1] \in Task /\ t \in Task
        BY <1>1, <3>1
      <4>2. j.TIMEOUT[t] \in Int
        BY <1>1, <4>1
      <4> QED
        BY <1>5, <2>1, <3>1, <4>2
    <3>3. ~Due(j, t)
      <4>1. w[n + 1] \in Task /\ t \in Task
        BY <1>1, <3>1
      <4>2. j.TIMEOUT[w[n + 1]] \in Int /\ j.TIMEOUT[t] \in Int
        BY <1>1, <4>1
      <4> QED
        BY <1>2, <3>1, <3>2, <4>2 DEF Due
    <3>4. ASSUME t \in Elems(due) PROVE FALSE
      <4>1. PICK y \in 1 .. n : w[y] = t
        BY <1>4, <3>4
      <4> QED
        BY <1>2, <3>3, <4>1
    <3> QED
      BY <3>3, <3>4
  <2> QED
    BY <1>2, <2>1, <2>2, <2>3
<1>7. v.ON_TIMEOUT_Q = o /\ v.TIMEOUT = f
  <2> HIDE DEF due, rest, o, f
  <2> QED
    BY <1>1 DEF v, d, ReadyAll, Kernel
<1> HIDE DEF v, due
<1> QED
  BY <1>1, <1>3, <1>6, <1>7

\* The timer interrupt: the delays that end with this tick are those with one tick or less
\* to go, and every other delay has ticks left after it.
LEMMA TickOnTime ==
    ASSUME NEW j, KInv(j, {}), IsReady(j, j.ACTIVE_PTR)
    PROVE  OnTime(j, IsrReturn(time_notify_kernel(j)))
<1> DEFINE f == [t \in Task |-> IF t \in j.ON_TIMEOUT_Q THEN j.TIMEOUT[t] - 1
                                                        ELSE j.TIMEOUT[t]]
           i == IncTime(j)
           e == Expire(i)
           s == TimeSlice(e)
           v == IsrReturn(s)
<1>1. /\ j \in Kernel /\ j.ACTIVE_PTR \in Task /\ j.ON_TIMEOUT_Q \in SUBSET Task
      /\ j.TIMEOUT \in [Task -> Int]
  BY KernelFields DEF KInv
<1>2. i.ON_TIMEOUT_Q = j.ON_TIMEOUT_Q /\ i.TIMEOUT = f
  <2>1. i = [j EXCEPT !.TIMEOUT = f]
    BY DEF IncTime
  <2> HIDE DEF i, f
  <2> QED
    BY <1>1, <2>1 DEF Kernel
<1>3. KInv(i, {}) /\ i.ACTIVE_PTR = j.ACTIVE_PTR /\ IsReady(i, j.ACTIVE_PTR)
  BY <1>1, IncTimeInv
<1> HIDE DEF i
<1>4. \A t \in i.ON_TIMEOUT_Q :
         \/ Due(i, t) /\ t \notin e.ON_TIMEOUT_Q
         \/ /\ ~Due(i, t) /\ t \in e.ON_TIMEOUT_Q
            /\ e.TIMEOUT[t] = i.TIMEOUT[t]
  BY <1>3, ExpireDelays
<1>5. KInv(e, {}) /\ IsReady(e, e.ACTIVE_PTR)
  BY <1>1, <1>3, ExpireInv
<1> HIDE DEF e
<1>6. SameDelays(e, s) /\ s \in Kernel
  <2>1. e \in Kernel /\ e.ACTIVE_PTR \in Task
    BY <1>5, KernelFields DEF KInv
  <2>2. SameDelays(e, TASK_READY(UnlinkReady(e, e.ACTIVE_PTR), e.ACTIVE_PTR))
    BY <1>5, <2>1, RotateDelays
  <2>3. \A c : SameDelays(e, [e EXCEPT !.CURRENT_TIME_SLICE[e.ACTIVE_PTR] = c])
    BY <2>1 DEF SameDelays, Kernel
  <2>4. SameDelays(e, e)
    BY DEF SameDelays
  <2>5. s \in Kernel
    BY <1>5, TimeSliceInv DEF KInv
  <2> QED
    BY <2>2, <2>3, <2>4, <2>5 DEF TimeSlice
<1> HIDE DEF s
<1>7. SameDelays(s, v)
  BY <1>6, SwitchDelays
<1> HIDE DEF v
<1>8. ASSUME NEW t \in j.ON_TIMEOUT_Q
      PROVE  /\ IsReady(v, t) => j.TIMEOUT[t] <= 1
             /\ t \in v.ON_TIMEOUT_Q /\ v.TIMEOUT[t] < j.TIMEOUT[t] => v.TIMEOUT[t] > 0
  <2>1. t \in i.ON_TIMEOUT_Q /\ i.TIMEOUT[t] = j.TIMEOUT[t] - 1 /\ j.TIMEOUT[t] \in Int
    BY <1>1, <1>2
  <2> QED
    BY <1>4, <1>6, <1>7, <2>1 DEF SameDelays, IsReady, Due
<1>9. v = IsrReturn(time_notify_kernel(j))
  BY DEF v, s, e, i, time_notify_kernel
<1> QED
  BY <1>8, <1>9 DEF OnTime

\* Every kernel call and every interrupt ends the delays it ends on time.
LEMMA NextOnTime == Inv /\ [Next]_k => [OnTime(k, k')]_k
<1> SUFFICES ASSUME Inv, Next
             PROVE  OnTime(k, k')
  OBVIOUS
<1>1. /\ KInv(k, {}) /\ IsReady(k, k.ACTIVE_PTR) /\ k \in Kernel /\ k.ACTIVE_PTR \in Task
      /\ k.ON_TIMEOUT_Q \in SUBSET Task /\ k.TIMEOUT \in [Task -> Int]
  BY KernelFields DEF Inv, KInv, RunningOK
<1>2. CASE task_block
  <2>1. SameDelays(k, k')
    BY <1>1, <1>2, BlockDelays DEF task_block, Caller
  <2> QED
    BY <1>1, <2>1, SameIsOnTime
<1>3. ASSUME NEW t \in Task, Readyable(t), NEW v,
             v = CHECK_RUN_SCHEDULER(TASK_READY(k, t)) \/ v = IsrReturn(TASK_READY(k, t))
      PROVE  OnTime(k, v)
  <2> DEFINE j == TASK_READY(k, t)
  <2>1. j \in Kernel
    <3>1. t \notin k.ON_TIMEOUT_Q /\ k.TD_STATE[t] # "READY"
      BY <1>3 DEF Readyable
    <3>2. KInv(j, {} \ {t})
      BY <1>1, <3>1, TaskReadyInv, Zenon
    <3> QED
      BY <3>2 DEF KInv
  <2>2. SameDelays(k, j)
    BY <1>1, ReadyQueueDelays
  <2> HIDE DEF j
  <2>3. SameDelays(j, v)
    BY <1>3, <2>1, SwitchDelays DEF j
  <2>4. SameDelays(k, v)
    BY <2>2, <2>3 DEF SameDelays
  <2> QED
    BY <1>1, <2>4, SameIsOnTime
<1>4. CASE sched_yield
  BY <1>1, <1>4, YieldDelays, SameIsOnTime DEF sched_yield
<1>5. ASSUME NEW n \in Int, Caller
      PROVE  OnTime(k, time_delay_internal(k, k.ACTIVE_PTR, n))
  <2> DEFINE v == time_delay_internal(k, k.ACTIVE_PTR, n)
  <2>1. /\ v.ON_TIMEOUT_Q = k.ON_TIMEOUT_Q \cup {k.ACTIVE_PTR}
        /\ \A u \in Task \ {k.ACTIVE_PTR} : v.TIMEOUT[u] = k.TIMEOUT[u]
    BY <1>1, <1>5, DelayDelays DEF Caller
  <2>2. k.ACTIVE_PTR \notin k.ON_TIMEOUT_Q
    BY <1>1 DEF IsReady
  <2> HIDE DEF v
  <2>3. OnTime(k, v)
    BY <1>1, <2>1, <2>2 DEF OnTime, IsReady
  <2> QED
    BY <2>3 DEF v
<1>6. ASSUME NEW n \in 0 .. MaxDelay, time_delay_ticks(n)
      PROVE  OnTime(k, k')
  BY <1>1, <1>5, <1>6, YieldDelays, SameIsOnTime DEF time_delay_ticks
<1>7. ASSUME NEW n \in -1 .. MaxDelay, time_delay_until(n)
      PROVE  OnTime(k, k')
  BY <1>5, <1>7 DEF time_delay_until
<1>8. ASSUME NEW t \in Task, time_dequeue(t)
      PROVE  OnTime(k, k')
  <2>1. t \in k.ON_TIMEOUT_Q /\ k' = TIME_DEQUEUE(k, t)
    BY <1>8 DEF time_dequeue
  <2>2. /\ k'.ON_TIMEOUT_Q = k.ON_TIMEOUT_Q \ {t}
        /\ \A u \in Task \ {t} : k'.TIMEOUT[u] = k.TIMEOUT[u]
        /\ ~IsReady(k', t)
    BY <1>1, <2>1, DequeueDelays
  <2> QED
    BY <1>1, <2>2 DEF OnTime, IsReady
<1>9. ASSUME NEW t \in Task, NEW p \in 0 .. LOWEST_TASK_PRIORITY, task_set_priority(t, p)
      PROVE  OnTime(k, k')
  <2>1. p \in Priority
    BY KernelAssumption DEF Priority, IDLE_PRIORITY
  <2>2. t # Idle /\ k' = TaskSetPriority(k, t, p)
    BY <1>9 DEF task_set_priority
  <2> QED
    BY <1>1, <2>1, <2>2, TaskSetPriorityDelays, SameIsOnTime
<1>10. CASE task_stop_preemption
  <2>1. SameDelays(k, k')
    BY <1>1, <1>10 DEF task_stop_preemption, SameDelays, Kernel
  <2> QED
    BY <1>1, <2>1, SameIsOnTime
<1>11. CASE task_start_preemption
  <2> DEFINE P == k.PREEMPTION_DISABLED \ {k.ACTIVE_PTR}
             v == [k EXCEPT !.PREEMPTION_DISABLED = P]
  <2>1. P \in SUBSET Task
    BY <1>1, KernelFields
  <2>2. k' = CHECK_RUN_SCHEDULER(v)
    BY <1>11 DEF task_start_preemption
  <2> HIDE DEF P
  <2>3. v \in Kernel /\ SameDelays(k, v)
    BY <1>1, <2>1 DEF Kernel, SameDelays
  <2> HIDE DEF v
  <2>4. SameDelays(v, k')
    BY <2>2, <2>3, SwitchDelays
  <2>5. SameDelays(k, k')
    BY <2>3, <2>4 DEF SameDelays
  <2> QED
    BY <1>1, <2>5, SameIsOnTime
<1>12. ASSUME NEW t \in Task, NEW rr \in BOOLEAN, sched_set_policy(t, rr)
       PROVE  OnTime(k, k')
  <2>1. SameDelays(k, k')
    BY <1>1, <1>12 DEF sched_set_policy, SameDelays, Kernel
  <2> QED
    BY <1>1, <2>1, SameIsOnTime
<1>13. ASSUME NEW t \in Task, NEW n \in 0 .. MaxTimeSlice, sched_set_rr_interval(t, n)
       PROVE  OnTime(k, k')
  <2>1. SameDelays(k, k')
    BY <1>1, <1>13 DEF sched_set_rr_interval, SameDelays, Kernel
  <2> QED
    BY <1>1, <2>1, SameIsOnTime
<1>14. CASE Tick
  BY <1>1, <1>14, TickOnTime DEF Tick
<1>15. ASSUME NEW t \in Task, task_ready(t) \/ IsrTaskReady(t)
       PROVE  OnTime(k, k')
  BY <1>3, <1>15 DEF task_ready, IsrTaskReady
<1> QED
  BY <1>2, <1>4, <1>6, <1>7, <1>8, <1>9, <1>10, <1>11, <1>12, <1>13, <1>14, <1>15
     DEF Next, TaskCall

\* The inductive invariant holds in every state.
THEOREM Invariance == Spec => []Inv
BY InitInv, NextInv, PTL DEF Spec

\* The kernel data keeps its type.
THEOREM TypeCorrect == Spec => []TypeOK
BY Invariance, InvImplies, PTL

\* The ready queues hold exactly the ready tasks, whatever _task_block, _task_ready,
\* delays, changes of priority and interrupts do in whatever order.
THEOREM ReadyQueuesCorrect == Spec => []ReadyQueuesExact
BY Invariance, InvImplies, PTL

\* No ready task is above CURRENT_READY_Q, where the PendSV search starts.
THEOREM HintCorrect == Spec => []HintIsSafe
BY Invariance, InvImplies, PTL

\* Fixed-priority scheduling: a ready task of the highest priority runs, unless the active
\* task has stopped preemption.
THEOREM HighestPriorityRuns == Spec => []RunsHighestPriority
BY Invariance, InvImplies, PTL

\* The timeout queue is exact and sorted, which the timer interrupt's loop relies on.
THEOREM TimeoutQueueCorrect == Spec => []TimeoutQueueExact
BY Invariance, InvImplies, PTL

\* A delayed task is made ready by the tick its delay ends with, no earlier and no later,
\* whatever calls and interrupts did to the timeout queue in the meantime.
THEOREM DelaysEndOnTime == Spec => WakesOnTime
<1>1. Inv /\ [Next]_k => [\A t \in k.ON_TIMEOUT_Q :
          /\ IsReady(k', t) => k.TIMEOUT[t] <= 1
          /\ t \in k'.ON_TIMEOUT_Q /\ k'.TIMEOUT[t] < k.TIMEOUT[t] => k'.TIMEOUT[t] > 0]_k
  BY NextOnTime DEF OnTime
<1> QED
  BY <1>1, Invariance, PTL DEF Spec, WakesOnTime
=============================================================================
