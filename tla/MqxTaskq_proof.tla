---------------------------- MODULE MqxTaskq_proof ----------------------------
(***************************************************************************)
(* The safety invariants of the task queues, for any number of tasks,        *)
(* priorities and task queues: the kernel stays consistent, a queue          *)
(* BY_PRIORITY stays sorted, and no task is left behind on a queue that is   *)
(* destroyed.                                                                *)
(***************************************************************************)
EXTENDS MqxTaskq, MqxKernel_proof

\* Every waiting task waits on a task queue, by its own links.
OnlyTaskQueues(j) ==
    \A t \in Task : j.TD_STATE[t] \in WaitStates => j.TD_STATE[t] = "TASK_QUEUE_BLOCKED"

\* The queues BY_PRIORITY are sorted.
Urgent(j) == \A q \in PriorityQueue : Sorted(j.QUEUE[q], j.MY_QUEUE)

\* The kernel and its task queues inside a call.
InOrder(j) == Unscheduled(j) /\ OnlyTaskQueues(j) /\ Urgent(j)

\* The kernel and its task queues between calls.
Settled(j) == Consistent(j) /\ OnlyTaskQueues(j) /\ Urgent(j)

\* A queue that holds a task in v holds one in j.
NoneNew(j, v) == \A q \in Queue : v.QUEUE[q] # <<>> => j.QUEUE[q] # <<>>

\* A task queue that is valid is on the kernel's list; one that is being destroyed is
\* not valid, and nobody else can find it.
ListsOK ==
    /\ VALID \subseteq KERNEL_TASK_QUEUES
    /\ \A t \in Task : destroying[t] \notin VALID

\* The inductive invariant.  Between the steps of _taskq_destroy the running task need not
\* be the most urgent one, but the rest of the kernel is in order; a sorted queue stays
\* sorted only because every waiting task is one that _task_set_priority sorts in anew.
Inv ==
    /\ TaskqTypeOK
    /\ InOrder(k)
    /\ RunsHighestAfterCalls
    /\ ListsOK
    /\ NoneLeftBehind

(***************************************************************************)
(* What the kernel operations do to the task queues.                        *)
(***************************************************************************)
\* A kernel between calls is in order.
LEMMA SettledInOrder ==
    ASSUME NEW j, Settled(j)
    PROVE  InOrder(j) /\ RunningOK(j)
BY DEF Settled, InOrder, Consistent, Unscheduled, RunningOK

\* Switching tasks keeps the task queues as they are.
LEMMA SwitchedOrder ==
    ASSUME NEW j, OnlyTaskQueues(j), Urgent(j), NEW v, OnlySwitched(j, v)
    PROVE  OnlyTaskQueues(v) /\ Urgent(v) /\ NoneNew(j, v)
BY DEF OnlyTaskQueues, Urgent, NoneNew, OnlySwitched

\* The scheduler called at the end of a call, and the end of an interrupt.
LEMMA ScheduleOrder ==
    ASSUME NEW j, InOrder(j)
    PROVE  /\ Settled(CHECK_RUN_SCHEDULER(j)) /\ NoneNew(j, CHECK_RUN_SCHEDULER(j))
           /\ Settled(IsrReturn(j)) /\ NoneNew(j, IsrReturn(j))
<1>1. Consistent(CHECK_RUN_SCHEDULER(j)) /\ OnlySwitched(j, CHECK_RUN_SCHEDULER(j))
  BY CheckRunWait DEF InOrder
<1>2. Consistent(IsrReturn(j)) /\ OnlySwitched(j, IsrReturn(j))
  BY IsrReturnWait DEF InOrder
<1> QED
  BY <1>1, <1>2, SwitchedOrder DEF InOrder, Settled

\* NoneNew composes.
LEMMA NoneNewTrans ==
    ASSUME NEW i, NEW j, NEW v, NoneNew(i, j), NoneNew(j, v)
    PROVE  NoneNew(i, v)
BY DEF NoneNew

\* The timer interrupt: no task on a task queue can time out.
LEMMA TickOrder ==
    ASSUME NEW j, InOrder(j)
    PROVE  LET v == IsrReturn(time_notify_kernel(j))
           IN  Settled(v) /\ NoneNew(j, v)
<1> DEFINE v == IsrReturn(time_notify_kernel(j))
<1>1. Consistent(v) /\ \E S \in SUBSET j.ON_TIMEOUT_Q : TimedOut(j, v, S)
  BY TickWait DEF InOrder
<1> HIDE DEF v
<1>2. PICK S \in SUBSET j.ON_TIMEOUT_Q : TimedOut(j, v, S)
  BY <1>1
<1>3. /\ j \in Kernel /\ j.QUEUE \in [Queue -> Seq(Task)] /\ j.ON_TIMEOUT_Q \in SUBSET Task
      /\ WaitInv(j)
  BY KernelFields DEF InOrder, Unscheduled, KInv
<1>4. OnlyTaskQueues(v)
  <2>1. v.TD_STATE = [t \in Task |-> IF t \in S THEN "READY" ELSE j.TD_STATE[t]]
    BY <1>2 DEF TimedOut, Readied
  <2> QED
    BY <2>1, States DEF OnlyTaskQueues, InOrder
<1>5. Urgent(v)
  <2>1. ASSUME NEW q \in PriorityQueue
        PROVE  Sorted(v.QUEUE[q], v.MY_QUEUE)
    <3>1. q \in Queue /\ j.QUEUE[q] \in Seq(Task)
      BY <1>3, KernelAssumption
    <3> DEFINE X == Task \ {t \in S : j.TD_STATE[t] \in AuxStates /\ j.INFO[t] = q}
    <3>2. v.QUEUE[q] = Keep(j.QUEUE[q], X) /\ v.MY_QUEUE = j.MY_QUEUE
      BY <1>2, <3>1 DEF TimedOut, Readied, LeaveAuxQueues
    <3>3. Sorted(j.QUEUE[q], j.MY_QUEUE)
      BY DEF InOrder, Urgent
    <3> HIDE DEF X
    <3>4. Sorted(Keep(j.QUEUE[q], X), j.MY_QUEUE)
      BY <3>1, <3>3, KeepSorted
    <3> QED
      BY <3>2, <3>4
  <2> QED
    BY <2>1 DEF Urgent
<1>6. NoneNew(j, v)
  <2>1. ASSUME NEW q \in Queue, v.QUEUE[q] # <<>>
        PROVE  j.QUEUE[q] # <<>>
    <3> DEFINE W == LeaveAuxQueues(j, S)
    <3>1. W[q] \in Seq(Task) /\ Elems(W[q]) = Elems(j.QUEUE[q]) \ S
      BY <1>3, LeaveAuxElems
    <3>2. W[q] # <<>>
      BY <1>2, <2>1 DEF TimedOut
    <3> HIDE DEF W
    <3>3. Elems(W[q]) # {}
      BY <3>1, <3>2, EmptyQueue
    <3>4. Elems(j.QUEUE[q]) # {} /\ j.QUEUE[q] \in Seq(Task)
      BY <1>3, <3>1, <3>3
    <3> QED
      BY <3>4, EmptyQueue
  <2> QED
    BY <2>1 DEF NoneNew
<1> QED
  BY <1>1, <1>4, <1>5, <1>6 DEF Settled, v

\* A delay keeps the task off the task queues.
LEMMA DelayOrder ==
    ASSUME NEW j, InOrder(j), NEW t \in Task, t # Idle, IsReady(j, t), NEW n \in Int
    PROVE  LET v == time_delay_internal(j, t, n)
           IN  Settled(v) /\ NoneNew(j, v)
<1> DEFINE v == time_delay_internal(j, t, n)
<1>1. /\ Consistent(v) /\ v.TD_STATE = j.TD_STATE /\ v.QUEUE = j.QUEUE
      /\ v.MY_QUEUE = j.MY_QUEUE
  BY DelayWait DEF InOrder, Unscheduled
<1> HIDE DEF v
<1>2. OnlyTaskQueues(v) /\ Urgent(v) /\ NoneNew(j, v)
  BY <1>1 DEF InOrder, OnlyTaskQueues, Urgent, NoneNew
<1> QED
  BY <1>1, <1>2 DEF Settled, v

\* sched_insert_priorityq_internal keeps a queue sorted.
LEMMA PrioritySorted ==
    ASSUME NEW j, j.MY_QUEUE \in [Task -> Priority], NEW q \in Seq(Task), NEW t \in Task,
           Sorted(q, j.MY_QUEUE)
    PROVE  Sorted(sched_insert_priorityq_internal(j, q, t), j.MY_QUEUE)
<1> DEFINE f == j.MY_QUEUE
           S == {u \in Task : j.MY_QUEUE[u] > j.MY_QUEUE[t]}
<1>1. f \in [Task -> Int]
  BY Priorities
<1>2. \A u \in Task : IF u \in S THEN f[t] <= f[u] ELSE f[u] <= f[t]
  BY <1>1
<1> HIDE DEF S, f
<1>3. Sorted(InsertBefore(q, t, S), f)
  BY <1>1, <1>2, InsertSorted DEF f
<1> QED
  BY <1>3 DEF S, f, sched_insert_priorityq_internal

\* _task_set_priority sorts a waiting task in anew.
LEMMA PriorityOrder ==
    ASSUME NEW j, InOrder(j), NEW t \in Task, t # Idle, NEW p \in Priority
    PROVE  LET v == TaskSetPriority(j, t, p)
           IN  Settled(v) /\ NoneNew(j, v)
<1> DEFINE v == TaskSetPriority(j, t, p)
<1>1. Consistent(v) /\ Reprioritized(j, v, t)
  BY TaskSetPriorityWait DEF InOrder
<1> HIDE DEF v
<1>2. /\ j \in Kernel /\ WaitInv(j) /\ j.QUEUE \in [Queue -> Seq(Task)]
      /\ v \in Kernel /\ v.MY_QUEUE \in [Task -> Priority]
  BY <1>1, KernelFields DEF InOrder, Unscheduled, Consistent, KInv
<1>3. \A q \in Queue : /\ v.QUEUE[q] \in Seq(Task)
                       /\ Elems(v.QUEUE[q]) = Elems(j.QUEUE[q])
  BY <1>1, <1>2, ReprioritizedWait
<1>4. OnlyTaskQueues(v)
  BY <1>1 DEF Reprioritized, InOrder, OnlyTaskQueues
<1>5. NoneNew(j, v)
  BY <1>2, <1>3, EmptyQueue DEF NoneNew
<1>6. ASSUME NEW q \in PriorityQueue
      PROVE  Sorted(v.QUEUE[q], v.MY_QUEUE)
  <2>1. /\ q \in Queue /\ j.QUEUE[q] \in Seq(Task) /\ Elems(j.QUEUE[q]) \subseteq Task
        /\ Sorted(j.QUEUE[q], j.MY_QUEUE)
    BY <1>2, KernelAssumption, EmptyQueue DEF InOrder, Urgent
  <2>2. \A u \in Task \ {t} : v.MY_QUEUE[u] = j.MY_QUEUE[u]
    BY <1>1 DEF Reprioritized
  <2>3. CASE t \in Elems(j.QUEUE[q])
    <3> DEFINE r == Unlink(j.QUEUE[q], t)
    <3>1. j.TD_STATE[t] \in WaitStates /\ j.INFO[t] = q
      BY <1>2, <2>1, <2>3 DEF WaitInv, WaitQueuesOK, WaitStates
    <3>2. j.TD_STATE[t] = "TASK_QUEUE_BLOCKED"
      BY <3>1 DEF InOrder, OnlyTaskQueues
    <3>3. t \notin j.ON_TIMEOUT_Q
      BY <1>2, <3>2 DEF WaitInv, QueueStates
    <3>4. v.QUEUE[q] = sched_insert_priorityq_internal(v, r, t)
      BY <1>1, <1>2, <2>1, <3>1, <3>2, <3>3 DEF Reprioritized, Ordered
    <3>5. r \in Seq(Task)
      BY <2>1, UnlinkElems
    <3>6. Sorted(r, v.MY_QUEUE)
      <4> DEFINE S == Elems(j.QUEUE[q]) \ {t}
      <4>1. \A x \in Elems(j.QUEUE[q]) \cap S : v.MY_QUEUE[x] = j.MY_QUEUE[x]
        BY <2>1, <2>2
      <4>2. r = Keep(j.QUEUE[q], S)
        BY DEF Unlink
      <4> HIDE DEF S
      <4> QED
        BY <2>1, <4>1, <4>2, KeepSorted, SMTT(30)
    <3> HIDE DEF r
    <3> QED
      BY <1>2, <3>4, <3>5, <3>6, PrioritySorted
  <2>4. CASE t \notin Elems(j.QUEUE[q])
    <3>1. v.QUEUE[q] = j.QUEUE[q]
      <4>1. ~(Ordered(j, t) /\ j.INFO[t] = q)
        BY <1>2, <2>1, <2>4 DEF Ordered, WaitInv, WaitQueuesOK, QueueStates
      <4> QED
        BY <1>1, <1>2, <2>1, <4>1 DEF Reprioritized
    <3>2. \A i \in 1 .. Len(j.QUEUE[q]) : j.QUEUE[q][i] \in Task \ {t}
      BY <2>1, <2>4 DEF Elems
    <3>3. \A i \in 1 .. Len(j.QUEUE[q]) :
             v.MY_QUEUE[j.QUEUE[q][i]] = j.MY_QUEUE[j.QUEUE[q][i]]
      BY <2>2, <3>2
    <3> QED
      BY <2>1, <3>1, <3>3 DEF Sorted
  <2> QED
    BY <2>3, <2>4
<1> QED
  BY <1>1, <1>4, <1>5, <1>6 DEF Settled, Urgent, v

\* The flag that stops preemption.
LEMMA PreemptionOrder ==
    ASSUME NEW j, InOrder(j), NEW P \in SUBSET Task
    PROVE  LET v == [j EXCEPT !.PREEMPTION_DISABLED = P]
           IN  /\ InOrder(v) /\ NoneNew(j, v)
               /\ RunningOK(j) /\ j.PREEMPTION_DISABLED \subseteq P => RunningOK(v)
<1> DEFINE v == [j EXCEPT !.PREEMPTION_DISABLED = P]
<1>1. j \in Kernel /\ KInv(j, {}) /\ WaitInv(j) /\ j.ACTIVE_PTR \in Task
  BY KernelFields DEF InOrder, Unscheduled, KInv
<1>2. /\ v \in Kernel /\ v.PREEMPTION_DISABLED = P
      /\ v.READY_Q = j.READY_Q /\ v.CURRENT_READY_Q = j.CURRENT_READY_Q
      /\ v.MY_QUEUE = j.MY_QUEUE /\ v.TD_STATE = j.TD_STATE
      /\ v.ON_TIMEOUT_Q = j.ON_TIMEOUT_Q /\ v.TIMEOUT_QUEUE = j.TIMEOUT_QUEUE
      /\ v.TIMEOUT = j.TIMEOUT /\ v.ACTIVE_PTR = j.ACTIVE_PTR
      /\ v.QUEUE = j.QUEUE /\ v.INFO = j.INFO
      /\ v.HOME_QUEUE = j.HOME_QUEUE /\ v.BOOSTED = j.BOOSTED
  BY <1>1 DEF Kernel
<1> HIDE DEF v
<1>3. KInv(v, {}) /\ \A u \in Task : IsReady(v, u) <=> IsReady(j, u)
  BY <1>1, <1>2, Frame
<1>4. OnlySwitched(j, v)
  BY <1>2 DEF OnlySwitched
<1>5. WaitInv(v) /\ OnlyTaskQueues(v) /\ Urgent(v) /\ NoneNew(j, v)
  BY <1>1, <1>4, WaitFrame, SwitchedOrder DEF InOrder
<1>6. IsReady(v, v.ACTIVE_PTR)
  BY <1>1, <1>2, <1>3 DEF InOrder, Unscheduled
<1>7. RunningOK(j) /\ j.PREEMPTION_DISABLED \subseteq P => RunningOK(v)
  BY <1>1, <1>2, <1>3 DEF RunningOK
<1> QED
  BY <1>3, <1>5, <1>6, <1>7 DEF InOrder, Unscheduled, v

\* Task t, which is ready, has been moved to q.
Suspended(j, t, q) ==
    [UnlinkReady(j, t) EXCEPT
        !.TD_STATE[t] = "TASK_QUEUE_BLOCKED",
        !.INFO[t] = q,
        !.QUEUE[q] = IF q \in PriorityQueue
                     THEN sched_insert_priorityq_internal(j, @, t)
                     ELSE Append(@, t)]

\* That leaves the kernel in order but for the scheduler, which has to run if it was
\* the active task.
LEMMA SuspendOrder ==
    ASSUME NEW j, InOrder(j), NEW t \in Task, t # Idle, IsReady(j, t), NEW q \in Queue
    PROVE  LET v == Suspended(j, t, q)
           IN  /\ KInv(v, {}) /\ WaitInv(v) /\ OnlyTaskQueues(v) /\ Urgent(v)
               /\ \A o \in Queue \ {q} : v.QUEUE[o] = j.QUEUE[o]
               /\ t # j.ACTIVE_PTR => /\ IsReady(v, v.ACTIVE_PTR)
                                      /\ RunningOK(j) => RunningOK(v)
<1> DEFINE r == IF q \in PriorityQueue
                THEN sched_insert_priorityq_internal(j, j.QUEUE[q], t)
                ELSE Append(j.QUEUE[q], t)
           st == "TASK_QUEUE_BLOCKED"
           w == UnlinkReady(Waiting(j, t, q, st, r), t)
           v == Suspended(j, t, q)
           R == [j.READY_Q EXCEPT ![j.MY_QUEUE[t]] = Unlink(@, t)]
           D == [j.TD_STATE EXCEPT ![t] = st]
           I == [j.INFO EXCEPT ![t] = q]
           W == [j.QUEUE EXCEPT ![q] = r]
           x == [j EXCEPT !.READY_Q = R, !.TD_STATE = D, !.INFO = I, !.QUEUE = W]
<1>1. /\ j \in Kernel /\ KInv(j, {}) /\ WaitInv(j) /\ j.ACTIVE_PTR \in Task
      /\ j.QUEUE \in [Queue -> Seq(Task)] /\ j.QUEUE[q] \in Seq(Task)
      /\ j.TD_STATE \in [Task -> State] /\ j.MY_QUEUE \in [Task -> Priority]
      /\ IsReady(j, j.ACTIVE_PTR)
  BY KernelFields DEF InOrder, Unscheduled, KInv
<1>2. t \notin Elems(j.QUEUE[q]) /\ NoDuplicates(j.QUEUE[q])
  BY <1>1, States DEF WaitInv, WaitQueuesOK, IsReady, WaitStates
<1>3. r \in Seq(Task) /\ NoDuplicates(r) /\ Elems(r) = Elems(j.QUEUE[q]) \cup {t}
  <2>1. CASE q \in PriorityQueue
    BY <1>1, <1>2, <2>1, InsertElems DEF sched_insert_priorityq_internal
  <2>2. CASE q \notin PriorityQueue
    BY <1>1, <1>2, <2>2, AppendElems
  <2> QED
    BY <2>1, <2>2
<1>4. v = x
  BY <1>1 DEF Suspended, UnlinkReady, Kernel
<1>5. w = x
  BY <1>1 DEF Waiting, UnlinkReady, Kernel
<1>6. q \in PriorityQueue => Sorted(r, j.MY_QUEUE)
  BY <1>1, PrioritySorted DEF InOrder, Urgent
<1> HIDE DEF r, x
<1>7. st \in WaitStates
  BY DEF WaitStates, QueueStates
<1>8. /\ KInv(w, {}) /\ WaitInv(w) /\ Joined(j, w, t, q, st, r)
      /\ w.ACTIVE_PTR = j.ACTIVE_PTR /\ w.PREEMPTION_DISABLED = j.PREEMPTION_DISABLED
      /\ \A u \in Task : IsReady(w, u) <=> IsReady(j, u) /\ u # t
  BY <1>1, <1>3, <1>7, BlockWait
<1> HIDE DEF w, v
<1>9. w.QUEUE[q] = r /\ \A o \in Queue \ {q} : w.QUEUE[o] = j.QUEUE[o]
  BY <1>1, <1>8 DEF Joined
<1>10. OnlyTaskQueues(w)
  BY <1>1, <1>8 DEF Joined, InOrder, OnlyTaskQueues
<1>11. Urgent(w)
  <2>1. ASSUME NEW o \in PriorityQueue
        PROVE  Sorted(w.QUEUE[o], w.MY_QUEUE)
    <3>1. o \in Queue /\ w.MY_QUEUE = j.MY_QUEUE
      BY <1>8, KernelAssumption DEF Joined
    <3>2. CASE o = q
      BY <1>6, <1>9, <3>1, <3>2
    <3>3. CASE o # q
      BY <1>9, <3>1, <3>3 DEF InOrder, Urgent
    <3> QED
      BY <3>2, <3>3
  <2> QED
    BY <2>1 DEF Urgent
<1>12. t # j.ACTIVE_PTR => IsReady(w, w.ACTIVE_PTR) /\ (RunningOK(j) => RunningOK(w))
  BY <1>1, <1>8 DEF RunningOK, Joined
<1>13. v = w
  BY <1>4, <1>5
<1> QED
  BY <1>8, <1>9, <1>10, <1>11, <1>12, <1>13 DEF v

\* The first n tasks of q have been made ready.
ReleasedFirst(j, q, n) ==
    ReadyAll([j EXCEPT !.QUEUE[q] = SubSeq(@, n + 1, Len(@))], SubSeq(j.QUEUE[q], 1, n))

\* That leaves the kernel in order but for the scheduler.
LEMMA ReleaseOrder ==
    ASSUME NEW j, InOrder(j), NEW q \in Queue, NEW n \in 0 .. Len(j.QUEUE[q])
    PROVE  LET v == ReleasedFirst(j, q, n)
           IN  InOrder(v) /\ NoneNew(j, v) /\ v.ACTIVE_PTR = j.ACTIVE_PTR
<1> DEFINE d == j.QUEUE[q]
           s == SubSeq(d, 1, n)
           r == SubSeq(d, n + 1, Len(d))
           W == [j.QUEUE EXCEPT ![q] = r]
           i == [j EXCEPT !.QUEUE = W]
           v == ReleasedFirst(j, q, n)
<1>1. /\ j \in Kernel /\ Unscheduled(j) /\ WaitQueuesOK(j, {}) /\ TimeoutQueueOK(j)
      /\ j.QUEUE \in [Queue -> Seq(Task)] /\ d \in Seq(Task)
      /\ j.ON_TIMEOUT_Q \in SUBSET Task
  BY KernelFields DEF InOrder, Unscheduled, KInv, WaitInv
<1>2. NoDuplicates(d) /\ Elems(d) \subseteq Task
  BY <1>1, EmptyQueue DEF WaitQueuesOK
<1>3. /\ s \in Seq(Task) /\ r \in Seq(Task)
      /\ Elems(s) \cup Elems(r) = Elems(d) /\ Elems(s) \cap Elems(r) = {}
      /\ NoDuplicates(s) /\ NoDuplicates(r)
      /\ \A f : Sorted(d, f) => Sorted(r, f)
  BY <1>1, <1>2, SplitElems
<1>4. v = ReadyAll(i, s)
  BY DEF ReleasedFirst
<1> HIDE DEF s, r
<1>5. W \in [Queue -> Seq(Task)] /\ W[q] = r /\ \A o \in Queue \ {q} : W[o] = j.QUEUE[o]
  BY <1>1, <1>3
<1> HIDE DEF W
<1>6. \A t \in Elems(d) : /\ t \in Task /\ j.TD_STATE[t] = "TASK_QUEUE_BLOCKED"
                          /\ j.INFO[t] = q /\ t \notin j.ON_TIMEOUT_Q
  <2>1. ASSUME NEW t \in Elems(d)
        PROVE  /\ t \in Task /\ j.TD_STATE[t] = "TASK_QUEUE_BLOCKED"
               /\ j.INFO[t] = q /\ t \notin j.ON_TIMEOUT_Q
    <3>1. t \in Task /\ j.TD_STATE[t] \in WaitStates /\ j.INFO[t] = q
      BY <1>1, <1>2 DEF WaitQueuesOK, WaitStates
    <3>2. j.TD_STATE[t] = "TASK_QUEUE_BLOCKED"
      BY <3>1 DEF InOrder, OnlyTaskQueues
    <3> QED
      BY <3>1, <3>2 DEF InOrder, Unscheduled, WaitInv, QueueStates
  <2> QED
    BY <2>1
<1>7. /\ i \in Kernel
      /\ i.READY_Q = j.READY_Q /\ i.CURRENT_READY_Q = j.CURRENT_READY_Q
      /\ i.TD_STATE = j.TD_STATE /\ i.ACTIVE_PTR = j.ACTIVE_PTR
      /\ i.MY_QUEUE = j.MY_QUEUE /\ i.HOME_QUEUE = j.HOME_QUEUE /\ i.BOOSTED = j.BOOSTED
      /\ i.ON_TIMEOUT_Q = j.ON_TIMEOUT_Q /\ i.TIMEOUT_QUEUE = j.TIMEOUT_QUEUE
      /\ i.TIMEOUT = j.TIMEOUT /\ i.QUEUE = W /\ i.INFO = j.INFO
  BY <1>1, <1>5 DEF Kernel
<1> HIDE DEF i
<1>8. Released(j, i, s)
  <2>1. \A t \in Elems(s) : ~IsReady(j, t)
    BY <1>3, <1>6 DEF IsReady
  <2>2. i.ON_TIMEOUT_Q = j.ON_TIMEOUT_Q \ Elems(s)
    BY <1>3, <1>6, <1>7
  <2>3. TimeoutQueueOK(i)
    BY <1>1, <1>7 DEF TimeoutQueueOK
  <2>4. ASSUME NEW o \in Queue
        PROVE  /\ NoDuplicates(i.QUEUE[o])
               /\ Elems(i.QUEUE[o]) = Elems(j.QUEUE[o]) \ Elems(s)
    <3>1. CASE o = q
      <4>1. Elems(r) = Elems(d) \ Elems(s)
        BY <1>3
      <4> QED
        BY <1>3, <1>5, <1>7, <3>1, <4>1
    <3>2. CASE o # q
      <4>1. i.QUEUE[o] = j.QUEUE[o] /\ NoDuplicates(j.QUEUE[o])
        BY <1>1, <1>5, <1>7, <3>2 DEF WaitQueuesOK
      <4>2. \A t \in Elems(s) : t \notin Elems(j.QUEUE[o])
        BY <1>1, <1>3, <1>6, <3>2 DEF WaitQueuesOK
      <4> QED
        BY <4>1, <4>2
    <3> QED
      BY <3>1, <3>2
  <2> QED
    BY <1>3, <1>7, <2>1, <2>2, <2>3, <2>4 DEF Released
<1>9. /\ Unscheduled(v) /\ Readied(j, v, Elems(s)) /\ v.ACTIVE_PTR = j.ACTIVE_PTR
      /\ v.QUEUE = i.QUEUE
  BY <1>1, <1>4, <1>8, ReleaseWait
<1> HIDE DEF v
<1>10. OnlyTaskQueues(v)
  BY <1>9, States DEF Readied, InOrder, OnlyTaskQueues
<1>11. Urgent(v)
  <2>1. ASSUME NEW o \in PriorityQueue
        PROVE  Sorted(v.QUEUE[o], v.MY_QUEUE)
    <3>1. o \in Queue /\ v.MY_QUEUE = j.MY_QUEUE /\ Sorted(j.QUEUE[o], j.MY_QUEUE)
      BY <1>9, KernelAssumption DEF Readied, InOrder, Urgent
    <3>2. CASE o = q
      BY <1>3, <1>5, <1>7, <1>9, <3>1, <3>2
    <3>3. CASE o # q
      BY <1>5, <1>7, <1>9, <3>1, <3>3
    <3> QED
      BY <3>2, <3>3
  <2> QED
    BY <2>1 DEF Urgent
<1>12. NoneNew(j, v)
  <2>1. r # <<>> => d # <<>>
    <3>1. r # <<>> => Elems(r) # {}
      BY <1>3, EmptyQueue
    <3>2. Elems(d) # {} => d # <<>>
      BY <1>1, EmptyQueue
    <3> QED
      BY <1>3, <3>1, <3>2
  <2> QED
    BY <1>5, <1>7, <1>9, <2>1 DEF NoneNew
<1> QED
  BY <1>9, <1>10, <1>11, <1>12 DEF InOrder, v

(***************************************************************************)
(* The steps.                                                               *)
(***************************************************************************)
\* A call or an interrupt that ends in the scheduler and lets no task join a queue.
LEMMA StepInv ==
    ASSUME Inv, Others, Settled(k'), NoneNew(k, k')
    PROVE  Inv'
<1>1. TaskqTypeOK'
  BY DEF Inv, TaskqTypeOK, Others, Settled, Consistent, KInv
<1>2. InOrder(k)' /\ RunsHighestAfterCalls'
  BY SettledInOrder DEF RunsHighestAfterCalls
<1>3. ListsOK'
  BY DEF Inv, ListsOK, Others
<1>4. NoneLeftBehind'
  BY DEF Inv, NoneLeftBehind, NoneNew, Others
<1> QED
  BY <1>1, <1>2, <1>3, <1>4 DEF Inv

\* A call or an interrupt that ends in the scheduler and lets a task join a valid queue.
LEMMA JoinInv ==
    ASSUME Inv, Others, Settled(k'), NEW q \in VALID,
           \A o \in Queue \ {q} : k'.QUEUE[o] = k.QUEUE[o]
    PROVE  Inv'
<1>1. TaskqTypeOK'
  BY DEF Inv, TaskqTypeOK, Others, Settled, Consistent, KInv
<1>2. InOrder(k)' /\ RunsHighestAfterCalls'
  BY SettledInOrder DEF RunsHighestAfterCalls
<1>3. ListsOK'
  BY DEF Inv, ListsOK, Others
<1>4. NoneLeftBehind'
  <2>1. q \in KERNEL_TASK_QUEUES
    BY DEF Inv, ListsOK
  <2>2. ASSUME NEW o \in Queue, k'.QUEUE[o] # <<>>
        PROVE  /\ o \in KERNEL_TASK_QUEUES
               /\ o \in VALID \/ \E t \in Task : destroying[t] = o
    BY <2>1, <2>2 DEF Inv, NoneLeftBehind
  <2> QED
    BY <2>2 DEF NoneLeftBehind, Others
<1> QED
  BY <1>1, <1>2, <1>3, <1>4 DEF Inv

\* A caller is not in the loop of _taskq_destroy, so it is the most urgent task.
LEMMA CallerRuns ==
    ASSUME Inv, Calls
    PROVE  /\ k.ACTIVE_PTR \in Task /\ k.ACTIVE_PTR # Idle
           /\ RunningOK(k) /\ IsReady(k, k.ACTIVE_PTR)
<1>1. k.ACTIVE_PTR \in Task /\ k.ACTIVE_PTR # Idle
  BY DEF Calls, Caller
<1>2. \A q \in Queue : ~InLoop(q)
  BY KernelAssumption DEF Calls, InLoop
<1> QED
  BY <1>1, <1>2 DEF Inv, RunsHighestAfterCalls, RunningOK

\* _taskq_create
LEMMA CreateInv ==
    ASSUME Inv, NEW q \in Queue, taskq_create(q)
    PROVE  Inv'
<1>1. RunningOK(k)
  BY CallerRuns DEF taskq_create
<1>2. k' = k /\ destroying' = destroying
  BY DEF taskq_create
<1>3. TaskqTypeOK'
  BY DEF Inv, TaskqTypeOK, taskq_create
<1>4. InOrder(k)' /\ RunsHighestAfterCalls'
  BY <1>1, <1>2 DEF Inv, RunsHighestAfterCalls
<1>5. ListsOK'
  BY <1>2 DEF Inv, ListsOK, taskq_create, Freed
<1>6. NoneLeftBehind'
  BY <1>2 DEF Inv, NoneLeftBehind, taskq_create
<1> QED
  BY <1>3, <1>4, <1>5, <1>6 DEF Inv

\* The task queue operations as operators on the kernel.
LEMMA Operators ==
    ASSUME NEW t \in Task, NEW q \in Queue
    PROVE  /\ Suspend(t, q) = Suspended(k, t, q)
           /\ \A n : Release(q, n) = ReleasedFirst(k, q, n)
BY DEF Suspend, Suspended, Release, ReleasedFirst

\* The calls that suspend a task.
LEMMA SuspendStepInv ==
    ASSUME Inv, NEW q \in VALID, NEW t \in Task, t # Idle, IsReady(k, t), Others,
           \/ k' = Dispatch(Suspend(t, q))
           \/ /\ t # k.ACTIVE_PTR
              /\ \/ k' = Suspend(t, q) /\ RunningOK(k)
                 \/ k' = IsrReturn(Suspend(t, q))
    PROVE  Inv'
<1> DEFINE v == Suspended(k, t, q)
<1>1. q \in Queue /\ InOrder(k)
  BY DEF Inv, TaskqTypeOK
<1>2. Suspend(t, q) = v
  BY <1>1, Operators
<1>3. /\ KInv(v, {}) /\ WaitInv(v) /\ OnlyTaskQueues(v) /\ Urgent(v)
      /\ \A o \in Queue \ {q} : v.QUEUE[o] = k.QUEUE[o]
      /\ t # k.ACTIVE_PTR => IsReady(v, v.ACTIVE_PTR) /\ (RunningOK(k) => RunningOK(v))
  BY <1>1, SuspendOrder
<1> HIDE DEF v
<1>4. CASE k' = Dispatch(v)
  <2>1. Consistent(Dispatch(v)) /\ OnlySwitched(v, Dispatch(v))
    BY <1>3, DispatchWait
  <2>2. OnlyTaskQueues(Dispatch(v)) /\ Urgent(Dispatch(v)) /\ Dispatch(v).QUEUE = v.QUEUE
    BY <1>3, <2>1, SwitchedOrder DEF OnlySwitched
  <2>3. Settled(k') /\ k'.QUEUE = v.QUEUE
    BY <1>4, <2>1, <2>2 DEF Settled
  <2> QED
    BY <1>3, <2>3, JoinInv
<1>5. CASE t # k.ACTIVE_PTR /\ k' = v /\ RunningOK(k)
  <2>1. Settled(k') /\ k'.QUEUE = v.QUEUE
    BY <1>3, <1>5 DEF Settled, Consistent
  <2> QED
    BY <1>3, <2>1, JoinInv
<1>6. CASE t # k.ACTIVE_PTR /\ k' = IsrReturn(v)
  <2>1. Unscheduled(v)
    BY <1>3, <1>6 DEF Unscheduled
  <2>2. Consistent(IsrReturn(v)) /\ OnlySwitched(v, IsrReturn(v))
    BY <2>1, IsrReturnWait
  <2>3. /\ OnlyTaskQueues(IsrReturn(v)) /\ Urgent(IsrReturn(v))
        /\ IsrReturn(v).QUEUE = v.QUEUE
    BY <1>3, <2>2, SwitchedOrder DEF OnlySwitched
  <2>4. Settled(k') /\ k'.QUEUE = v.QUEUE
    BY <1>6, <2>2, <2>3 DEF Settled
  <2> QED
    BY <1>3, <2>4, JoinInv
<1> QED
  BY <1>2, <1>4, <1>5, <1>6

\* _taskq_suspend, _taskq_suspend_task by a task and by an interrupt handler.
LEMMA SuspendCallsInv ==
    ASSUME Inv, NEW q \in Queue, NEW t \in Task,
           \/ taskq_suspend(q) \/ taskq_suspend_task(t, q) \/ IsrSuspendTask(t, q)
    PROVE  Inv'
<1>1. CASE taskq_suspend(q)
  <2>1. PICK a \in Task : a = k.ACTIVE_PTR
    BY <1>1, CallerRuns DEF taskq_suspend
  <2>2. a # Idle /\ IsReady(k, a)
    BY <1>1, <2>1, CallerRuns DEF taskq_suspend
  <2>3. q \in VALID /\ Others /\ k' = Dispatch(Suspend(a, q))
    BY <1>1, <2>1 DEF taskq_suspend
  <2> QED
    BY <2>2, <2>3, SuspendStepInv
<1>2. CASE taskq_suspend_task(t, q)
  <2>1. RunningOK(k) /\ q \in VALID /\ Others /\ t # Idle /\ IsReady(k, t)
    BY <1>2, CallerRuns DEF taskq_suspend_task
  <2>2. \/ k' = Dispatch(Suspend(t, q))
        \/ t # k.ACTIVE_PTR /\ k' = Suspend(t, q)
    BY <1>2 DEF taskq_suspend_task
  <2> QED
    BY <2>1, <2>2, SuspendStepInv
<1>3. CASE IsrSuspendTask(t, q)
  <2>1. /\ q \in VALID /\ Others /\ t # Idle /\ IsReady(k, t)
        /\ t # k.ACTIVE_PTR /\ k' = IsrReturn(Suspend(t, q))
    BY <1>3 DEF IsrSuspendTask
  <2> QED
    BY <2>1, SuspendStepInv
<1> QED
  BY <1>1, <1>2, <1>3

\* The number of tasks that a call or a step of the loop releases.
LEMMA ReleaseCount ==
    ASSUME Inv, NEW q \in Queue, k.QUEUE[q] # <<>>
    PROVE  /\ 1 \in 0 .. Len(k.QUEUE[q])
           /\ Len(k.QUEUE[q]) \in 0 .. Len(k.QUEUE[q])
<1>1. k.QUEUE[q] \in Seq(Task)
  BY KernelFields DEF Inv, TaskqTypeOK
<1> QED
  BY <1>1

\* _taskq_resume by a task and by an interrupt handler.
LEMMA ResumeInv ==
    ASSUME Inv, NEW q \in Queue, NEW all_tasks \in BOOLEAN,
           taskq_resume(q, all_tasks) \/ IsrResume(q, all_tasks)
    PROVE  Inv'
<1>1. /\ k.QUEUE[q] # <<>> /\ Others
      /\ \/ k' = CHECK_RUN_SCHEDULER(Resumed(q, all_tasks))
         \/ k' = IsrReturn(Resumed(q, all_tasks))
  BY DEF taskq_resume, IsrResume
<1> DEFINE n == IF all_tasks THEN Len(k.QUEUE[q]) ELSE 1
           v == ReleasedFirst(k, q, n)
<1>2. n \in 0 .. Len(k.QUEUE[q]) /\ InOrder(k)
  BY <1>1, ReleaseCount DEF Inv
<1>3. Resumed(q, all_tasks) = v
  BY DEF Resumed, Release, ReleasedFirst
<1> HIDE DEF n
<1>4. InOrder(v) /\ NoneNew(k, v)
  BY <1>2, ReleaseOrder
<1> HIDE DEF v
<1>5. Settled(k') /\ NoneNew(v, k')
  BY <1>1, <1>3, <1>4, ScheduleOrder
<1>6. NoneNew(k, k')
  BY <1>4, <1>5, NoneNewTrans
<1> QED
  BY <1>1, <1>5, <1>6, StepInv

\* _taskq_destroy up to the first _int_enable.
LEMMA DestroyInv ==
    ASSUME Inv, NEW q \in Queue, taskq_destroy(q)
    PROVE  Inv'
<1>1. PICK a \in Task : a = k.ACTIVE_PTR
  BY CallerRuns DEF taskq_destroy
<1>2. /\ q \in VALID /\ q \in KERNEL_TASK_QUEUES /\ destroying[a] = NULL
      /\ VALID' = VALID \ {q} /\ KERNEL_TASK_QUEUES' = KERNEL_TASK_QUEUES
      /\ destroying' = [destroying EXCEPT ![a] = q]
      /\ destroying \in [Task -> Queue \cup {NULL}] /\ VALID \subseteq Queue
  BY <1>1 DEF taskq_destroy, Calls, Inv, ListsOK, TaskqTypeOK
<1>3. InOrder(k') /\ NoneNew(k, k') /\ k'.ACTIVE_PTR = a
  <2>1. CASE k.QUEUE[q] = <<>>
    BY <1>1, <2>1 DEF taskq_destroy, Inv, NoneNew
  <2>2. CASE k.QUEUE[q] # <<>>
    <3>1. k' = ReleasedFirst(k, q, 1)
      BY <2>2 DEF taskq_destroy, Release, ReleasedFirst
    <3>2. 1 \in 0 .. Len(k.QUEUE[q]) /\ InOrder(k)
      BY <2>2, ReleaseCount DEF Inv
    <3> QED
      BY <1>1, <3>1, <3>2, ReleaseOrder
  <2> QED
    BY <2>1, <2>2
<1>4. destroying'[a] = q /\ \A t \in Task \ {a} : destroying'[t] = destroying[t]
  BY <1>2
<1>5. TaskqTypeOK'
  BY <1>2, <1>3 DEF Inv, TaskqTypeOK, InOrder, Unscheduled, KInv
<1>6. RunsHighestAfterCalls'
  BY <1>2, <1>3, <1>4 DEF RunsHighestAfterCalls, InLoop
<1>7. ListsOK'
  BY <1>2, <1>4 DEF Inv, ListsOK
<1>8. NoneLeftBehind'
  <2>1. ASSUME NEW o \in Queue, k'.QUEUE[o] # <<>>
        PROVE  /\ o \in KERNEL_TASK_QUEUES'
               /\ o \in VALID' \/ \E t \in Task : destroying'[t] = o
    <3>1. k.QUEUE[o] # <<>>
      BY <1>3, <2>1 DEF NoneNew
    <3>2. /\ o \in KERNEL_TASK_QUEUES
          /\ o \in VALID \/ \E t \in Task : destroying[t] = o
      BY <3>1 DEF Inv, NoneLeftBehind
    <3>3. CASE o = q
      BY <1>2, <1>4, <3>3
    <3>4. CASE o # q
      <4>1. o # NULL
        BY KernelAssumption
      <4> QED
        BY <1>2, <1>4, <3>2, <3>4, <4>1
    <3> QED
      BY <3>3, <3>4
  <2> QED
    BY <2>1 DEF NoneLeftBehind
<1> QED
  BY <1>3, <1>5, <1>6, <1>7, <1>8 DEF Inv

\* The loop goes on.
LEMMA DestroyNextInv ==
    ASSUME Inv, NEW q \in Queue, DestroyNext(q)
    PROVE  Inv'
<1>1. k' = ReleasedFirst(k, q, 1) /\ Others /\ InLoop(q)
  BY DEF DestroyNext, Release, ReleasedFirst
<1>2. 1 \in 0 .. Len(k.QUEUE[q]) /\ InOrder(k)
  BY ReleaseCount DEF Inv, DestroyNext
<1>3. InOrder(k') /\ NoneNew(k, k') /\ k'.ACTIVE_PTR = k.ACTIVE_PTR
  BY <1>1, <1>2, ReleaseOrder
<1>4. TaskqTypeOK'
  BY <1>1, <1>3 DEF Inv, TaskqTypeOK, Others, InOrder, Unscheduled, KInv
<1>5. RunsHighestAfterCalls'
  BY <1>1, <1>3 DEF RunsHighestAfterCalls, InLoop, Others
<1>6. ListsOK'
  BY <1>1 DEF Inv, ListsOK, Others
<1>7. NoneLeftBehind'
  BY <1>1, <1>3 DEF Inv, NoneLeftBehind, NoneNew, Others
<1> QED
  BY <1>3, <1>4, <1>5, <1>6, <1>7 DEF Inv

\* The queue leaves the kernel's list: no task is on it.
LEMMA DestroyUnlinkInv ==
    ASSUME Inv, NEW q \in Queue, DestroyUnlink(q)
    PROVE  Inv'
<1>1. /\ k.QUEUE[q] = <<>> /\ destroying[k.ACTIVE_PTR] = q
      /\ KERNEL_TASK_QUEUES' = KERNEL_TASK_QUEUES \ {q}
      /\ k' = CHECK_RUN_SCHEDULER(k) /\ VALID' = VALID /\ destroying' = destroying
  BY DEF DestroyUnlink, InLoop
<1>2. k.ACTIVE_PTR \in Task /\ InOrder(k)
  BY KernelFields DEF Inv, TaskqTypeOK
<1>3. Settled(k') /\ NoneNew(k, k')
  BY <1>1, <1>2, ScheduleOrder
<1>4. TaskqTypeOK'
  BY <1>1, <1>3 DEF Inv, TaskqTypeOK, Settled, Consistent, KInv
<1>5. InOrder(k)' /\ RunsHighestAfterCalls'
  BY <1>3, SettledInOrder DEF RunsHighestAfterCalls
<1>6. ListsOK'
  BY <1>1, <1>2 DEF Inv, ListsOK
<1>7. NoneLeftBehind'
  BY <1>1, <1>3 DEF Inv, NoneLeftBehind, NoneNew
<1> QED
  BY <1>4, <1>5, <1>6, <1>7 DEF Inv

\* _mem_free: the queue has left the kernel's list before.
LEMMA DestroyFreeInv ==
    ASSUME Inv, NEW q \in Queue, DestroyFree(q)
    PROVE  Inv'
<1>1. PICK a \in Task : a = k.ACTIVE_PTR
  BY KernelFields DEF Inv, TaskqTypeOK
<1>2. /\ destroying[a] = q /\ q \notin KERNEL_TASK_QUEUES
      /\ destroying' = [destroying EXCEPT ![a] = NULL]
      /\ k' = k /\ VALID' = VALID /\ KERNEL_TASK_QUEUES' = KERNEL_TASK_QUEUES
      /\ destroying \in [Task -> Queue \cup {NULL}] /\ VALID \subseteq Queue
  BY <1>1 DEF DestroyFree, Inv, TaskqTypeOK
<1>3. destroying'[a] = NULL /\ \A t \in Task \ {a} : destroying'[t] = destroying[t]
  BY <1>2
<1>4. RunningOK(k)
  BY <1>1, <1>2 DEF Inv, RunsHighestAfterCalls, InLoop
<1>5. TaskqTypeOK'
  BY <1>2 DEF Inv, TaskqTypeOK
<1>6. InOrder(k)' /\ RunsHighestAfterCalls'
  BY <1>2, <1>4 DEF Inv, RunsHighestAfterCalls
<1>7. ListsOK'
  BY <1>2, <1>3, KernelAssumption DEF Inv, ListsOK
<1>8. NoneLeftBehind'
  <2>1. ASSUME NEW o \in Queue, k'.QUEUE[o] # <<>>
        PROVE  /\ o \in KERNEL_TASK_QUEUES'
               /\ o \in VALID' \/ \E t \in Task : destroying'[t] = o
    BY <1>2, <1>3, <2>1 DEF Inv, NoneLeftBehind
  <2> QED
    BY <2>1 DEF NoneLeftBehind
<1> QED
  BY <1>5, <1>6, <1>7, <1>8 DEF Inv

\* The calls of MqxSched.
LEMMA SchedCallInv ==
    ASSUME Inv, SchedCall
    PROVE  Inv'
<1>1. /\ Caller /\ destroying[k.ACTIVE_PTR] = NULL /\ Others
  BY DEF SchedCall, time_delay_ticks, task_set_priority, task_stop_preemption,
         task_start_preemption
<1>2. PICK a \in Task : a = k.ACTIVE_PTR
  BY <1>1 DEF Caller
<1>3. a # Idle /\ IsReady(k, a) /\ RunningOK(k) /\ InOrder(k)
  BY <1>1, <1>2, CallerRuns DEF Calls, Inv
<1>4. k \in Kernel /\ k.PREEMPTION_DISABLED \in SUBSET Task
  BY KernelFields DEF Inv, TaskqTypeOK
<1>5. ASSUME NEW n \in 1 .. MaxDelay, time_delay_ticks(n)
      PROVE  Inv'
  <2>1. k' = time_delay_internal(k, a, n) /\ n \in Int
    BY <1>2, <1>5 DEF time_delay_ticks
  <2>2. Settled(k') /\ NoneNew(k, k')
    BY <1>3, <2>1, DelayOrder
  <2> QED
    BY <1>1, <2>2, StepInv
<1>6. ASSUME NEW t \in Task, NEW p \in 0 .. LOWEST_TASK_PRIORITY, task_set_priority(t, p)
      PROVE  Inv'
  <2>1. p \in Priority
    BY KernelAssumption DEF Priority, IDLE_PRIORITY
  <2>2. t # Idle /\ k' = TaskSetPriority(k, t, p)
    BY <1>6 DEF task_set_priority
  <2>3. Settled(k') /\ NoneNew(k, k')
    BY <1>3, <2>1, <2>2, PriorityOrder
  <2> QED
    BY <1>1, <2>3, StepInv
<1>7. CASE task_stop_preemption
  <2> DEFINE P == k.PREEMPTION_DISABLED \cup {a}
             v == [k EXCEPT !.PREEMPTION_DISABLED = P]
  <2>1. P \in SUBSET Task /\ k.PREEMPTION_DISABLED \subseteq P
    BY <1>4
  <2>2. k' = v
    BY <1>2, <1>7 DEF task_stop_preemption
  <2> HIDE DEF P
  <2>3. InOrder(v) /\ NoneNew(k, v) /\ RunningOK(v)
    BY <1>3, <2>1, PreemptionOrder
  <2> HIDE DEF v
  <2>4. Settled(k') /\ NoneNew(k, k')
    BY <2>2, <2>3 DEF Settled, InOrder, Consistent, Unscheduled
  <2> QED
    BY <1>1, <2>4, StepInv
<1>8. CASE task_start_preemption
  <2> DEFINE P == k.PREEMPTION_DISABLED \ {a}
             v == [k EXCEPT !.PREEMPTION_DISABLED = P]
  <2>1. P \in SUBSET Task
    BY <1>4
  <2>2. k' = CHECK_RUN_SCHEDULER(v)
    BY <1>2, <1>8 DEF task_start_preemption
  <2> HIDE DEF P
  <2>3. InOrder(v) /\ NoneNew(k, v)
    BY <1>3, <2>1, PreemptionOrder
  <2> HIDE DEF v
  <2>4. Settled(k') /\ NoneNew(v, k')
    BY <2>2, <2>3, ScheduleOrder
  <2>5. NoneNew(k, k')
    BY <2>3, <2>4, NoneNewTrans
  <2> QED
    BY <1>1, <2>4, <2>5, StepInv
<1> QED
  BY <1>5, <1>6, <1>7, <1>8 DEF SchedCall

\* The invariant holds when the first task is dispatched.
LEMMA InitInv == TaskqInit => Inv
<1> SUFFICES ASSUME TaskqInit PROVE Inv
  OBVIOUS
<1>1. /\ k = Boot /\ VALID = {} /\ KERNEL_TASK_QUEUES = {}
      /\ destroying = [t \in Task |-> NULL]
  BY DEF TaskqInit, Init
<1>2. /\ Consistent(k) /\ k.TD_STATE = [t \in Task |-> "READY"]
      /\ k.QUEUE = [o \in Queue |-> <<>>]
  BY <1>1, BootWait
<1>3. OnlyTaskQueues(k)
  BY <1>2, States DEF OnlyTaskQueues
<1>4. Urgent(k)
  <2>1. \A f : Sorted(<<>>, f)
    BY DEF Sorted
  <2> QED
    BY <1>2, <2>1, KernelAssumption DEF Urgent
<1>5. InOrder(k) /\ RunningOK(k)
  BY <1>2, <1>3, <1>4, SettledInOrder DEF Settled
<1>6. TaskqTypeOK
  BY <1>1, <1>2 DEF TaskqTypeOK, Consistent, KInv
<1>7. ListsOK /\ NoneLeftBehind
  BY <1>1, <1>2 DEF ListsOK, NoneLeftBehind
<1> QED
  BY <1>5, <1>6, <1>7 DEF Inv, RunsHighestAfterCalls

\* Every call, every step of _taskq_destroy and every interrupt preserves it.
LEMMA NextInv == Inv /\ [TaskqNext]_vars => Inv'
<1> SUFFICES ASSUME Inv, [TaskqNext]_vars
             PROVE  Inv'
  OBVIOUS
<1>1. CASE Tick /\ Others
  <2>1. Settled(k') /\ NoneNew(k, k')
    BY <1>1, TickOrder DEF Inv, Tick
  <2> QED
    BY <1>1, <2>1, StepInv
<1>2. CASE UNCHANGED vars
  BY <1>2 DEF vars, Inv, TaskqTypeOK, RunsHighestAfterCalls, InLoop, ListsOK, NoneLeftBehind
<1>3. ASSUME NEW q \in Queue, taskq_suspend(q) PROVE Inv'
  BY <1>3, SuspendCallsInv, KernelAssumption
<1> QED
  BY <1>1, <1>2, <1>3, CreateInv, SuspendCallsInv, ResumeInv, DestroyInv, DestroyNextInv,
     DestroyUnlinkInv, DestroyFreeInv, SchedCallInv DEF TaskqNext

\* The inductive invariant holds in every state.
THEOREM Invariance == TaskqSpec => []Inv
BY InitInv, NextInv, PTL DEF TaskqSpec

\* Whatever task queue calls, changes of priority, delays and interrupts meet, also in the
\* middle of _taskq_destroy, the ready queues, the timeout queue, the task queues and the
\* running task fit together.
THEOREM KernelAlwaysConsistent == TaskqSpec => []KernelConsistent
<1>1. Inv => KernelConsistent
  <2> SUFFICES ASSUME Inv PROVE KernelConsistent
    OBVIOUS
  <2>1. KInv(k, {}) /\ WaitInv(k)
    BY DEF Inv, InOrder, Unscheduled
  <2>2. ReadyQueuesOK(k)
    BY <2>1 DEF KInv, ReadyExcept, ReadyQueuesOK
  <2> QED
    BY <2>1, <2>2 DEF Inv, KernelConsistent, QueuesConsistent, KInv, WaitInv
<1> QED
  BY <1>1, Invariance, PTL

\* A queue BY_PRIORITY is sorted at all times, so _taskq_resume readies the most urgent
\* task, whatever _task_set_priority has done to the waiting tasks.
THEOREM QueuesStaySorted == TaskqSpec => []UrgentFirst
<1>1. Inv => UrgentFirst
  BY DEF Inv, InOrder, Urgent, Sorted, UrgentFirst
<1> QED
  BY <1>1, Invariance, PTL

\* No task is left behind on a task queue that _taskq_destroy has taken off the kernel's
\* list, though other tasks and interrupts run between the steps of its loop.
THEOREM NobodyLeftBehind == TaskqSpec => []NoneLeftBehind
<1>1. Inv => NoneLeftBehind
  BY DEF Inv
<1> QED
  BY <1>1, Invariance, PTL
=============================================================================
