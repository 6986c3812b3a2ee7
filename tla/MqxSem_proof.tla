----------------------------- MODULE MqxSem_proof -----------------------------
(***************************************************************************)
(* The safety of the semaphores of the semaphore component, for any number   *)
(* of tasks, priorities and semaphores and every policy: tokens are          *)
(* conserved, no wakeup is lost, inherited priorities are given back, and a  *)
(* semaphore is destroyed once and not before its owners are done with it.   *)
(***************************************************************************)
EXTENDS MqxSem, MqxKernel_proof

(***************************************************************************)
(* The kernel inside a semaphore call.  Nobody stops preemption or changes  *)
(* its own priority.                                                        *)
(***************************************************************************)
Core(j) ==
    /\ KInv(j, {}) /\ IsReady(j, j.ACTIVE_PTR)
    /\ j.PREEMPTION_DISABLED = {} /\ j.HOME_QUEUE = InitPriority

\* The kernel when the scheduler has been called: its hint is the priority that runs, so
\* that raising another task to that priority takes the processor from nobody.
Settled(j) == Core(j) /\ j.CURRENT_READY_Q = j.MY_QUEUE[j.ACTIVE_PTR]

\* A task of the highest priority runs then.
LEMMA SettledRuns ==
    ASSUME NEW j, Settled(j)
    PROVE  RunningOK(j)
<1>1. \A t \in Task : IsReady(j, t) => j.CURRENT_READY_Q <= j.MY_QUEUE[t]
  BY ReadyBelowHint DEF Settled, Core
<1> QED
  BY <1>1 DEF Settled, Core, RunningOK

\* The dispatcher leaves the priority of the task it runs in CURRENT_READY_Q.
LEMMA DispatchHint ==
    ASSUME NEW j \in Kernel, KInv(Dispatch(j), {})
    PROVE  Dispatch(j).CURRENT_READY_Q = Dispatch(j).MY_QUEUE[Dispatch(j).ACTIVE_PTR]
<1> DEFINE c == j.CURRENT_READY_Q
           P(i) == /\ i >= c /\ j.READY_Q[i] # <<>>
                   /\ \A x \in c .. (i - 1) : j.READY_Q[x] = <<>>
           p == CHOOSE i \in Priority : P(i)
           d == Dispatch(j)
<1>1. c \in Priority /\ c \in Nat /\ j.READY_Q \in [Priority -> Seq(Task)]
  BY KernelFields, Priorities
<1>2. d = [j EXCEPT !.CURRENT_READY_Q = p, !.ACTIVE_PTR = Head(j.READY_Q[p])]
  BY DEF Dispatch
<1> HIDE DEF p
<1>3. /\ d.CURRENT_READY_Q = p /\ d.ACTIVE_PTR = Head(j.READY_Q[p])
      /\ d.READY_Q = j.READY_Q
  BY <1>2 DEF Kernel
<1>4. KInv(d, {})
  OBVIOUS
<1> HIDE DEF d
<1>5. j.READY_Q[IDLE_PRIORITY] # <<>>
  <2>1. Idle \in Elems(j.READY_Q[IDLE_PRIORITY])
    BY <1>3, <1>4, Priorities, KernelAssumption DEF KInv, IdleOK, ReadyExcept
  <2> QED
    BY <1>1, <2>1, Priorities, EmptyQueue
<1>6. \E i \in Priority : P(i)
  <2> DEFINE N == {i \in Priority : i >= c /\ j.READY_Q[i] # <<>>}
  <2>1. IDLE_PRIORITY \in N
    BY <1>1, <1>5, Priorities
  <2>2. PICK i \in N : \A x \in N : i <= x
    BY <2>1, Priorities, LeastNatural
  <2>3. ASSUME NEW x \in c .. (i - 1)
        PROVE  j.READY_Q[x] = <<>>
    <3>1. x \in Priority /\ x >= c /\ ~(i <= x)
      BY <1>1, <2>2, Priorities
    <3> QED
      BY <2>2, <3>1
  <2> QED
    BY <2>2, <2>3
<1>7. p \in Priority /\ P(p)
  BY <1>6 DEF p
<1>8. d.ACTIVE_PTR \in Task /\ d.ACTIVE_PTR \in Elems(d.READY_Q[p])
  BY <1>1, <1>3, <1>7, EmptyQueue
<1>9. d.MY_QUEUE[d.ACTIVE_PTR] = p
  BY <1>4, <1>7, <1>8 DEF KInv, ReadyExcept
<1> QED
  BY <1>3, <1>9 DEF d

\* Switching tasks stops nobody's preemption.
LEMMA DispatchPreemption ==
    ASSUME NEW j \in Kernel
    PROVE  /\ Dispatch(j).PREEMPTION_DISABLED = j.PREEMPTION_DISABLED
           /\ CHECK_RUN_SCHEDULER(j).PREEMPTION_DISABLED = j.PREEMPTION_DISABLED
           /\ IsrReturn(j).PREEMPTION_DISABLED = j.PREEMPTION_DISABLED
<1>1. Dispatch(j).PREEMPTION_DISABLED = j.PREEMPTION_DISABLED
  BY DEF Dispatch, Kernel
<1> QED
  BY <1>1 DEF CHECK_RUN_SCHEDULER, IsrReturn

\* The dispatcher settles the kernel.
LEMMA DispatchSettles ==
    ASSUME NEW j, KInv(j, {}), j.PREEMPTION_DISABLED = {}, j.HOME_QUEUE = InitPriority
    PROVE  Settled(Dispatch(j)) /\ OnlySwitched(j, Dispatch(j))
<1>1. j \in Kernel
  BY DEF KInv
<1>2. KInv(Dispatch(j), {}) /\ TopRuns(Dispatch(j)) /\ OnlySwitched(j, Dispatch(j))
  BY <1>1, DispatchInv, SwitchFrame
<1>3. Dispatch(j).PREEMPTION_DISABLED = {}
  BY <1>1, DispatchPreemption
<1> QED
  BY <1>1, <1>2, <1>3, DispatchHint DEF Settled, Core, TopRuns, OnlySwitched

\* So do the scheduler called by a task, and the end of an interrupt.
LEMMA SwitchSettles ==
    ASSUME NEW j, Core(j)
    PROVE  /\ Settled(CHECK_RUN_SCHEDULER(j)) /\ OnlySwitched(j, CHECK_RUN_SCHEDULER(j))
           /\ Settled(IsrReturn(j)) /\ OnlySwitched(j, IsrReturn(j))
<1>1. j \in Kernel
  BY DEF Core, KInv
<1>2. Settled(Dispatch(j)) /\ OnlySwitched(j, Dispatch(j))
  BY DispatchSettles DEF Core
<1>3. OnlySwitched(j, CHECK_RUN_SCHEDULER(j)) /\ OnlySwitched(j, IsrReturn(j))
  BY <1>1, SwitchFrame
<1>4. Settled(CHECK_RUN_SCHEDULER(j))
  BY <1>2 DEF CHECK_RUN_SCHEDULER, Settled
<1>5. CASE /\ j.READY_Q[j.CURRENT_READY_Q] # <<>>
           /\ Head(j.READY_Q[j.CURRENT_READY_Q]) = j.ACTIVE_PTR
  <2>1. /\ j.READY_Q \in [Priority -> Seq(Task)] /\ j.CURRENT_READY_Q \in Priority
        /\ j.ACTIVE_PTR \in Task
    BY <1>1, KernelFields
  <2>2. j.ACTIVE_PTR \in Elems(j.READY_Q[j.CURRENT_READY_Q])
    BY <1>5, <2>1, EmptyQueue
  <2>3. j.CURRENT_READY_Q = j.MY_QUEUE[j.ACTIVE_PTR]
    BY <2>1, <2>2 DEF Core, KInv, ReadyExcept
  <2>4. IsrReturn(j) = j
    BY <1>5 DEF IsrReturn
  <2> QED
    BY <1>3, <1>4, <2>3, <2>4 DEF Settled
<1>6. CASE ~(/\ j.READY_Q[j.CURRENT_READY_Q] # <<>>
             /\ Head(j.READY_Q[j.CURRENT_READY_Q]) = j.ACTIVE_PTR)
  <2>1. IsrReturn(j) = Dispatch(j)
    BY <1>6 DEF IsrReturn, Core
  <2> QED
    BY <1>2, <1>3, <1>4, <2>1
<1> QED
  BY <1>5, <1>6

\* The timer interrupt.
LEMMA TickSettles ==
    ASSUME NEW j, Core(j)
    PROVE  LET v == IsrReturn(time_notify_kernel(j))
           IN  Settled(v) /\ \E S \in SUBSET j.ON_TIMEOUT_Q : TimedOut(j, v, S)
<1> DEFINE f == [t \in Task |-> IF t \in j.ON_TIMEOUT_Q THEN j.TIMEOUT[t] - 1
                                                        ELSE j.TIMEOUT[t]]
           i == IncTime(j)
           e == Expire(i)
           s == TimeSlice(e)
           v == IsrReturn(s)
<1>1. /\ j \in Kernel /\ j.ACTIVE_PTR \in Task /\ KInv(j, {}) /\ IsReady(j, j.ACTIVE_PTR)
      /\ j.PREEMPTION_DISABLED = {} /\ j.HOME_QUEUE = InitPriority
  BY KernelFields DEF Core, KInv
<1>2. i.PREEMPTION_DISABLED = {}
  <2>1. i = [j EXCEPT !.TIMEOUT = f]
    BY DEF IncTime
  <2> HIDE DEF i, f
  <2> QED
    BY <1>1, <2>1 DEF Kernel
<1>3. KInv(i, {}) /\ i.ACTIVE_PTR = j.ACTIVE_PTR /\ IsReady(i, j.ACTIVE_PTR)
  BY <1>1, IncTimeInv
<1> HIDE DEF i
<1>4. e.PREEMPTION_DISABLED = {}
  <2> DEFINE w == i.TIMEOUT_QUEUE
             n == CHOOSE x \in 0 .. Len(w) :
                     /\ \A y \in 1 .. x : Due(i, w[y])
                     /\ x < Len(w) => ~Due(i, w[x + 1])
             due == SubSeq(w, 1, n)
             a == SubSeq(w, n + 1, Len(w))
             b == i.ON_TIMEOUT_Q \ Elems(due)
             c == [t \in Task |-> IF t \in Elems(due) THEN 0 ELSE i.TIMEOUT[t]]
             d == LeaveAuxQueues(i, Elems(due))
             g == [i EXCEPT !.TIMEOUT_QUEUE = a, !.ON_TIMEOUT_Q = b, !.TIMEOUT = c,
                            !.QUEUE = d]
  <2>1. e = ReadyAll(g, due)
    BY DEF Expire
  <2> HIDE DEF e, a, b, c, d, due
  <2> QED
    BY <1>2, <1>3, <2>1 DEF ReadyAll, KInv, Kernel
<1>5. KInv(e, {}) /\ IsReady(e, e.ACTIVE_PTR)
  BY <1>1, <1>3, ExpireInv
<1> HIDE DEF e
<1>6. s.PREEMPTION_DISABLED = {}
  <2>1. e \in Kernel /\ e.ACTIVE_PTR \in Task
    BY <1>5, KernelFields DEF KInv
  <2>2. TASK_READY(UnlinkReady(e, e.ACTIVE_PTR), e.ACTIVE_PTR).PREEMPTION_DISABLED = {}
    BY <1>4, <1>5, <2>1, RotateInv
  <2>3. \A c : [e EXCEPT !.CURRENT_TIME_SLICE[e.ACTIVE_PTR] = c].PREEMPTION_DISABLED = {}
    BY <1>4, <2>1 DEF Kernel
  <2> QED
    BY <1>4, <2>2, <2>3 DEF TimeSlice
<1>7. KInv(s, {}) /\ IsReady(s, s.ACTIVE_PTR)
  BY <1>5, TimeSliceInv, KernelFields DEF KInv
<1>8. v = IsrReturn(time_notify_kernel(j))
  BY DEF v, s, e, i, time_notify_kernel
<1>9. PICK S \in SUBSET j.ON_TIMEOUT_Q : TimedOut(j, v, S)
  BY <1>1, <1>8, TickFrame
<1> HIDE DEF s
<1>10. s.HOME_QUEUE = InitPriority
  <2>1. OnlySwitched(s, v)
    BY <1>7, SwitchFrame DEF KInv
  <2> QED
    BY <1>1, <1>9, <2>1 DEF OnlySwitched, TimedOut, Readied
<1>11. Settled(v)
  BY <1>6, <1>7, <1>10, SwitchSettles DEF Core
<1> HIDE DEF v
<1> QED
  BY <1>8, <1>9, <1>11

\* Task t of j has STATE st and INFO i in v, which is like j otherwise, as far as the
\* semaphores know.
Marked(j, v, t, st, i) ==
    /\ v.TD_STATE = [j.TD_STATE EXCEPT ![t] = st]
    /\ v.INFO = [j.INFO EXCEPT ![t] = i]
    /\ v.MY_QUEUE = j.MY_QUEUE /\ v.BOOSTED = j.BOOSTED

\* What _time_delay_internal passes to the dispatcher is a kernel that stops nobody's
\* preemption.
LEMMA DelayHint ==
    ASSUME NEW j \in Kernel, NEW t \in Task, NEW n \in Int
    PROVE  \E d \in Kernel : /\ time_delay_internal(j, t, n) = Dispatch(d)
                             /\ d.PREEMPTION_DISABLED = j.PREEMPTION_DISABLED
<1> DEFINE f == [j.TIMEOUT EXCEPT ![t] = n]
           k1 == [j EXCEPT !.TIMEOUT = f]
           Q == [k1.READY_Q EXCEPT ![k1.MY_QUEUE[t]] = Unlink(@, t)]
           u == UnlinkReady(k1, t)
           w == InsertBefore(u.TIMEOUT_QUEUE, t, DELAY_ENQUEUE_POLICY(k1, t))
           o == u.ON_TIMEOUT_Q \cup {t}
           d == [u EXCEPT !.TIMEOUT_QUEUE = w, !.ON_TIMEOUT_Q = o]
<1>1. j.TIMEOUT \in [Task -> Int]
  BY KernelFields
<1>2. time_delay_internal(j, t, n) = Dispatch(d)
  BY DEF time_delay_internal
<1>3. f \in [Task -> Int]
  BY <1>1
<1> HIDE DEF f
<1>4. k1 \in Kernel /\ k1.PREEMPTION_DISABLED = j.PREEMPTION_DISABLED
  BY <1>3 DEF Kernel
<1> HIDE DEF k1
<1>5. /\ k1.READY_Q \in [Priority -> Seq(Task)] /\ k1.MY_QUEUE[t] \in Priority
      /\ k1.TIMEOUT_QUEUE \in Seq(Task) /\ k1.ON_TIMEOUT_Q \in SUBSET Task
  BY <1>4, KernelFields
<1>6. Q \in [Priority -> Seq(Task)]
  BY <1>5, UnlinkElems
<1>7. u = [k1 EXCEPT !.READY_Q = Q]
  BY DEF UnlinkReady
<1> HIDE DEF u, Q
<1>8. /\ u \in Kernel /\ u.PREEMPTION_DISABLED = j.PREEMPTION_DISABLED
      /\ u.TIMEOUT_QUEUE \in Seq(Task) /\ u.ON_TIMEOUT_Q \in SUBSET Task
  BY <1>4, <1>5, <1>6, <1>7 DEF Kernel
<1>9. w \in Seq(Task) /\ o \in SUBSET Task
  BY <1>8, InsertElems
<1> HIDE DEF w, o
<1>10. d \in Kernel /\ d.PREEMPTION_DISABLED = j.PREEMPTION_DISABLED
  BY <1>8, <1>9 DEF Kernel
<1> QED
  BY <1>2, <1>10

\* What a task about to block makes of the kernel.
Blocking(i, j, t, st, x) ==
    j = [i EXCEPT !.TD_STATE = [i.TD_STATE EXCEPT ![t] = st],
                  !.INFO = [i.INFO EXCEPT ![t] = x]]

\* The active task t delays itself; j: STATE and INFO of t are set already.
LEMMA DelaySettles ==
    ASSUME NEW i, Core(i), NEW t \in Task, t = i.ACTIVE_PTR, t # Idle, NEW n \in Int,
           NEW j \in Kernel, NEW st \in State, NEW x \in Info,
           Blocking(i, j, t, st, x)
    PROVE  LET v == time_delay_internal(j, t, n)
           IN  Settled(v) /\ Marked(i, v, t, st, x)
<1> DEFINE v == time_delay_internal(j, t, n)
           T == [i.TD_STATE EXCEPT ![t] = st]
           I == [i.INFO EXCEPT ![t] = x]
<1>1. i \in Kernel /\ i.TD_STATE \in [Task -> State]
  BY KernelFields DEF Core, KInv
<1>2. \A y \in Task \ {t} : T[y] = i.TD_STATE[y]
  BY <1>1
<1>3. j = [i EXCEPT !.TD_STATE = T, !.INFO = I]
  BY DEF Blocking
<1> HIDE DEF T, I
<1>4. /\ j.READY_Q = i.READY_Q /\ j.CURRENT_READY_Q = i.CURRENT_READY_Q
      /\ j.MY_QUEUE = i.MY_QUEUE /\ j.ON_TIMEOUT_Q = i.ON_TIMEOUT_Q
      /\ j.TIMEOUT_QUEUE = i.TIMEOUT_QUEUE /\ j.TIMEOUT = i.TIMEOUT
      /\ j.TD_STATE = T /\ j.INFO = I /\ j.BOOSTED = i.BOOSTED
      /\ j.HOME_QUEUE = i.HOME_QUEUE /\ j.PREEMPTION_DISABLED = i.PREEMPTION_DISABLED
  BY <1>1, <1>3 DEF Kernel
<1>5. KInv(v, {}) /\ TopRuns(v)
  BY <1>2, <1>4, TimeDelayInv DEF Core
<1>6. /\ v.TD_STATE = T /\ v.INFO = I /\ v.MY_QUEUE = i.MY_QUEUE
      /\ v.BOOSTED = i.BOOSTED /\ v.HOME_QUEUE = i.HOME_QUEUE
  BY <1>4, DelayFrame
<1>7. PICK d \in Kernel : v = Dispatch(d) /\ d.PREEMPTION_DISABLED = j.PREEMPTION_DISABLED
  BY DelayHint
<1> HIDE DEF v
<1>8. v.PREEMPTION_DISABLED = {}
  BY <1>4, <1>7, DispatchPreemption DEF Core
<1>9. v.CURRENT_READY_Q = v.MY_QUEUE[v.ACTIVE_PTR]
  BY <1>5, <1>7, DispatchHint
<1> QED
  BY <1>5, <1>6, <1>8, <1>9 DEF Settled, Core, TopRuns, Marked, v, T, I

\* The active task t blocks in _task_block with STATE st.
LEMMA BlockSettles ==
    ASSUME NEW i, Core(i), NEW t \in Task, t = i.ACTIVE_PTR, t # Idle,
           NEW j \in Kernel, NEW st \in State, st # "READY", NEW x \in Info,
           Blocking(i, j, t, st, x)
    PROVE  LET v == TaskBlock(j)
           IN  Settled(v) /\ Marked(i, v, t, st, x)
<1> DEFINE T == [i.TD_STATE EXCEPT ![t] = st]
           I == [i.INFO EXCEPT ![t] = x]
           Q == [j.READY_Q EXCEPT ![j.MY_QUEUE[t]] = Unlink(@, t)]
           u == UnlinkReady(j, t)
           v == TaskBlock(j)
<1>1. /\ i \in Kernel /\ i.TD_STATE \in [Task -> State] /\ KInv(i, {}) /\ IsReady(i, t)
      /\ i.READY_Q \in [Priority -> Seq(Task)] /\ i.MY_QUEUE[t] \in Priority
  BY KernelFields DEF Core, KInv
<1>2. T[t] = st /\ \A y \in Task \ {t} : T[y] = i.TD_STATE[y]
  BY <1>1
<1>3. j = [i EXCEPT !.TD_STATE = T, !.INFO = I]
  BY DEF Blocking
<1> HIDE DEF I
<1>4. /\ j.READY_Q = i.READY_Q /\ j.CURRENT_READY_Q = i.CURRENT_READY_Q
      /\ j.MY_QUEUE = i.MY_QUEUE /\ j.ON_TIMEOUT_Q = i.ON_TIMEOUT_Q
      /\ j.TIMEOUT_QUEUE = i.TIMEOUT_QUEUE /\ j.TIMEOUT = i.TIMEOUT
      /\ j.TD_STATE = T /\ j.INFO = I /\ j.BOOSTED = i.BOOSTED
      /\ j.HOME_QUEUE = i.HOME_QUEUE /\ j.PREEMPTION_DISABLED = i.PREEMPTION_DISABLED
      /\ j.ACTIVE_PTR = t
  BY <1>1, <1>3 DEF Kernel
<1>5. [j EXCEPT !.TD_STATE[t] = IF @ = "READY" THEN "BLOCKED" ELSE @] = j
  <2>1. [T EXCEPT ![t] = IF @ = "READY" THEN "BLOCKED" ELSE @] = T
    BY <1>1, <1>2
  <2>2. [j EXCEPT !.TD_STATE = T] = j
    <3> HIDE DEF T
    <3> QED
      BY <1>4 DEF Kernel
  <2> QED
    BY <1>4, <2>1, <2>2
<1>6. v = Dispatch(u)
  BY <1>4, <1>5 DEF TaskBlock
<1> HIDE DEF T
<1>7. Q \in [Priority -> Seq(Task)] /\ Q = [i.READY_Q EXCEPT ![i.MY_QUEUE[t]] = Unlink(@, t)]
  BY <1>1, <1>4, UnlinkElems
<1>8. u = [j EXCEPT !.READY_Q = Q]
  BY DEF UnlinkReady
<1> HIDE DEF Q, u
<1>20. u \in Kernel
  BY <1>7, <1>8 DEF Kernel
<1>9. /\ u.READY_Q = Q /\ u.CURRENT_READY_Q = i.CURRENT_READY_Q
      /\ u.MY_QUEUE = i.MY_QUEUE /\ u.ON_TIMEOUT_Q = i.ON_TIMEOUT_Q
      /\ u.TIMEOUT_QUEUE = i.TIMEOUT_QUEUE /\ u.TIMEOUT = i.TIMEOUT
      /\ u.TD_STATE = T /\ u.INFO = I /\ u.BOOSTED = i.BOOSTED
      /\ u.HOME_QUEUE = i.HOME_QUEUE /\ u.PREEMPTION_DISABLED = i.PREEMPTION_DISABLED
  BY <1>4, <1>7, <1>8 DEF Kernel
<1>10. ~IsReady(u, t) /\ \A y \in Task \ {t} : IsReady(u, y) <=> IsReady(i, y)
  BY <1>2, <1>9 DEF IsReady
<1>11. TimeoutQueueOK(u)
  BY <1>1, <1>9 DEF KInv, TimeoutQueueOK
<1>12. KInv(u, {})
  BY <1>1, <1>7, <1>20, <1>9, <1>10, <1>11, SuspendInv
<1>13. Settled(v) /\ OnlySwitched(u, v)
  BY <1>6, <1>9, <1>12, DispatchSettles DEF Core
<1> HIDE DEF v
<1> QED
  BY <1>9, <1>13 DEF OnlySwitched, Marked, v, T, I

\* INFO is not the scheduler's business.
LEMMA InfoCore ==
    ASSUME NEW j, Core(j), NEW t \in Task, NEW x \in Info
    PROVE  LET v == [j EXCEPT !.INFO[t] = x]
           IN  /\ Core(v) /\ v.ACTIVE_PTR = j.ACTIVE_PTR
               /\ v.TD_STATE = j.TD_STATE /\ v.INFO = [j.INFO EXCEPT ![t] = x]
               /\ v.MY_QUEUE = j.MY_QUEUE /\ v.BOOSTED = j.BOOSTED
               /\ v.CURRENT_READY_Q = j.CURRENT_READY_Q
<1> DEFINE I == [j.INFO EXCEPT ![t] = x]
           v == [j EXCEPT !.INFO = I]
<1>1. j \in Kernel /\ j.INFO \in [Task -> Info] /\ KInv(j, {}) /\ j.ACTIVE_PTR \in Task
  BY KernelFields DEF Core, KInv
<1>2. I \in [Task -> Info]
  BY <1>1
<1>3. v = [j EXCEPT !.INFO[t] = x]
  OBVIOUS
<1> HIDE DEF I
<1>4. v \in Kernel
  BY <1>1, <1>2 DEF Kernel
<1>5. /\ v.READY_Q = j.READY_Q /\ v.CURRENT_READY_Q = j.CURRENT_READY_Q
      /\ v.MY_QUEUE = j.MY_QUEUE /\ v.TD_STATE = j.TD_STATE
      /\ v.ON_TIMEOUT_Q = j.ON_TIMEOUT_Q /\ v.TIMEOUT_QUEUE = j.TIMEOUT_QUEUE
      /\ v.TIMEOUT = j.TIMEOUT /\ v.ACTIVE_PTR = j.ACTIVE_PTR /\ v.BOOSTED = j.BOOSTED
      /\ v.HOME_QUEUE = j.HOME_QUEUE /\ v.PREEMPTION_DISABLED = j.PREEMPTION_DISABLED
      /\ v.INFO = I
  BY <1>1 DEF Kernel
<1> HIDE DEF v
<1>6. KInv(v, {}) /\ \A u \in Task : IsReady(v, u) <=> IsReady(j, u)
  BY <1>1, <1>4, <1>5, Frame
<1>7. Core(v)
  BY <1>1, <1>5, <1>6 DEF Core
<1>8. /\ Core(v) /\ v.ACTIVE_PTR = j.ACTIVE_PTR
      /\ v.TD_STATE = j.TD_STATE /\ v.INFO = [j.INFO EXCEPT ![t] = x]
      /\ v.MY_QUEUE = j.MY_QUEUE /\ v.BOOSTED = j.BOOSTED
      /\ v.CURRENT_READY_Q = j.CURRENT_READY_Q
  BY <1>5, <1>7 DEF I
<1> QED
  BY <1>3, <1>8

\* A blocked task is taken off the timeout queue and made ready.
WakeUp(j, w) == TASK_READY(TIME_DEQUEUE(j, w), w)

\* Nobody runs instead before the scheduler is called.
LEMMA WakeUpCore ==
    ASSUME NEW j, Core(j), NEW w \in Task, j.TD_STATE[w] # "READY"
    PROVE  LET v == WakeUp(j, w)
           IN  /\ Core(v) /\ v.ACTIVE_PTR = j.ACTIVE_PTR
               /\ v.TD_STATE = [j.TD_STATE EXCEPT ![w] = "READY"] /\ v.INFO = j.INFO
               /\ v.MY_QUEUE = j.MY_QUEUE /\ v.BOOSTED = j.BOOSTED
<1> DEFINE d == TIME_DEQUEUE(j, w)
           v == TASK_READY(d, w)
<1>1. j \in Kernel /\ KInv(j, {}) /\ j.ACTIVE_PTR \in Task /\ IsReady(j, j.ACTIVE_PTR)
  BY KernelFields DEF Core, KInv
<1>2. /\ KInv(d, {}) /\ w \notin d.ON_TIMEOUT_Q
      /\ d.PREEMPTION_DISABLED = j.PREEMPTION_DISABLED
      /\ \A u \in Task : IsReady(d, u) <=> IsReady(j, u)
  BY <1>1, TimeDequeueInv
<1>3. /\ d.TD_STATE = j.TD_STATE /\ d.ACTIVE_PTR = j.ACTIVE_PTR /\ d.INFO = j.INFO
      /\ d.MY_QUEUE = j.MY_QUEUE /\ d.HOME_QUEUE = j.HOME_QUEUE /\ d.BOOSTED = j.BOOSTED
  BY <1>1, TimeDequeueFrame
<1> HIDE DEF d
<1>4. d.TD_STATE[w] # "READY" /\ d \in Kernel
  BY <1>2, <1>3 DEF KInv
<1>5. /\ KInv(v, {} \ {w}) /\ v.PREEMPTION_DISABLED = d.PREEMPTION_DISABLED
      /\ \A u \in Task : IsReady(v, u) <=> u = w \/ IsReady(d, u)
  BY <1>2, <1>4, TaskReadyInv, Zenon
<1>6. /\ v.TD_STATE = [d.TD_STATE EXCEPT ![w] = "READY"]
      /\ v.ACTIVE_PTR = d.ACTIVE_PTR /\ v.INFO = d.INFO
      /\ v.MY_QUEUE = d.MY_QUEUE /\ v.HOME_QUEUE = d.HOME_QUEUE /\ v.BOOSTED = d.BOOSTED
  BY <1>4, TaskReadyFrame
<1> HIDE DEF v
<1>7. KInv(v, {})
  <2>1. {} \ {w} = {}
    OBVIOUS
  <2> QED
    BY <1>5, <2>1
<1>8. Core(v)
  BY <1>1, <1>2, <1>3, <1>5, <1>6, <1>7 DEF Core
<1> QED
  BY <1>3, <1>6, <1>8 DEF WakeUp, v, d

\* BOOSTED is not the scheduler's business.
LEMMA BoostedCore ==
    ASSUME NEW j, Core(j), NEW B \in [Task -> Nat]
    PROVE  LET v == [j EXCEPT !.BOOSTED = B]
           IN  /\ Core(v) /\ v.ACTIVE_PTR = j.ACTIVE_PTR /\ v.TD_STATE = j.TD_STATE
               /\ v.INFO = j.INFO /\ v.MY_QUEUE = j.MY_QUEUE /\ v.BOOSTED = B
               /\ v.ON_TIMEOUT_Q = j.ON_TIMEOUT_Q
               /\ v.CURRENT_READY_Q = j.CURRENT_READY_Q /\ v.HOME_QUEUE = j.HOME_QUEUE
<1> DEFINE v == [j EXCEPT !.BOOSTED = B]
<1>1. j \in Kernel /\ KInv(j, {}) /\ j.ACTIVE_PTR \in Task
  BY KernelFields DEF Core, KInv
<1>2. v \in Kernel
  BY <1>1 DEF Kernel
<1>3. /\ v.READY_Q = j.READY_Q /\ v.CURRENT_READY_Q = j.CURRENT_READY_Q
      /\ v.MY_QUEUE = j.MY_QUEUE /\ v.TD_STATE = j.TD_STATE
      /\ v.ON_TIMEOUT_Q = j.ON_TIMEOUT_Q /\ v.TIMEOUT_QUEUE = j.TIMEOUT_QUEUE
      /\ v.TIMEOUT = j.TIMEOUT /\ v.ACTIVE_PTR = j.ACTIVE_PTR /\ v.BOOSTED = B
      /\ v.HOME_QUEUE = j.HOME_QUEUE /\ v.PREEMPTION_DISABLED = j.PREEMPTION_DISABLED
      /\ v.INFO = j.INFO
  BY <1>1 DEF Kernel
<1> HIDE DEF v
<1>4. KInv(v, {}) /\ \A u \in Task : IsReady(v, u) <=> IsReady(j, u)
  BY <1>1, <1>2, <1>3, Frame
<1>5. Core(v)
  BY <1>1, <1>3, <1>4 DEF Core
<1> QED
  BY <1>3, <1>5 DEF v

\* _sched_set_priority_internal stops nobody's preemption; the hint moves to the new
\* priority only if that is higher, as long as the task is not the active one.
LEMMA SetPriorityCore ==
    ASSUME NEW j, Core(j), NEW t \in Task, t # Idle, NEW p \in Priority
    PROVE  LET v == sched_set_priority_internal(j, t, p)
           IN  /\ Core(v) /\ v.TD_STATE = j.TD_STATE /\ v.INFO = j.INFO
               /\ v.BOOSTED = j.BOOSTED /\ v.MY_QUEUE = [j.MY_QUEUE EXCEPT ![t] = p]
               /\ t # j.ACTIVE_PTR /\ j.CURRENT_READY_Q <= p =>
                     /\ v.ACTIVE_PTR = j.ACTIVE_PTR
                     /\ v.CURRENT_READY_Q = j.CURRENT_READY_Q
<1> DEFINE u == UnlinkReady(j, t)
           Q == [j.READY_Q EXCEPT ![j.MY_QUEUE[t]] = Unlink(@, t)]
           w == [u EXCEPT !.MY_QUEUE[t] = p]
           F == [u.MY_QUEUE EXCEPT ![t] = p]
           moved == TASK_READY(w, t)
           v == sched_set_priority_internal(j, t, p)
<1>0. /\ j \in Kernel /\ KInv(j, {}) /\ IsReady(j, j.ACTIVE_PTR)
      /\ j.MY_QUEUE \in [Task -> Priority] /\ j.CURRENT_READY_Q \in Priority
      /\ j.ACTIVE_PTR \in Task
  BY KernelFields DEF Core, KInv
<1>1. KInv(v, {}) /\ IsReady(v, v.ACTIVE_PTR)
  BY <1>0, SetPriorityInv
<1>2. /\ v.TD_STATE = j.TD_STATE /\ v.INFO = j.INFO /\ v.HOME_QUEUE = j.HOME_QUEUE
      /\ v.BOOSTED = j.BOOSTED /\ v.MY_QUEUE = [j.MY_QUEUE EXCEPT ![t] = p]
  BY <1>0, SetPriorityFrame
<1>3. CASE IsReady(j, t)
  <2>1. u = [j EXCEPT !.READY_Q = Q]
    BY <1>3, <1>0, UnlinkReadyInv
  <2>2. w = [u EXCEPT !.MY_QUEUE = F]
    OBVIOUS
  <2>3. F[t] = p
    BY <1>0, <2>1 DEF Kernel
  <2> HIDE DEF u, Q, F
  <2>4. /\ w.ACTIVE_PTR = j.ACTIVE_PTR /\ w.CURRENT_READY_Q = j.CURRENT_READY_Q
        /\ w.PREEMPTION_DISABLED = j.PREEMPTION_DISABLED /\ w.MY_QUEUE = F
    BY <1>0, <2>1, <2>2 DEF Kernel
  <2>5. /\ moved.ACTIVE_PTR = j.ACTIVE_PTR
        /\ moved.PREEMPTION_DISABLED = j.PREEMPTION_DISABLED
        /\ moved.CURRENT_READY_Q = IF p < j.CURRENT_READY_Q THEN p ELSE j.CURRENT_READY_Q
    <3>1. DOMAIN w = DOMAIN j
      BY <2>1, <2>2
    <3> HIDE DEF w
    <3> QED
      BY <1>0, <2>3, <2>4, <3>1 DEF TASK_READY, Kernel
  <2>6. v = IF j.ACTIVE_PTR = t /\ p > j.MY_QUEUE[t] THEN Dispatch(moved) ELSE moved
    BY <1>3 DEF sched_set_priority_internal, w, u
  <2>7. Dispatch(moved).PREEMPTION_DISABLED = moved.PREEMPTION_DISABLED
    <3>1. DOMAIN moved = DOMAIN j
      BY <2>1, <2>2 DEF TASK_READY
    <3> HIDE DEF moved
    <3> QED
      BY <1>0, <3>1 DEF Dispatch, Kernel
  <2> HIDE DEF moved
  <2>8. v.PREEMPTION_DISABLED = {}
    BY <2>5, <2>6, <2>7 DEF Core
  <2>9. t # j.ACTIVE_PTR /\ j.CURRENT_READY_Q <= p =>
           /\ v.ACTIVE_PTR = j.ACTIVE_PTR /\ v.CURRENT_READY_Q = j.CURRENT_READY_Q
    <3>1. SUFFICES ASSUME t # j.ACTIVE_PTR, j.CURRENT_READY_Q <= p
                   PROVE  v.ACTIVE_PTR = j.ACTIVE_PTR /\ v.CURRENT_READY_Q = j.CURRENT_READY_Q
      OBVIOUS
    <3>2. ~(p < j.CURRENT_READY_Q)
      <4>1. p \in Int /\ j.CURRENT_READY_Q \in Int
        BY <1>0, Priorities
      <4> QED
        BY <3>1, <4>1
    <3>3. v = moved
      BY <2>6, <3>1
    <3> HIDE DEF v
    <3> QED
      BY <2>5, <3>2, <3>3
  <2> HIDE DEF v
  <2> QED
    BY <1>1, <1>2, <2>8, <2>9 DEF Core, v
<1>4. CASE ~IsReady(j, t)
  <2>1. v = [j EXCEPT !.MY_QUEUE = [j.MY_QUEUE EXCEPT ![t] = p]]
    BY <1>4 DEF sched_set_priority_internal
  <2>2. /\ v.PREEMPTION_DISABLED = j.PREEMPTION_DISABLED /\ v.ACTIVE_PTR = j.ACTIVE_PTR
        /\ v.CURRENT_READY_Q = j.CURRENT_READY_Q
    BY <1>0, <2>1 DEF Kernel
  <2> HIDE DEF v
  <2> QED
    BY <1>1, <1>2, <2>2 DEF Core, v
<1> QED
  BY <1>3, <1>4

\* _sched_boost_priority_internal: another task is raised to the priority that runs, and
\* the active task keeps the processor.
LEMMA BoostSettles ==
    ASSUME NEW j, Settled(j), NEW t \in Task, t # Idle, t # j.ACTIVE_PTR
    PROVE  LET p == j.MY_QUEUE[j.ACTIVE_PTR]
               v == sched_boost_priority_internal(j, t, p)
           IN  /\ Settled(v) /\ v.ACTIVE_PTR = j.ACTIVE_PTR
               /\ v.TD_STATE = j.TD_STATE /\ v.INFO = j.INFO
               /\ v.MY_QUEUE = [j.MY_QUEUE EXCEPT ![t] = p]
               /\ v.BOOSTED = [j.BOOSTED EXCEPT ![t] = @ + 1]
<1> DEFINE p == j.MY_QUEUE[j.ACTIVE_PTR]
           B == [j.BOOSTED EXCEPT ![t] = @ + 1]
           b == [j EXCEPT !.BOOSTED = B]
           m == sched_set_priority_internal(b, t, p)
           v == sched_boost_priority_internal(j, t, p)
<1>1. /\ j \in Kernel /\ j.ACTIVE_PTR \in Task /\ p \in Priority /\ Core(j)
      /\ j.MY_QUEUE \in [Task -> Priority] /\ j.BOOSTED \in [Task -> Nat]
      /\ j.CURRENT_READY_Q = p
  BY KernelFields DEF Settled, Core, KInv
<1>2. B \in [Task -> Nat]
  BY <1>1
<1>3. v = CHECK_RUN_SCHEDULER(m)
  BY DEF sched_boost_priority_internal
<1> HIDE DEF B, p
<1>4. /\ Core(b) /\ b.ACTIVE_PTR = j.ACTIVE_PTR /\ b.TD_STATE = j.TD_STATE
      /\ b.INFO = j.INFO /\ b.MY_QUEUE = j.MY_QUEUE /\ b.BOOSTED = B
      /\ b.CURRENT_READY_Q = j.CURRENT_READY_Q
  BY <1>1, <1>2, BoostedCore
<1> HIDE DEF b
<1>5. p <= p
  BY <1>1, Priorities
<1>6. /\ Core(m) /\ m.TD_STATE = b.TD_STATE /\ m.INFO = b.INFO
      /\ m.BOOSTED = b.BOOSTED /\ m.MY_QUEUE = [b.MY_QUEUE EXCEPT ![t] = p]
      /\ t # b.ACTIVE_PTR /\ b.CURRENT_READY_Q <= p =>
            m.ACTIVE_PTR = b.ACTIVE_PTR /\ m.CURRENT_READY_Q = b.CURRENT_READY_Q
  BY <1>1, <1>4, SetPriorityCore
<1> HIDE DEF m
<1>7. m.ACTIVE_PTR = j.ACTIVE_PTR /\ m.CURRENT_READY_Q = p
  BY <1>1, <1>4, <1>5, <1>6
<1>8. m.MY_QUEUE[m.ACTIVE_PTR] = p
  BY <1>1, <1>4, <1>6, <1>7 DEF p
<1>9. v = m
  BY <1>3, <1>7, <1>8 DEF CHECK_RUN_SCHEDULER
<1>10. /\ Settled(v) /\ v.ACTIVE_PTR = j.ACTIVE_PTR
       /\ v.TD_STATE = j.TD_STATE /\ v.INFO = j.INFO
       /\ v.MY_QUEUE = [j.MY_QUEUE EXCEPT ![t] = p] /\ v.BOOSTED = B
  BY <1>4, <1>6, <1>7, <1>8, <1>9 DEF Settled
<1> QED
  BY <1>10 DEF B, p

\* _sched_unboost_priority_internal: a task gives back all its boosts, and the
\* scheduler is called.
LEMMA UnboostSettles ==
    ASSUME NEW j, Core(j), NEW t \in Task, t # Idle, NEW n \in Nat, n > 0, j.BOOSTED[t] = n
    PROVE  LET v == sched_unboost_priority_internal(j, t, n)
           IN  /\ Settled(v) /\ v.TD_STATE = j.TD_STATE /\ v.INFO = j.INFO
               /\ v.MY_QUEUE = [j.MY_QUEUE EXCEPT ![t] = InitPriority[t]]
               /\ v.BOOSTED = [j.BOOSTED EXCEPT ![t] = 0]
<1> DEFINE p == j.HOME_QUEUE[t]
           B == [j.BOOSTED EXCEPT ![t] = 0]
           b == [j EXCEPT !.BOOSTED = B]
           m == sched_set_priority_internal(b, t, p)
           v == sched_unboost_priority_internal(j, t, n)
<1>1. /\ j \in Kernel /\ p \in Priority /\ j.BOOSTED \in [Task -> Nat]
  BY KernelFields DEF Core, KInv
<1>2. B \in [Task -> Nat]
  BY <1>1
<1>3. v = CHECK_RUN_SCHEDULER(m)
  BY DEF sched_unboost_priority_internal
<1>4. p = InitPriority[t]
  BY DEF Core
<1> HIDE DEF B, p
<1>5. /\ Core(b) /\ b.TD_STATE = j.TD_STATE
      /\ b.INFO = j.INFO /\ b.MY_QUEUE = j.MY_QUEUE /\ b.BOOSTED = B
  BY <1>1, <1>2, BoostedCore
<1> HIDE DEF b
<1>6. /\ Core(m) /\ m.TD_STATE = b.TD_STATE /\ m.INFO = b.INFO
      /\ m.BOOSTED = b.BOOSTED /\ m.MY_QUEUE = [b.MY_QUEUE EXCEPT ![t] = p]
  BY <1>1, <1>5, SetPriorityCore
<1> HIDE DEF m
<1>7. Settled(v) /\ OnlySwitched(m, v)
  BY <1>3, <1>6, SwitchSettles
<1> HIDE DEF v
<1> QED
  BY <1>4, <1>5, <1>6, <1>7 DEF OnlySwitched, v, B

(***************************************************************************)
(* The inductive invariant, part by part.                                   *)
(***************************************************************************)
\* The semaphore has been created: nobody is between naming it and setting VALID.
Made(s) ==
    /\ sem[s].block # "unused"
    /\ \A t \in Task : call[t].at = "create" => call[t].s # s

\* The tokens of s that t may post.
Share(t, s) == IF conn[t].SEM_PTR = s THEN conn[t].POST_STATE ELSE 0

\* A task is ready or delayed, or is blocked in a wait for a semaphore without a token.
StateOK(t) ==
    /\ k.TD_STATE[t] \in {"READY", "SEM_BLOCKED"}
    /\ k.TD_STATE[t] = "SEM_BLOCKED" =>
          /\ call[t].at = "wait" /\ k.INFO[t] = "SEM_WANT_SEMAPHORE"
          /\ sem[call[t].s].VALID /\ sem[call[t].s].COUNT = 0

\* A connection is to a semaphore that has been created; who has tokens to post has
\* them of a strict semaphore that is not destroyed, and no more than there are.
ConnOK(t) ==
    /\ conn[t].VALID => conn[t].SEM_PTR \in Semaphore /\ Made(conn[t].SEM_PTR)
    /\ ~conn[t].VALID => conn[t] = NoConnection
    /\ conn[t].POST_STATE > 0 =>
          /\ Strict(conn[t].SEM_PTR) /\ sem[conn[t].SEM_PTR].VALID
          /\ conn[t].POST_STATE <= sem[conn[t].SEM_PTR].MAX_COUNT

\* What a task between naming a semaphore and setting VALID relies on.
FreshOK(t, s) ==
    /\ sem[s].block = "allocated" /\ ~sem[s].VALID
    /\ sem[s].WAITING_TASKS = <<>> /\ sem[s].OWNING_TASKS = <<>>
    /\ owed[s] = sem[s].COUNT
    /\ Strict(s) => sem[s].COUNT = sem[s].MAX_COUNT
    /\ \A u \in Task : call[u].at = "create" /\ call[u].s = s => u = t

\* Where task t stands in its call.
CallOK(t) ==
    /\ call[t].at = "none" => call[t].s = NULL
    /\ call[t].at # "none" => call[t].s \in Semaphore /\ sem[call[t].s].block # "unused"
    /\ call[t].close =>
          conn[t].VALID /\ call[t].at \in {"none", "unboosted", "scheduler", "free"}
    /\ call[t].destroying =>
          /\ call[t].at \in {"unboosted", "scheduler", "free"}
          /\ sem[call[t].s].block = "allocated" /\ ~sem[call[t].s].VALID
          /\ Made(call[t].s)
          /\ \A u \in Task : call[u].destroying /\ call[u].s = call[t].s => u = t
    /\ call[t].at = "free" => call[t].destroying
    /\ call[t].at = "wait" =>
          conn[t].VALID /\ conn[t].SEM_PTR = call[t].s /\ conn[t].POST_STATE = 0
    /\ call[t].at = "open" => ~conn[t].VALID /\ Made(call[t].s)
    /\ call[t].at = "unboosted" => conn[t].VALID /\ conn[t].POST_STATE = 0
    /\ call[t].at = "create" => FreshOK(t, call[t].s)

\* A task has the boosts its connection counts, and only as long as it has tokens to post;
\* without boosts it has its own priority.
BoostOK(t) ==
    /\ k.MY_QUEUE[t] <= InitPriority[t]
    /\ k.BOOSTED[t] = 0 => k.MY_QUEUE[t] = InitPriority[t]
    /\ IF call[t].at = "unboosted" THEN k.BOOSTED[t] = 0
       ELSE /\ k.BOOSTED[t] = conn[t].BOOSTED
            /\ conn[t].BOOSTED > 0 => conn[t].POST_STATE > 0

\* The tasks inside a wait for s, and the ones with tokens of s.
Waiters(s) == {t \in Task : call[t].at = "wait" /\ call[t].s = s}
Owners(s) == {t \in Task : Share(t, s) > 0}

\* The two queues of a semaphore.
QueuesOK(s) ==
    sem[s].VALID =>
        /\ NoDuplicates(sem[s].WAITING_TASKS)
        /\ Elems(sem[s].WAITING_TASKS) = Waiters(s)
        /\ NoDuplicates(sem[s].OWNING_TASKS)
        /\ Elems(sem[s].OWNING_TASKS) = Owners(s)

\* The tokens of s that some task may post, each as a pair of the task and a number.
Owned(s) ==
    {p \in Task \X (1 .. sem[s].MAX_COUNT) : p[2] <= Share(p[1], s)}

\* No token is lost or invented.
TokensOK(s) ==
    sem[s].VALID =>
        /\ owed[s] = sem[s].COUNT + Cardinality(InTransit(s))
        /\ Strict(s) => owed[s] + Cardinality(Owned(s)) = sem[s].MAX_COUNT

\* The life of a semaphore; its queue is sorted by the tasks' own priorities, which
\* the tasks on it have.
SemOK(s) ==
    /\ NAME = s <=> sem[s].block = "allocated"
    /\ sem[s].VALID => sem[s].block = "allocated" /\ Made(s)
    /\ sem[s].block = "unused" => sem[s].WAITING_TASKS = <<>> /\ sem[s].OWNING_TASKS = <<>>
    /\ Strict(s) => sem[s].MAX_COUNT > 0
    /\ Strict(s) /\ ~sem[s].VALID => InTransit(s) = {}
    /\ "PRIORITY_QUEUEING" \in sem[s].POLICY => Sorted(sem[s].WAITING_TASKS, InitPriority)

\* The inductive invariant.  That tokens are conserved needs to know who stands where in
\* a wait; that the scheduler's invariants survive an inherited priority needs the boosts;
\* and the boosts end because an owner's semaphore is not destroyed under it, which in
\* turn follows from the tokens.
Inv ==
    /\ TypeOK
    /\ Core(k) /\ (call[td].at # "scheduler" => Settled(k))
    /\ call[Idle] = NoCall /\ conn[Idle] = NoConnection
    /\ \A t \in Task : StateOK(t) /\ ConnOK(t) /\ CallOK(t) /\ BoostOK(t)
    /\ \A s \in Semaphore : QueuesOK(s) /\ TokensOK(s) /\ SemOK(s)

(***************************************************************************)
(* Types.                                                                   *)
(***************************************************************************)
\* The fields of the semaphores, the connections and the calls.
LEMMA Fields ==
    ASSUME TypeOK
    PROVE  /\ \A s \in Semaphore :
                 /\ sem[s].block \in {"unused", "allocated", "freed"}
                 /\ sem[s].VALID \in BOOLEAN /\ sem[s].POLICY \in ValidPolicies
                 /\ sem[s].DELAYED_DESTROY \in BOOLEAN
                 /\ sem[s].COUNT \in Nat /\ sem[s].MAX_COUNT \in Nat
                 /\ sem[s].WAITING_TASKS \in Seq(Task) /\ sem[s].OWNING_TASKS \in Seq(Task)
                 /\ owed[s] \in Int
           /\ \A t \in Task :
                 /\ conn[t].VALID \in BOOLEAN /\ conn[t].SEM_PTR \in Semaphore \cup {NULL}
                 /\ conn[t].BOOSTED \in Nat /\ conn[t].POST_STATE \in Nat
                 /\ call[t].s \in Semaphore \cup {NULL}
                 /\ call[t].destroying \in BOOLEAN /\ call[t].close \in BOOLEAN
           /\ td \in Task
<1>1. k.ACTIVE_PTR \in Task
  BY KernelFields DEF TypeOK
<1>2. ASSUME NEW s \in Semaphore
      PROVE  sem[s] \in SemStruct /\ owed[s] \in Int
  BY DEF TypeOK
<1>3. ASSUME NEW t \in Task
      PROVE  conn[t] \in Connection /\ call[t] \in Calls
  BY DEF TypeOK
<1> QED
  BY <1>1, <1>2, <1>3 DEF SemStruct, Connection, Calls, td

\* The places where a call may stop.
Places == {"none", "create", "open", "destroy", "wait", "unboosted", "scheduler", "free"}

\* Goto moves the call of one task.
LEMMA GotoFields ==
    ASSUME TypeOK, NEW c \in Task, c = td, NEW a \in Places, NEW x \in Semaphore \cup {NULL},
           NEW d \in BOOLEAN, Goto(a, x, d)
    PROVE  /\ call' \in [Task -> Calls]
           /\ \A t \in Task : t # c => call'[t] = call[t]
           /\ call'[c].at = a /\ call'[c].s = x /\ call'[c].destroying = d
           /\ call'[c].close = call[c].close
<1>1. call \in [Task -> Calls] /\ call[c] \in Calls
  BY DEF TypeOK
<1>2. PICK r : r = [call[c] EXCEPT !.at = a, !.s = x, !.destroying = d]
  OBVIOUS
<1>3. /\ r \in Calls /\ r.at = a /\ r.s = x /\ r.destroying = d /\ r.close = call[c].close
  BY <1>1, <1>2 DEF Calls, Places
<1>4. call' = [call EXCEPT ![c] = r]
  BY <1>1, <1>2 DEF Goto
<1> QED
  BY <1>1, <1>3, <1>4

\* One semaphore is changed.
LEMMA SemChange ==
    ASSUME TypeOK, NEW s \in Semaphore, NEW r \in SemStruct, sem' = [sem EXCEPT ![s] = r]
    PROVE  /\ sem' \in [Semaphore -> SemStruct] /\ sem'[s] = r
           /\ \A x \in Semaphore : x # s => sem'[x] = sem[x]
BY DEF TypeOK

\* One connection is changed.
LEMMA ConnChange ==
    ASSUME TypeOK, NEW c \in Task, NEW r \in Connection, conn' = [conn EXCEPT ![c] = r]
    PROVE  /\ conn' \in [Task -> Connection] /\ conn'[c] = r
           /\ \A t \in Task : t # c => conn'[t] = conn[t]
BY DEF TypeOK

\* The balance of one semaphore is changed.
LEMMA OwedChange ==
    ASSUME TypeOK, NEW s \in Semaphore, NEW n \in Int, owed' = [owed EXCEPT ![s] = n]
    PROVE  /\ owed' \in [Semaphore -> Int] /\ owed'[s] = n
           /\ \A x \in Semaphore : x # s => owed'[x] = owed[x]
BY DEF TypeOK

(***************************************************************************)
(* Counting tokens.                                                         *)
(***************************************************************************)
\* The numbers of the tokens.
LEMMA CountTo ==
    ASSUME NEW m \in Nat
    PROVE  IsFiniteSet(1 .. m) /\ Cardinality(1 .. m) = m
<1>1. m \in Int /\ 1 \in Int
  OBVIOUS
<1>2. IsFiniteSet(1 .. m) /\ Cardinality(1 .. m) = IF 1 > m THEN 0 ELSE m - 1 + 1
  BY <1>1, FS_Interval
<1> QED
  BY <1>2

\* There are finitely many tasks and tokens.
LEMMA TokenSets ==
    ASSUME TypeOK, NEW s \in Semaphore
    PROVE  /\ IsFiniteSet(InTransit(s)) /\ Cardinality(InTransit(s)) \in Nat
           /\ IsFiniteSet(Owned(s)) /\ Cardinality(Owned(s)) \in Nat
<1>0. sem[s].MAX_COUNT \in Nat
  BY Fields
<1>1. IsFiniteSet(Task) /\ IsFiniteSet(1 .. sem[s].MAX_COUNT)
  BY <1>0, CountTo, KernelAssumption
<1>2. IsFiniteSet(Task \X (1 .. sem[s].MAX_COUNT))
  BY <1>1, FS_Product
<1>3. InTransit(s) \subseteq Task /\ Owned(s) \subseteq Task \X (1 .. sem[s].MAX_COUNT)
  BY DEF InTransit, Owned
<1>4. IsFiniteSet(InTransit(s)) /\ IsFiniteSet(Owned(s))
  BY <1>1, <1>2, <1>3, FS_Subset
<1> QED
  BY <1>4, FS_CardinalityType

\* A semaphore that no step of the call has touched keeps its balance.
LEMMA TokensKept ==
    ASSUME NEW s \in Semaphore, TokensOK(s), sem'[s].VALID => sem[s].VALID,
           sem'[s].COUNT = sem[s].COUNT, sem'[s].POLICY = sem[s].POLICY,
           sem'[s].MAX_COUNT = sem[s].MAX_COUNT, owed'[s] = owed[s],
           InTransit(s)' = InTransit(s),
           \A t \in Task : Share(t, s)' = Share(t, s)
    PROVE  TokensOK(s)'
<1>1. Owned(s)' = Owned(s)
  BY DEF Owned
<1>2. Strict(s)' = Strict(s)
  BY DEF Strict
<1> QED
  BY <1>1, <1>2 DEF TokensOK

\* Who is on the way with a token, when no task's call, STATE or INFO has changed that.
LEMMA TransitKept ==
    ASSUME NEW s \in Semaphore,
           \A t \in Task :
              (/\ call'[t].at = "wait" /\ call'[t].s = s
               /\ k'.TD_STATE[t] # "SEM_BLOCKED" /\ k'.INFO[t] = "SEM_AVAILABLE")
              <=> (/\ call[t].at = "wait" /\ call[t].s = s
                   /\ k.TD_STATE[t] # "SEM_BLOCKED" /\ k.INFO[t] = "SEM_AVAILABLE")
    PROVE  InTransit(s)' = InTransit(s)
BY DEF InTransit

\* All the tokens of s cannot be with task t as long as some are not owned.
LEMMA ShareBound ==
    ASSUME TypeOK, NEW s \in Semaphore, NEW t \in Task, conn[t].SEM_PTR = s,
           Cardinality(Owned(s)) < sem[s].MAX_COUNT
    PROVE  conn[t].POST_STATE < sem[s].MAX_COUNT
<1> DEFINE m == sem[s].MAX_COUNT
           N == 1 .. m
           f == [n \in N |-> <<t, n>>]
<1>1. m \in Nat /\ m \in Int /\ conn[t].POST_STATE \in Nat
  BY Fields
<1>2. SUFFICES ASSUME conn[t].POST_STATE >= m
               PROVE  FALSE
  BY <1>1
<1>3. \A n \in N : <<t, n>> \in Owned(s)
  <2>1. ASSUME NEW n \in N
        PROVE  <<t, n>> \in Owned(s)
    <3>1. n <= Share(t, s)
      BY <1>1, <1>2, <2>1 DEF Share
    <3> QED
      BY <3>1 DEF Owned
  <2> QED
    BY <2>1
<1>4. Cardinality(N) = m
  BY <1>1, CountTo
<1>5. f \in Injection(N, Owned(s))
  <2>1. f \in [N -> Owned(s)]
    BY <1>3
  <2>2. \A n, x \in N : f[n] = f[x] => n = x
    OBVIOUS
  <2> QED
    BY <2>1, <2>2 DEF Injection, IsInjective
<1>6. IsFiniteSet(Owned(s)) /\ Cardinality(Owned(s)) \in Nat
  BY TokenSets
<1> HIDE DEF f
<1>7. Cardinality(N) <= Cardinality(Owned(s))
  BY <1>5, <1>6, FS_Injection
<1> QED
  BY <1>1, <1>4, <1>6, <1>7

\* A: the tokens, up to the number m, when each task t has f[t].
TokensOf(A, f, m) == A = {p \in Task \X (1 .. m) : p[2] <= f[p[1]]}

\* Task t of a strict semaphore has one token more after a step, and nobody else more or
\* fewer.
LEMMA OwnedMore ==
    ASSUME NEW A, NEW B, NEW f \in [Task -> Nat], NEW g \in [Task -> Nat], NEW m \in Nat,
           NEW t \in Task, f[t] < m, g[t] = f[t] + 1,
           \A u \in Task : u # t => g[u] = f[u],
           TokensOf(A, f, m), TokensOf(B, g, m), IsFiniteSet(A)
    PROVE  Cardinality(B) = Cardinality(A) + 1
<1>0. PICK n \in Nat : n = f[t]
  OBVIOUS
<1>1. n + 1 \in 1 .. m
  BY <1>0
<1>2. B = A \cup {<<t, n + 1>>}
  <2>1. ASSUME NEW u \in Task, NEW x \in 1 .. m
        PROVE  x <= g[u] <=> x <= f[u] \/ (u = t /\ x = n + 1)
    BY <1>0, <2>1
  <2> QED
    BY <1>1, <2>1 DEF TokensOf
<1>3. <<t, n + 1>> \notin A
  BY <1>0 DEF TokensOf
<1>4. Cardinality(A \cup {<<t, n + 1>>}) = Cardinality(A) + 1
  <2>1. PICK y : y = <<t, n + 1>>
    OBVIOUS
  <2> QED
    BY <1>3, <2>1, FS_AddElement
<1> QED
  BY <1>2, <1>4

(***************************************************************************)
(* Steps that touch no semaphore: the active task c moves on in its call,    *)
(* and is inside no wait before or after.                                   *)
(***************************************************************************)
Quiet(c) ==
    /\ \A t \in Task : t # c => call'[t] = call[t]
    /\ call[c].at # "wait" /\ call'[c].at # "wait"
    /\ k'.TD_STATE = k.TD_STATE /\ k'.INFO = k.INFO
    /\ k'.MY_QUEUE = k.MY_QUEUE /\ k'.BOOSTED = k.BOOSTED

\* Then the same tasks are inside a wait, and are on their way with a token.
LEMMA QuietWaiters ==
    ASSUME NEW c \in Task, Quiet(c), NEW x \in Semaphore
    PROVE  Waiters(x)' = Waiters(x) /\ InTransit(x)' = InTransit(x)
<1>1. ASSUME NEW t \in Task
      PROVE  /\ (call'[t].at = "wait" /\ call'[t].s = x) <=>
                   (call[t].at = "wait" /\ call[t].s = x)
             /\ k'.TD_STATE[t] = k.TD_STATE[t] /\ k'.INFO[t] = k.INFO[t]
  BY DEF Quiet
<1>2. Waiters(x)' = Waiters(x)
  BY <1>1 DEF Waiters
<1>3. InTransit(x)' = InTransit(x)
  BY <1>1 DEF InTransit
<1> QED
  BY <1>2, <1>3

\* The states stay explained if no valid semaphore loses VALID or gains a token.
LEMMA QuietStates ==
    ASSUME Inv, NEW c \in Task, Quiet(c),
           \A x \in Semaphore : sem[x].VALID => sem'[x].VALID /\ sem'[x].COUNT = sem[x].COUNT
    PROVE  \A t \in Task : StateOK(t)'
<1> SUFFICES ASSUME NEW t \in Task
             PROVE  StateOK(t)'
  OBVIOUS
<1>1. StateOK(t) /\ CallOK(t)
  BY DEF Inv
<1>2. CASE t = c
  BY <1>1, <1>2 DEF StateOK, Quiet
<1>3. CASE t # c
  BY <1>1, <1>3 DEF StateOK, CallOK, Quiet
<1> QED
  BY <1>2, <1>3

\* The two queues and the tokens of a semaphore that has not changed.
LEMMA QueuesKept ==
    ASSUME NEW x \in Semaphore, QueuesOK(x), sem'[x] = sem[x], Waiters(x)' = Waiters(x),
           \A t \in Task : Share(t, x)' = Share(t, x)
    PROVE  QueuesOK(x)'
<1>1. Owners(x)' = Owners(x)
  BY DEF Owners
<1> QED
  BY <1>1 DEF QueuesOK

\* What remains to show when the semaphores are unchanged: c's own place.
LEMMA QuietStep ==
    ASSUME Inv, NEW c \in Task, Quiet(c), sem' = sem, NAME' = NAME, owed' = owed,
           call[c].at # "create", call'[c].at # "create",
           \A t \in Task : t # c => conn'[t] = conn[t],
           \A x \in Semaphore : Share(c, x)' = Share(c, x),
           call'[c].destroying => call[c].destroying /\ call'[c].s = call[c].s
    PROVE  /\ \A x \in Semaphore : QueuesOK(x)' /\ TokensOK(x)' /\ SemOK(x)'
           /\ \A x \in Semaphore : Made(x)' <=> Made(x)
           /\ \A t \in Task : StateOK(t)'
           /\ \A t \in Task : t # c => ConnOK(t)' /\ CallOK(t)' /\ BoostOK(t)'
<1>1. \A t \in Task : StateOK(t)'
  BY QuietStates
<1>2. \A x \in Semaphore : Made(x)' <=> Made(x)
  BY DEF Made, Quiet
<1>3. ASSUME NEW x \in Semaphore
      PROVE  QueuesOK(x)' /\ TokensOK(x)' /\ SemOK(x)'
  <2>1. QueuesOK(x) /\ TokensOK(x) /\ SemOK(x)
    BY DEF Inv
  <2>2. Waiters(x)' = Waiters(x) /\ InTransit(x)' = InTransit(x)
    BY QuietWaiters
  <2>3. \A t \in Task : Share(t, x)' = Share(t, x)
    BY DEF Share
  <2>4. QueuesOK(x)'
    BY <2>1, <2>2, <2>3, QueuesKept
  <2>5. TokensOK(x)'
    BY <2>1, <2>2, <2>3, TokensKept
  <2>6. SemOK(x)'
    BY <1>2, <2>1, <2>2 DEF SemOK, Strict
  <2> QED
    BY <2>4, <2>5, <2>6
<1>4. ASSUME NEW t \in Task, t # c
      PROVE  ConnOK(t)' /\ CallOK(t)' /\ BoostOK(t)'
  <2>1. ConnOK(t) /\ CallOK(t) /\ BoostOK(t) /\ conn'[t] = conn[t] /\ call'[t] = call[t]
    BY <1>4 DEF Inv, Quiet
  <2>2. ConnOK(t)'
    BY <1>2, <2>1 DEF ConnOK, Strict
  <2>3. BoostOK(t)'
    BY <2>1 DEF BoostOK, Quiet
  <2>4. call[t].at = "create" => FreshOK(t, call[t].s)'
    BY <1>4, <2>1 DEF CallOK, FreshOK, Strict, Quiet
  <2>5. call[t].destroying =>
          \A u \in Task : call'[u].destroying /\ call'[u].s = call[t].s => u = t
    BY <1>4, <2>1 DEF CallOK, Quiet
  <2>6. CallOK(t)'
    BY <1>2, <2>1, <2>4, <2>5 DEF CallOK
  <2> QED
    BY <2>2, <2>3, <2>6
<1> QED
  BY <1>1, <1>2, <1>3, <1>4

\* A step that leaves the kernel alone, of a task that has called the scheduler.
LEMMA KernelKept ==
    ASSUME Inv, k' = k, call[td].at # "scheduler"
    PROVE  (k \in Kernel)' /\ Core(k') /\ Settled(k') /\ td' = td
BY DEF Inv, TypeOK, td

\* What the active task c finds when it is at a place in a call.
LEMMA Here ==
    ASSUME Inv, NEW a, At(a)
    PROVE  /\ td \in Task /\ td # Idle /\ call[td].at = a
           /\ StateOK(td) /\ ConnOK(td) /\ CallOK(td) /\ BoostOK(td)
           /\ k.TD_STATE[td] = "READY"
<1>1. td \in Task
  BY Fields DEF Inv
<1> QED
  BY <1>1 DEF Inv, At, Core, IsReady, td

\* The idle task is in no call and has no connection.
LEMMA IdleKept ==
    ASSUME Inv, NEW c \in Task, c # Idle,
           \A t \in Task : t # c => call'[t] = call[t],
           \A t \in Task : t # c => conn'[t] = conn[t]
    PROVE  call'[Idle] = NoCall /\ conn'[Idle] = NoConnection
BY KernelAssumption DEF Inv

\* The parts of the invariant put together.
LEMMA Parts ==
    ASSUME TypeOK', Core(k'), call'[td'].at # "scheduler" => Settled(k'),
           call'[Idle] = NoCall, conn'[Idle] = NoConnection,
           \A t \in Task : StateOK(t)', \A t \in Task : ConnOK(t)',
           \A t \in Task : CallOK(t)', \A t \in Task : BoostOK(t)',
           \A x \in Semaphore : QueuesOK(x)', \A x \in Semaphore : TokensOK(x)',
           \A x \in Semaphore : SemOK(x)'
    PROVE  Inv'
BY DEF Inv

\* _sem_open, the first half.
LEMMA OpenFindInv ==
    ASSUME Inv, OpenFind
    PROVE  Inv'
<1>1. PICK c \in Task : c = td
  BY Fields DEF Inv
<1>2. /\ TypeOK /\ c # Idle /\ call[c].at = "none" /\ ~call[c].close /\ ~conn[c].VALID
      /\ NAME # NULL /\ NAME \in Semaphore /\ sem[NAME].VALID
      /\ k' = k /\ sem' = sem /\ NAME' = NAME /\ conn' = conn /\ owed' = owed
  BY <1>1 DEF OpenFind, Free, At, Inv, TypeOK
<1>3. Goto("open", NAME, FALSE)
  BY DEF OpenFind
<1>4. /\ call' \in [Task -> Calls]
      /\ \A t \in Task : t # c => call'[t] = call[t]
      /\ call'[c].at = "open" /\ call'[c].s = NAME /\ call'[c].destroying = FALSE
      /\ call'[c].close = call[c].close
  BY <1>1, <1>2, <1>3, GotoFields DEF Places
<1>5. ConnOK(c) /\ CallOK(c) /\ BoostOK(c) /\ SemOK(NAME)
  BY <1>2 DEF Inv
<1>6. Quiet(c)
  BY <1>2, <1>4 DEF Quiet
<1>7. /\ \A x \in Semaphore : QueuesOK(x)' /\ TokensOK(x)' /\ SemOK(x)'
      /\ \A x \in Semaphore : Made(x)' <=> Made(x)
      /\ \A t \in Task : StateOK(t)'
      /\ \A t \in Task : t # c => ConnOK(t)' /\ CallOK(t)' /\ BoostOK(t)'
  <2>1. \A x \in Semaphore : Share(c, x)' = Share(c, x)
    BY <1>2 DEF Share
  <2> QED
    BY <1>2, <1>4, <1>6, <2>1, QuietStep
<1>8. ConnOK(c)'
  BY <1>2, <1>5, <1>7 DEF ConnOK, Strict
<1>9. CallOK(c)'
  BY <1>2, <1>4, <1>5, <1>7 DEF CallOK, SemOK
<1>10. BoostOK(c)'
  BY <1>2, <1>4, <1>5 DEF BoostOK
<1>11. Core(k') /\ Settled(k')
  BY <1>1, <1>2, KernelKept
<1>12. call'[Idle] = NoCall /\ conn'[Idle] = NoConnection
  BY <1>2, <1>4, IdleKept
<1>13. TypeOK'
  BY <1>2, <1>4 DEF TypeOK
<1> QED
  BY <1>7, <1>8, <1>9, <1>10, <1>11, <1>12, <1>13, Parts

\* _sem_open, the second half.
LEMMA OpenInv ==
    ASSUME Inv, sem_open
    PROVE  Inv'
<1>1. PICK c \in Task : c = td
  BY Fields DEF Inv
<1>2. /\ TypeOK /\ c # Idle /\ call[c].at = "open"
      /\ k' = k /\ sem' = sem /\ NAME' = NAME /\ owed' = owed
  BY <1>1 DEF sem_open, At, Inv
<1>3. ConnOK(c) /\ CallOK(c) /\ BoostOK(c)
  BY DEF Inv
<1>4. PICK s \in Semaphore : s = call[c].s
  BY <1>2, <1>3 DEF CallOK
<1>5. /\ conn' \in [Task -> Connection]
      /\ \A t \in Task : t # c => conn'[t] = conn[t]
      /\ conn'[c].VALID = TRUE /\ conn'[c].SEM_PTR = s
      /\ conn'[c].BOOSTED = 0 /\ conn'[c].POST_STATE = 0
  <2>1. PICK r : r = [NoConnection EXCEPT !.VALID = TRUE, !.SEM_PTR = s]
    OBVIOUS
  <2>2. /\ r \in Connection /\ r.VALID = TRUE /\ r.SEM_PTR = s
        /\ r.BOOSTED = 0 /\ r.POST_STATE = 0
    BY <2>1 DEF NoConnection, Connection
  <2>3. conn' = [conn EXCEPT ![c] = r]
    BY <1>1, <1>4, <2>1 DEF sem_open
  <2> QED
    BY <1>2, <2>2, <2>3, ConnChange
<1>6. Goto("none", NULL, FALSE)
  BY DEF sem_open, Return
<1>7. /\ call' \in [Task -> Calls]
      /\ \A t \in Task : t # c => call'[t] = call[t]
      /\ call'[c].at = "none" /\ call'[c].s = NULL /\ call'[c].destroying = FALSE
      /\ call'[c].close = call[c].close
  BY <1>1, <1>2, <1>6, GotoFields DEF Places
<1>8. Quiet(c)
  BY <1>2, <1>7 DEF Quiet
<1>9. conn[c].POST_STATE = 0 /\ conn[c].BOOSTED = 0
  BY <1>2, <1>3 DEF CallOK, ConnOK, NoConnection
<1>10. /\ \A x \in Semaphore : QueuesOK(x)' /\ TokensOK(x)' /\ SemOK(x)'
       /\ \A x \in Semaphore : Made(x)' <=> Made(x)
       /\ \A t \in Task : StateOK(t)'
       /\ \A t \in Task : t # c => ConnOK(t)' /\ CallOK(t)' /\ BoostOK(t)'
  <2>1. \A x \in Semaphore : Share(c, x)' = Share(c, x)
    BY <1>5, <1>9 DEF Share
  <2> QED
    BY <1>2, <1>5, <1>7, <1>8, <2>1, QuietStep
<1>11. ConnOK(c)'
  BY <1>2, <1>3, <1>4, <1>5, <1>10 DEF ConnOK, CallOK
<1>12. CallOK(c)'
  BY <1>2, <1>3, <1>7 DEF CallOK
<1>13. BoostOK(c)'
  BY <1>2, <1>3, <1>5, <1>7, <1>9 DEF BoostOK
<1>14. Core(k') /\ Settled(k')
  BY <1>1, <1>2, KernelKept
<1>15. TypeOK'
  BY <1>2, <1>5, <1>7 DEF TypeOK
<1>16. call'[Idle] = NoCall /\ conn'[Idle] = NoConnection
  BY <1>2, <1>5, <1>7, IdleKept
<1> QED
  BY <1>10, <1>11, <1>12, <1>13, <1>14, <1>15, <1>16, Parts

\* The end of a post that has given boosts back.
LEMMA UnboostedInv ==
    ASSUME Inv, PostUnboosted
    PROVE  Inv'
<1>1. PICK c \in Task : c = td
  BY Fields DEF Inv
<1>2. /\ TypeOK /\ c # Idle /\ call[c].at = "unboosted"
      /\ k' = k /\ sem' = sem /\ NAME' = NAME /\ owed' = owed
  BY <1>1 DEF PostUnboosted, At, Inv
<1>3. ConnOK(c) /\ CallOK(c) /\ BoostOK(c) /\ conn[c] \in Connection
  BY DEF Inv, TypeOK
<1>4. /\ conn' \in [Task -> Connection]
      /\ \A t \in Task : t # c => conn'[t] = conn[t]
      /\ conn'[c].VALID = conn[c].VALID /\ conn'[c].SEM_PTR = conn[c].SEM_PTR
      /\ conn'[c].BOOSTED = 0 /\ conn'[c].POST_STATE = conn[c].POST_STATE
  <2>1. PICK r : r = [conn[c] EXCEPT !.BOOSTED = 0]
    OBVIOUS
  <2>2. /\ r \in Connection /\ r.VALID = conn[c].VALID /\ r.SEM_PTR = conn[c].SEM_PTR
        /\ r.BOOSTED = 0 /\ r.POST_STATE = conn[c].POST_STATE
    BY <1>3, <2>1 DEF Connection
  <2>3. conn' = [conn EXCEPT ![c] = r]
    BY <1>1, <2>1 DEF PostUnboosted
  <2> QED
    BY <1>2, <2>2, <2>3, ConnChange
<1>5. /\ call[c].s \in Semaphore /\ call[c].s \in Semaphore \cup {NULL}
      /\ call[c].destroying \in BOOLEAN
  BY <1>2, <1>3, Fields DEF CallOK
<1>6. Goto("scheduler", call[c].s, call[c].destroying)
  BY <1>1 DEF PostUnboosted
<1>7. /\ call' \in [Task -> Calls]
      /\ \A t \in Task : t # c => call'[t] = call[t]
      /\ call'[c].at = "scheduler" /\ call'[c].s = call[c].s
      /\ call'[c].destroying = call[c].destroying /\ call'[c].close = call[c].close
  BY <1>1, <1>2, <1>5, <1>6, GotoFields DEF Places
<1>8. Quiet(c)
  BY <1>2, <1>7 DEF Quiet
<1>9. /\ \A x \in Semaphore : QueuesOK(x)' /\ TokensOK(x)' /\ SemOK(x)'
      /\ \A x \in Semaphore : Made(x)' <=> Made(x)
      /\ \A t \in Task : StateOK(t)'
      /\ \A t \in Task : t # c => ConnOK(t)' /\ CallOK(t)' /\ BoostOK(t)'
  <2>1. \A x \in Semaphore : Share(c, x)' = Share(c, x)
    BY <1>4 DEF Share
  <2> QED
    BY <1>2, <1>4, <1>7, <1>8, <2>1, QuietStep
<1>10. conn[c].VALID /\ conn[c].POST_STATE = 0
  BY <1>2, <1>3 DEF CallOK
<1>11. ConnOK(c)'
  BY <1>2, <1>3, <1>4, <1>9, <1>10 DEF ConnOK
<1>12. call[c].destroying =>
         \A u \in Task : call'[u].destroying /\ call'[u].s = call[c].s => u = c
  BY <1>2, <1>3, <1>7 DEF CallOK
<1>13. CallOK(c)'
  BY <1>2, <1>3, <1>4, <1>5, <1>7, <1>9, <1>10, <1>12 DEF CallOK
<1>14. BoostOK(c)'
  BY <1>2, <1>3, <1>4, <1>7 DEF BoostOK
<1>15. Core(k') /\ Settled(k')
  BY <1>1, <1>2, KernelKept
<1>16. TypeOK'
  BY <1>2, <1>4, <1>7 DEF TypeOK
<1>17. call'[Idle] = NoCall /\ conn'[Idle] = NoConnection
  BY <1>2, <1>4, <1>7, IdleKept
<1> QED
  BY <1>9, <1>11, <1>13, <1>14, <1>15, <1>16, <1>17, Parts

\* The scheduler at the end of a post or of a destroy.
LEMMA SchedulerInv ==
    ASSUME Inv, CheckRunScheduler
    PROVE  Inv'
<1>1. PICK c \in Task : c = td
  BY Fields DEF Inv
<1>2. /\ TypeOK /\ c # Idle /\ call[c].at = "scheduler" /\ Core(k)
      /\ k' = CHECK_RUN_SCHEDULER(k)
      /\ sem' = sem /\ NAME' = NAME /\ conn' = conn /\ owed' = owed
  BY <1>1 DEF CheckRunScheduler, At, Inv
<1>3. ConnOK(c) /\ CallOK(c) /\ BoostOK(c)
  BY DEF Inv
<1>4. Settled(k') /\ OnlySwitched(k, k')
  BY <1>2, SwitchSettles
<1>5. Core(k') /\ k' \in Kernel
  BY <1>4 DEF Settled, Core, KInv
<1>6. /\ call[c].s \in Semaphore /\ call[c].s \in Semaphore \cup {NULL}
      /\ call[c].destroying \in BOOLEAN
  BY <1>2, <1>3, Fields DEF CallOK
<1>7. /\ call' \in [Task -> Calls]
      /\ \A t \in Task : t # c => call'[t] = call[t]
      /\ IF call[c].destroying
         THEN call'[c].at = "free" /\ call'[c].s = call[c].s /\ call'[c].destroying = TRUE
         ELSE call'[c].at = "none" /\ call'[c].s = NULL /\ call'[c].destroying = FALSE
      /\ call'[c].close = call[c].close
  <2>1. CASE call[c].destroying
    <3>1. Goto("free", call[c].s, TRUE)
      BY <1>1, <2>1 DEF CheckRunScheduler
    <3> QED
      BY <1>1, <1>2, <1>6, <2>1, <3>1, GotoFields DEF Places
  <2>2. CASE ~call[c].destroying
    <3>1. Goto("none", NULL, FALSE)
      BY <1>1, <2>2 DEF CheckRunScheduler, Return
    <3> QED
      BY <1>1, <1>2, <1>6, <2>2, <3>1, GotoFields DEF Places
  <2> QED
    BY <2>1, <2>2
<1>8. Quiet(c)
  BY <1>2, <1>4, <1>7 DEF Quiet, OnlySwitched
<1>9. /\ \A x \in Semaphore : QueuesOK(x)' /\ TokensOK(x)' /\ SemOK(x)'
      /\ \A x \in Semaphore : Made(x)' <=> Made(x)
      /\ \A t \in Task : StateOK(t)'
      /\ \A t \in Task : t # c => ConnOK(t)' /\ CallOK(t)' /\ BoostOK(t)'
  <2>1. \A x \in Semaphore : Share(c, x)' = Share(c, x)
    BY <1>2 DEF Share
  <2> QED
    BY <1>2, <1>7, <1>8, <2>1, QuietStep
<1>10. ConnOK(c)'
  BY <1>2, <1>3, <1>9 DEF ConnOK, Strict
<1>11. call[c].destroying =>
         \A u \in Task : call'[u].destroying /\ call'[u].s = call[c].s => u = c
  BY <1>2, <1>3, <1>7 DEF CallOK
<1>12. CallOK(c)'
  BY <1>2, <1>3, <1>6, <1>7, <1>9, <1>11 DEF CallOK
<1>13. BoostOK(c)'
  BY <1>2, <1>3, <1>4, <1>7 DEF BoostOK, OnlySwitched
<1>14. TypeOK'
  BY <1>2, <1>5, <1>7 DEF TypeOK
<1>15. call'[Idle] = NoCall /\ conn'[Idle] = NoConnection
  BY <1>2, <1>7, IdleKept
<1> QED
  BY <1>4, <1>5, <1>9, <1>10, <1>12, <1>13, <1>14, <1>15, Parts

\* _sem_close, up to the first post.
LEMMA CloseInv ==
    ASSUME Inv, sem_close
    PROVE  Inv'
<1>1. PICK c \in Task : c = td
  BY Fields DEF Inv
<1>2. /\ TypeOK /\ c # Idle /\ call[c].at = "none" /\ ~call[c].close /\ conn[c].VALID
      /\ k' = k /\ sem' = sem /\ NAME' = NAME /\ owed' = owed
  BY <1>1 DEF sem_close, Free, At, Inv
<1>3. ConnOK(c) /\ CallOK(c) /\ BoostOK(c) /\ call[c] \in Calls
  BY DEF Inv, TypeOK
<1>4. /\ conn[c].POST_STATE \in Nat /\ conn[c].BOOSTED \in Nat
      /\ conn[c].SEM_PTR \in Semaphore
  BY <1>2, <1>3, Fields DEF ConnOK
<1>5. Core(k') /\ Settled(k')
  BY <1>1, <1>2, KernelKept
<1>6. CASE sem[conn[c].SEM_PTR].VALID /\ conn[c].POST_STATE > 0
  <2>1. PICK r : r = [call[c] EXCEPT !.close = TRUE]
    OBVIOUS
  <2>2. /\ r \in Calls /\ r.at = "none" /\ r.s = call[c].s
        /\ r.destroying = call[c].destroying /\ r.close = TRUE
    BY <1>2, <1>3, <2>1 DEF Calls
  <2>3. call' = [call EXCEPT ![c] = r] /\ conn' = conn
    BY <1>1, <1>6, <2>1 DEF sem_close
  <2>4. /\ call' \in [Task -> Calls] /\ call'[c] = r
        /\ \A t \in Task : t # c => call'[t] = call[t]
    BY <1>2, <2>2, <2>3 DEF TypeOK
  <2>5. Quiet(c)
    BY <1>2, <2>2, <2>4 DEF Quiet
  <2>6. \A x \in Semaphore : Share(c, x)' = Share(c, x)
    BY <2>3 DEF Share
  <2>7. /\ \A x \in Semaphore : QueuesOK(x)' /\ TokensOK(x)' /\ SemOK(x)'
        /\ \A x \in Semaphore : Made(x)' <=> Made(x)
        /\ \A t \in Task : StateOK(t)'
        /\ \A t \in Task : t # c => ConnOK(t)' /\ CallOK(t)' /\ BoostOK(t)'
    BY <1>2, <2>2, <2>3, <2>4, <2>5, <2>6, QuietStep
  <2>8. ConnOK(c)'
    BY <1>2, <1>3, <2>3, <2>7 DEF ConnOK, Strict
  <2>9. CallOK(c)'
    BY <1>2, <1>3, <2>2, <2>3, <2>4 DEF CallOK
  <2>10. BoostOK(c)'
    BY <1>2, <1>3, <2>2, <2>3, <2>4 DEF BoostOK
  <2>11. TypeOK'
    BY <1>2, <2>3, <2>4 DEF TypeOK
  <2>12. call'[Idle] = NoCall /\ conn'[Idle] = NoConnection
    BY <1>2, <2>3, <2>4, IdleKept
  <2> QED
    BY <1>5, <2>7, <2>8, <2>9, <2>10, <2>11, <2>12, Parts
<1>7. CASE ~(sem[conn[c].SEM_PTR].VALID /\ conn[c].POST_STATE > 0)
  <2>1. conn' = [conn EXCEPT ![c] = NoConnection] /\ call' = call
    BY <1>1, <1>7 DEF sem_close
  <2>2. NoConnection \in Connection
    BY DEF NoConnection, Connection
  <2>3. /\ conn' \in [Task -> Connection] /\ conn'[c] = NoConnection
        /\ \A t \in Task : t # c => conn'[t] = conn[t]
    BY <1>2, <2>1, <2>2, ConnChange
  <2>4. conn[c].POST_STATE = 0 /\ conn[c].BOOSTED = 0 /\ k.BOOSTED[c] = 0
    BY <1>2, <1>3, <1>4, <1>7 DEF ConnOK, BoostOK
  <2>5. Quiet(c)
    BY <1>2, <2>1 DEF Quiet
  <2>6. \A x \in Semaphore : Share(c, x)' = Share(c, x)
    BY <2>3, <2>4 DEF Share, NoConnection
  <2>7. /\ \A x \in Semaphore : QueuesOK(x)' /\ TokensOK(x)' /\ SemOK(x)'
        /\ \A t \in Task : StateOK(t)'
        /\ \A t \in Task : t # c => ConnOK(t)' /\ CallOK(t)' /\ BoostOK(t)'
    BY <1>2, <2>1, <2>3, <2>5, <2>6, QuietStep
  <2>8. ConnOK(c)'
    BY <2>3 DEF ConnOK, NoConnection
  <2>9. CallOK(c)'
    BY <1>2, <1>3, <2>1 DEF CallOK
  <2>10. BoostOK(c)'
    BY <1>2, <1>3, <2>1, <2>3, <2>4 DEF BoostOK, NoConnection
  <2>11. TypeOK'
    BY <1>2, <2>1, <2>3 DEF TypeOK
  <2>12. call'[Idle] = NoCall /\ conn'[Idle] = NoConnection
    BY <1>2, <2>1, <2>3, IdleKept
  <2> QED
    BY <1>5, <2>7, <2>8, <2>9, <2>10, <2>11, <2>12, Parts
<1> QED
  BY <1>6, <1>7

\* _sem_close, after the last post.
LEMMA CloseEndInv ==
    ASSUME Inv, CloseEnd
    PROVE  Inv'
<1>1. PICK c \in Task : c = td
  BY Fields DEF Inv
<1>2. /\ TypeOK /\ c # Idle /\ call[c].at = "none" /\ conn[c].POST_STATE = 0
      /\ k' = k /\ sem' = sem /\ NAME' = NAME /\ owed' = owed
      /\ conn' = [conn EXCEPT ![c] = NoConnection] /\ call' = [call EXCEPT ![c] = NoCall]
  BY <1>1 DEF CloseEnd, At, Inv
<1>3. ConnOK(c) /\ CallOK(c) /\ BoostOK(c) /\ conn[c].BOOSTED \in Nat
  BY Fields DEF Inv
<1>4. NoConnection \in Connection /\ NoCall \in Calls
  BY DEF NoConnection, Connection, NoCall, Calls
<1>5. /\ conn' \in [Task -> Connection] /\ conn'[c] = NoConnection
      /\ \A t \in Task : t # c => conn'[t] = conn[t]
  BY <1>2, <1>4, ConnChange
<1>6. /\ call' \in [Task -> Calls] /\ call'[c] = NoCall
      /\ \A t \in Task : t # c => call'[t] = call[t]
  BY <1>2, <1>4 DEF TypeOK
<1>7. conn[c].BOOSTED = 0 /\ k.BOOSTED[c] = 0
  BY <1>2, <1>3 DEF BoostOK
<1>8. Quiet(c)
  BY <1>2, <1>6 DEF Quiet, NoCall
<1>9. /\ \A x \in Semaphore : QueuesOK(x)' /\ TokensOK(x)' /\ SemOK(x)'
      /\ \A t \in Task : StateOK(t)'
      /\ \A t \in Task : t # c => ConnOK(t)' /\ CallOK(t)' /\ BoostOK(t)'
  <2>1. \A x \in Semaphore : Share(c, x)' = Share(c, x)
    BY <1>2, <1>5 DEF Share, NoConnection
  <2>2. call'[c].at # "create" /\ ~call'[c].destroying
    BY <1>6 DEF NoCall
  <2> QED
    BY <1>2, <1>5, <1>6, <1>8, <2>1, <2>2, QuietStep
<1>10. ConnOK(c)'
  BY <1>5 DEF ConnOK, NoConnection
<1>11. CallOK(c)'
  BY <1>6 DEF CallOK, NoCall
<1>12. BoostOK(c)'
  BY <1>2, <1>3, <1>5, <1>6, <1>7 DEF BoostOK, NoConnection, NoCall
<1>13. Core(k') /\ Settled(k')
  BY <1>1, <1>2, KernelKept
<1>14. TypeOK'
  BY <1>2, <1>5, <1>6 DEF TypeOK
<1>15. call'[Idle] = NoCall /\ conn'[Idle] = NoConnection
  BY <1>2, <1>5, <1>6, IdleKept
<1> QED
  BY <1>9, <1>10, <1>11, <1>12, <1>13, <1>14, <1>15, Parts

\* _sem_destroy, up to finding the semaphore.
LEMMA DestroyFindInv ==
    ASSUME Inv, DestroyFind
    PROVE  Inv'
<1>1. PICK c \in Task : c = td
  BY Fields DEF Inv
<1>2. /\ TypeOK /\ c # Idle /\ call[c].at = "none" /\ ~call[c].close
      /\ NAME # NULL /\ NAME \in Semaphore
      /\ k' = k /\ sem' = sem /\ NAME' = NAME /\ conn' = conn /\ owed' = owed
  BY <1>1 DEF DestroyFind, Free, At, Inv, TypeOK
<1>3. Goto("destroy", NAME, FALSE)
  BY DEF DestroyFind
<1>4. /\ call' \in [Task -> Calls]
      /\ \A t \in Task : t # c => call'[t] = call[t]
      /\ call'[c].at = "destroy" /\ call'[c].s = NAME /\ call'[c].destroying = FALSE
      /\ call'[c].close = call[c].close
  BY <1>1, <1>2, <1>3, GotoFields DEF Places
<1>5. ConnOK(c) /\ CallOK(c) /\ BoostOK(c) /\ SemOK(NAME)
  BY <1>2 DEF Inv
<1>6. Quiet(c)
  BY <1>2, <1>4 DEF Quiet
<1>7. /\ \A x \in Semaphore : QueuesOK(x)' /\ TokensOK(x)' /\ SemOK(x)'
      /\ \A x \in Semaphore : Made(x)' <=> Made(x)
      /\ \A t \in Task : StateOK(t)'
      /\ \A t \in Task : t # c => ConnOK(t)' /\ CallOK(t)' /\ BoostOK(t)'
  <2>1. \A x \in Semaphore : Share(c, x)' = Share(c, x)
    BY <1>2 DEF Share
  <2> QED
    BY <1>2, <1>4, <1>6, <2>1, QuietStep
<1>8. ConnOK(c)'
  BY <1>2, <1>5, <1>7 DEF ConnOK, Strict
<1>9. CallOK(c)'
  BY <1>2, <1>4, <1>5, <1>7 DEF CallOK, SemOK
<1>10. BoostOK(c)'
  BY <1>2, <1>4, <1>5 DEF BoostOK
<1>11. Core(k') /\ Settled(k')
  BY <1>1, <1>2, KernelKept
<1>12. call'[Idle] = NoCall /\ conn'[Idle] = NoConnection
  BY <1>2, <1>4, IdleKept
<1>13. TypeOK'
  BY <1>2, <1>4 DEF TypeOK
<1> QED
  BY <1>7, <1>8, <1>9, <1>10, <1>11, <1>12, <1>13, Parts

(***************************************************************************)
(* Delays and the timer interrupt: only the kernel changes.                  *)
(***************************************************************************)
\* Tasks may become ready; what a semaphore's waiters were told stays.
LEMMA KernelStep ==
    ASSUME Inv, sem' = sem, NAME' = NAME, conn' = conn, call' = call, owed' = owed,
           Settled(k'), k'.INFO = k.INFO, k'.MY_QUEUE = k.MY_QUEUE, k'.BOOSTED = k.BOOSTED,
           \A t \in Task : k'.TD_STATE[t] \in {k.TD_STATE[t], "READY"}
    PROVE  Inv'
<1>1. ASSUME NEW t \in Task
      PROVE  StateOK(t)' /\ ConnOK(t)' /\ CallOK(t)' /\ BoostOK(t)'
  <2>1. StateOK(t) /\ ConnOK(t) /\ CallOK(t) /\ BoostOK(t)
    BY DEF Inv
  <2>2. StateOK(t)'
    BY <2>1 DEF StateOK
  <2>3. ConnOK(t)'
    BY <2>1 DEF ConnOK, Made, Strict
  <2>4. CallOK(t)'
    BY <2>1 DEF CallOK, FreshOK, Made, Strict
  <2>5. BoostOK(t)'
    BY <2>1 DEF BoostOK
  <2> QED
    BY <2>2, <2>3, <2>4, <2>5
<1>2. ASSUME NEW x \in Semaphore
      PROVE  QueuesOK(x)' /\ TokensOK(x)' /\ SemOK(x)'
  <2>1. QueuesOK(x) /\ TokensOK(x) /\ SemOK(x)
    BY DEF Inv
  <2>2. Waiters(x)' = Waiters(x)
    BY DEF Waiters
  <2>3. InTransit(x)' = InTransit(x)
    <3>1. ASSUME NEW t \in Task
          PROVE  (k'.TD_STATE[t] # "SEM_BLOCKED" /\ k'.INFO[t] = "SEM_AVAILABLE")
                 <=> (k.TD_STATE[t] # "SEM_BLOCKED" /\ k.INFO[t] = "SEM_AVAILABLE")
      <4>1. StateOK(t)
        BY DEF Inv
      <4> QED
        BY <4>1 DEF StateOK
    <3> QED
      BY <3>1 DEF InTransit
  <2>4. \A t \in Task : Share(t, x)' = Share(t, x)
    BY DEF Share
  <2>5. QueuesOK(x)'
    BY <2>1, <2>2, <2>4, QueuesKept
  <2>6. TokensOK(x)'
    BY <2>1, <2>3, <2>4, TokensKept
  <2>7. SemOK(x)'
    BY <2>1, <2>3 DEF SemOK, Made, Strict
  <2> QED
    BY <2>5, <2>6, <2>7
<1>3. TypeOK'
  BY DEF Inv, TypeOK, Settled, Core, KInv
<1>4. Core(k')
  BY DEF Settled
<1>5. call'[Idle] = NoCall /\ conn'[Idle] = NoConnection
  BY DEF Inv
<1> QED
  BY <1>1, <1>2, <1>3, <1>4, <1>5, Parts

\* _time_delay_ticks
LEMMA DelayInv ==
    ASSUME Inv, NEW n \in 1 .. MaxDelay, time_delay_ticks(n)
    PROVE  Inv'
<1>1. PICK c \in Task : c = td
  BY Fields DEF Inv
<1>2. /\ c # Idle /\ c = k.ACTIVE_PTR /\ k \in Kernel /\ Core(k)
      /\ k' = time_delay_internal(k, c, n) /\ n \in Int
      /\ sem' = sem /\ NAME' = NAME /\ conn' = conn /\ call' = call /\ owed' = owed
  BY <1>1 DEF time_delay_ticks, Free, At, Inv, td, Core, KInv
<1>3. PICK st \in State : st = k.TD_STATE[c]
  BY <1>2, KernelFields
<1>4. PICK i \in Info : i = k.INFO[c]
  BY <1>2, KernelFields
<1>5. /\ k.TD_STATE \in [Task -> State] /\ k.INFO \in [Task -> Info]
  BY <1>2, KernelFields
<1>6. [k.TD_STATE EXCEPT ![c] = st] = k.TD_STATE /\ [k.INFO EXCEPT ![c] = i] = k.INFO
  BY <1>3, <1>4, <1>5
<1>7. Blocking(k, k, c, st, i)
  <2>1. [k EXCEPT !.TD_STATE = k.TD_STATE, !.INFO = k.INFO] = k
    BY <1>2 DEF Kernel
  <2> QED
    BY <1>6, <2>1 DEF Blocking
<1>8. Settled(k') /\ Marked(k, k', c, st, i)
  BY <1>2, <1>7, DelaySettles
<1> QED
  BY <1>2, <1>6, <1>8, KernelStep DEF Marked

\* The timer interrupt.
LEMMA TickSemInv ==
    ASSUME Inv, Tick
    PROVE  Inv'
<1>1. /\ k' = IsrReturn(time_notify_kernel(k)) /\ Core(k)
      /\ sem' = sem /\ NAME' = NAME /\ conn' = conn /\ call' = call /\ owed' = owed
  BY DEF Tick, Inv
<1>2. PICK S \in SUBSET k.ON_TIMEOUT_Q : Settled(k') /\ TimedOut(k, k', S)
  BY <1>1, TickSettles
<1> QED
  BY <1>1, <1>2, KernelStep DEF TimedOut, Readied

(***************************************************************************)
(* The beginning and the end of a semaphore's life.                          *)
(***************************************************************************)
\* Nobody waits for a semaphore before it has been created, or has tokens of it.
LEMMA NotMade ==
    ASSUME Inv, NEW s \in Semaphore, ~Made(s)
    PROVE  /\ Waiters(s) = {} /\ InTransit(s) = {} /\ Owners(s) = {} /\ Owned(s) = {}
           /\ \A t \in Task : Share(t, s) = 0 /\ conn[t].SEM_PTR # s
<1>1. ASSUME NEW t \in Task
      PROVE  conn[t].SEM_PTR # s /\ ~(call[t].at = "wait" /\ call[t].s = s)
  <2>1. ConnOK(t) /\ CallOK(t) /\ conn[t].VALID \in BOOLEAN
    BY Fields DEF Inv
  <2>2. conn[t].SEM_PTR # s
    BY <2>1, SemAssumption DEF ConnOK, NoConnection
  <2> QED
    BY <2>1, <2>2 DEF CallOK
<1>2. \A t \in Task : Share(t, s) = 0
  BY <1>1 DEF Share
<1>3. Waiters(s) = {} /\ InTransit(s) = {} /\ Owners(s) = {}
  BY <1>1, <1>2 DEF Waiters, InTransit, Owners
<1>4. Owned(s) = {}
  <2>1. ASSUME NEW p \in Task \X (1 .. sem[s].MAX_COUNT)
        PROVE  ~(p[2] <= Share(p[1], s))
    <3>1. p[1] \in Task /\ p[2] \in 1 .. sem[s].MAX_COUNT
      OBVIOUS
    <3>2. sem[s].MAX_COUNT \in Nat
      BY Fields DEF Inv
    <3>3. PICK m \in Nat : m = sem[s].MAX_COUNT
      BY <3>2
    <3>4. p[2] \in 1 .. m
      BY <3>1, <3>3
    <3> QED
      BY <1>2, <3>1, <3>4
  <2> QED
    BY <2>1 DEF Owned
<1> QED
  BY <1>1, <1>2, <1>3, <1>4

\* The semaphores that the step of one task leaves alone.
LEMMA OtherSems ==
    ASSUME Inv, NEW c \in Task, Quiet(c), conn' = conn, NEW x \in Semaphore,
           sem'[x] = sem[x], owed'[x] = owed[x]
    PROVE  QueuesOK(x)' /\ TokensOK(x)' /\ InTransit(x)' = InTransit(x)
<1>1. QueuesOK(x) /\ TokensOK(x)
  BY DEF Inv
<1>2. Waiters(x)' = Waiters(x) /\ InTransit(x)' = InTransit(x)
  BY QuietWaiters
<1>3. \A t \in Task : Share(t, x)' = Share(t, x)
  BY DEF Share
<1> QED
  BY <1>1, <1>2, <1>3, QueuesKept, TokensKept

\* _sem_create, up to the name.
LEMMA CreateNamedInv ==
    ASSUME Inv, NEW s \in Semaphore, NEW flags \in Policies,
           NEW initial_count \in InitialCounts, CreateNamed(s, flags, initial_count)
    PROVE  Inv'
<1>1. PICK c \in Task : c = td
  BY Fields DEF Inv
<1>2. /\ TypeOK /\ c # Idle /\ call[c].at = "none" /\ ~call[c].close
      /\ NAME = NULL /\ sem[s].block = "unused" /\ NAME' = s
      /\ ("STRICT" \in flags => initial_count > 0)
      /\ k' = k /\ conn' = conn
  BY <1>1 DEF CreateNamed, Free, At, Inv
<1>3. /\ initial_count \in Nat /\ initial_count \in Int /\ MaxCount \in Nat
      /\ flags \in ValidPolicies /\ s # NULL
  BY SemAssumption
<1>4. sem[s] \in SemStruct /\ SemOK(s)
  BY <1>2 DEF TypeOK, Inv
<1>5. PICK m \in Nat : m = IF "STRICT" \in flags THEN initial_count ELSE MaxCount
  BY <1>3
<1>6. PICK r : r = [sem[s] EXCEPT !.block = "allocated", !.POLICY = flags,
                                  !.COUNT = initial_count, !.MAX_COUNT = m]
  OBVIOUS
<1>7. /\ r \in SemStruct /\ r.block = "allocated" /\ r.POLICY = flags
      /\ r.COUNT = initial_count /\ r.MAX_COUNT = m /\ r.VALID = sem[s].VALID
      /\ r.WAITING_TASKS = sem[s].WAITING_TASKS /\ r.OWNING_TASKS = sem[s].OWNING_TASKS
  BY <1>3, <1>4, <1>6 DEF SemStruct
<1>8. sem' = [sem EXCEPT ![s] = r]
  BY <1>5, <1>6 DEF CreateNamed
<1>9. /\ sem' \in [Semaphore -> SemStruct] /\ sem'[s] = r
      /\ \A x \in Semaphore : x # s => sem'[x] = sem[x]
  BY <1>2, <1>7, <1>8, SemChange
<1>10. owed' = [owed EXCEPT ![s] = initial_count]
  BY DEF CreateNamed
<1>11. /\ owed' \in [Semaphore -> Int] /\ owed'[s] = initial_count
       /\ \A x \in Semaphore : x # s => owed'[x] = owed[x]
  BY <1>2, <1>3, <1>10, OwedChange
<1>12. Goto("create", s, FALSE)
  BY DEF CreateNamed
<1>13. /\ call' \in [Task -> Calls]
       /\ \A t \in Task : t # c => call'[t] = call[t]
       /\ call'[c].at = "create" /\ call'[c].s = s /\ call'[c].destroying = FALSE
       /\ call'[c].close = call[c].close
  BY <1>1, <1>2, <1>12, GotoFields DEF Places
<1>14. /\ ~sem[s].VALID /\ sem[s].WAITING_TASKS = <<>> /\ sem[s].OWNING_TASKS = <<>>
       /\ ~Made(s)
  BY <1>2, <1>4 DEF SemOK, Made
<1>15. Quiet(c)
  BY <1>2, <1>13 DEF Quiet
<1>16. \A x \in Semaphore : x # s => sem[x].block # "allocated"
  BY <1>2, SemAssumption DEF Inv, SemOK
<1>17. \A x \in Semaphore : Made(x) => x # s /\ Made(x)'
  BY <1>9, <1>13, <1>14 DEF Made
<1>18. \A t \in Task : conn[t].SEM_PTR # s
  BY <1>14, NotMade
<1>19. ASSUME NEW t \in Task
       PROVE  ConnOK(t)'
  <2>1. ConnOK(t) /\ conn[t].SEM_PTR \in Semaphore \cup {NULL} /\ conn[t].POST_STATE \in Nat
        /\ conn[t].VALID \in BOOLEAN
    BY <1>2, Fields DEF Inv
  <2>2. conn[t].POST_STATE > 0 => conn[t].VALID
    BY <2>1 DEF ConnOK, NoConnection
  <2> QED
    BY <1>2, <1>9, <1>17, <1>18, <2>1, <2>2 DEF ConnOK, Strict
<1>20. ASSUME NEW t \in Task, t # c
       PROVE  CallOK(t)'
  <2>1. CallOK(t) /\ call'[t] = call[t] /\ call[t].at # "create" /\ ~call[t].destroying
    BY <1>4, <1>2, <1>13, <1>16, <1>20 DEF Inv, CallOK, FreshOK
  <2>2. call[t].at # "none" => call[t].s # s
    BY <1>2, <2>1 DEF CallOK
  <2> QED
    BY <1>2, <1>9, <1>17, <2>1, <2>2 DEF CallOK
<1>21. CallOK(c)'
  <2>1. \A u \in Task : call'[u].at = "create" /\ call'[u].s = s => u = c
    <3>1. ASSUME NEW u \in Task, u # c
          PROVE  ~(call[u].at = "create" /\ call[u].s = s)
      <4>1. CallOK(u)
        BY DEF Inv
      <4> QED
        BY <1>2, <4>1 DEF CallOK
    <3> QED
      BY <1>13, <3>1
  <2>2. "STRICT" \in flags => sem'[s].COUNT = sem'[s].MAX_COUNT
    BY <1>5, <1>7, <1>9
  <2>3. /\ sem'[s].block = "allocated" /\ ~(sem'[s].VALID) /\ sem'[s].POLICY = flags
        /\ sem'[s].WAITING_TASKS = <<>> /\ sem'[s].OWNING_TASKS = <<>>
        /\ owed'[s] = sem'[s].COUNT
    BY <1>7, <1>9, <1>11, <1>14
  <2>4. FreshOK(c, s)'
    BY <2>1, <2>2, <2>3 DEF FreshOK, Strict
  <2> QED
    BY <1>2, <1>13, <2>3, <2>4 DEF CallOK
<1>22. ASSUME NEW t \in Task
       PROVE  BoostOK(t)'
  <2>1. BoostOK(t) /\ (t # c => call'[t] = call[t])
    BY <1>13 DEF Inv
  <2> QED
    BY <1>2, <1>13, <2>1 DEF BoostOK
<1>23. \A t \in Task : StateOK(t)'
  BY <1>9, <1>14, <1>15, QuietStates
<1>24. ASSUME NEW x \in Semaphore
       PROVE  QueuesOK(x)' /\ TokensOK(x)' /\ SemOK(x)'
  <2>1. CASE x = s
    <3>1. InTransit(s)' = {}
      BY <1>14, <1>15, QuietWaiters, NotMade
    <3>2. Sorted(<<>>, InitPriority)
      BY DEF Sorted
    <3>3. ~(sem'[s].VALID)
      BY <1>7, <1>9, <1>14
    <3>4. SemOK(s)'
      BY <1>2, <1>5, <1>7, <1>9, <1>14, <3>1, <3>2, <3>3 DEF SemOK, Strict
    <3>5. QueuesOK(s)' /\ TokensOK(s)'
      BY <3>3 DEF QueuesOK, TokensOK
    <3> QED
      BY <2>1, <3>4, <3>5
  <2>2. CASE x # s
    <3>1. sem'[x] = sem[x] /\ owed'[x] = owed[x] /\ SemOK(x)
      BY <1>9, <1>11, <2>2 DEF Inv
    <3>2. QueuesOK(x)' /\ TokensOK(x)' /\ InTransit(x)' = InTransit(x)
      BY <1>2, <1>15, <3>1, OtherSems
    <3>3. SemOK(x)'
      BY <1>2, <1>16, <1>17, <2>2, <3>1, <3>2 DEF SemOK, Strict
    <3> QED
      BY <3>2, <3>3
  <2> QED
    BY <2>1, <2>2
<1>25. Core(k') /\ Settled(k')
  BY <1>1, <1>2, KernelKept
<1>26. TypeOK'
  BY <1>2, <1>9, <1>11, <1>13 DEF TypeOK
<1>27. call'[Idle] = NoCall /\ conn'[Idle] = NoConnection
  BY <1>2, <1>13, IdleKept
<1> QED
  BY <1>19, <1>20, <1>21, <1>22, <1>23, <1>24, <1>25, <1>26, <1>27, Parts

\* _sem_create, the second half: the semaphore is valid, with all its tokens.
LEMMA CreateInv ==
    ASSUME Inv, sem_create
    PROVE  Inv'
<1>1. PICK c \in Task : c = td
  BY Fields DEF Inv
<1>2. /\ TypeOK /\ c # Idle /\ call[c].at = "create"
      /\ k' = k /\ NAME' = NAME /\ conn' = conn /\ owed' = owed
  BY <1>1 DEF sem_create, At, Inv
<1>3. CallOK(c)
  BY DEF Inv
<1>4. PICK s \in Semaphore : s = call[c].s
  BY <1>2, <1>3 DEF CallOK
<1>5. FreshOK(c, s) /\ ~Made(s) /\ ~call[c].destroying /\ sem[s] \in SemStruct /\ SemOK(s)
  BY <1>2, <1>3, <1>4 DEF CallOK, Made, TypeOK, Inv
<1>6. PICK r : r = [sem[s] EXCEPT !.VALID = TRUE]
  OBVIOUS
<1>7. /\ r \in SemStruct /\ r.block = sem[s].block /\ r.POLICY = sem[s].POLICY
      /\ r.COUNT = sem[s].COUNT /\ r.MAX_COUNT = sem[s].MAX_COUNT /\ r.VALID = TRUE
      /\ r.WAITING_TASKS = sem[s].WAITING_TASKS /\ r.OWNING_TASKS = sem[s].OWNING_TASKS
  BY <1>5, <1>6 DEF SemStruct
<1>8. sem' = [sem EXCEPT ![s] = r]
  BY <1>1, <1>4, <1>6 DEF sem_create
<1>9. /\ sem' \in [Semaphore -> SemStruct] /\ sem'[s] = r
      /\ \A x \in Semaphore : x # s => sem'[x] = sem[x]
  BY <1>2, <1>7, <1>8, SemChange
<1>10. Goto("none", NULL, FALSE)
  BY DEF sem_create, Return
<1>11. /\ call' \in [Task -> Calls]
       /\ \A t \in Task : t # c => call'[t] = call[t]
       /\ call'[c].at = "none" /\ call'[c].s = NULL /\ call'[c].destroying = FALSE
       /\ call'[c].close = call[c].close
  BY <1>1, <1>2, <1>10, GotoFields DEF Places
<1>12. Quiet(c)
  BY <1>2, <1>11 DEF Quiet
<1>13. \A x \in Semaphore : Made(x) => Made(x)'
  BY <1>7, <1>9, <1>11 DEF Made
<1>14. Made(s)'
  BY <1>5, <1>7, <1>9, <1>11 DEF Made, FreshOK
<1>15. /\ Waiters(s) = {} /\ InTransit(s) = {} /\ Owners(s) = {} /\ Owned(s) = {}
       /\ \A t \in Task : Share(t, s) = 0 /\ conn[t].SEM_PTR # s
  BY <1>5, NotMade
<1>16. ASSUME NEW t \in Task
       PROVE  ConnOK(t)'
  <2>1. /\ ConnOK(t) /\ conn[t].SEM_PTR \in Semaphore \cup {NULL}
        /\ conn[t].POST_STATE \in Nat /\ conn[t].VALID \in BOOLEAN
    BY <1>2, Fields DEF Inv
  <2>2. conn[t].POST_STATE > 0 => conn[t].VALID
    BY <2>1 DEF ConnOK, NoConnection
  <2> QED
    BY <1>2, <1>9, <1>13, <1>15, <2>1, <2>2 DEF ConnOK, Strict
<1>17. ASSUME NEW t \in Task, t # c
       PROVE  CallOK(t)'
  <2>1. CallOK(t) /\ call'[t] = call[t]
    BY <1>11, <1>17 DEF Inv
  <2>2. call[t].destroying => call[t].s # s
    BY <1>5, <2>1 DEF CallOK
  <2>3. call[t].at = "create" => call[t].s # s
    BY <1>5, <1>17 DEF FreshOK
  <2>4. \A x \in Semaphore : sem'[x].block = sem[x].block
    BY <1>7, <1>9
  <2>5. call[t].at = "create" => FreshOK(t, call[t].s)'
    BY <1>2, <1>9, <1>11, <2>1, <2>3 DEF CallOK, FreshOK, Strict
  <2>6. call[t].destroying =>
          \A u \in Task : call'[u].destroying /\ call'[u].s = call[t].s => u = t
    BY <1>11, <2>1 DEF CallOK
  <2>7. call[t].destroying => /\ call[t].at \in {"unboosted", "scheduler", "free"}
                              /\ sem'[call[t].s].block = "allocated"
                              /\ ~(sem'[call[t].s].VALID) /\ Made(call[t].s)'
    BY <1>9, <1>13, <2>1, <2>2 DEF CallOK
  <2> QED
    BY <1>2, <1>13, <2>1, <2>4, <2>5, <2>6, <2>7 DEF CallOK
<1>18. CallOK(c)'
  BY <1>2, <1>3, <1>11 DEF CallOK
<1>19. ASSUME NEW t \in Task
       PROVE  BoostOK(t)'
  <2>1. BoostOK(t) /\ (t # c => call'[t] = call[t])
    BY <1>11 DEF Inv
  <2> QED
    BY <1>2, <1>11, <2>1 DEF BoostOK
<1>20. \A t \in Task : StateOK(t)'
  BY <1>7, <1>9, <1>12, QuietStates
<1>21. ASSUME NEW x \in Semaphore
       PROVE  QueuesOK(x)' /\ TokensOK(x)' /\ SemOK(x)'
  <2>1. CASE x = s
    <3>1. Waiters(s)' = {} /\ InTransit(s)' = {}
      BY <1>12, <1>15, QuietWaiters
    <3>2. Owners(s)' = {} /\ Owned(s)' = {}
      <4>1. \A t \in Task : Share(t, s)' = Share(t, s)
        BY <1>2 DEF Share
      <4>2. Owners(s)' = Owners(s)
        BY <4>1 DEF Owners
      <4>3. Owned(s)' = Owned(s)
        BY <1>7, <1>9, <4>1 DEF Owned
      <4> QED
        BY <1>15, <4>2, <4>3
    <3>3. Elems(<<>>) = {} /\ NoDuplicates(<<>>)
      BY DEF Elems, NoDuplicates
    <3>4. /\ sem'[s].WAITING_TASKS = <<>> /\ sem'[s].OWNING_TASKS = <<>>
          /\ owed[s] = sem'[s].COUNT /\ owed[s] \in Int
          /\ (Strict(s)' => sem'[s].COUNT = sem'[s].MAX_COUNT)
      BY <1>2, <1>5, <1>7, <1>9, Fields DEF FreshOK, Strict
    <3>5. QueuesOK(s)'
      BY <3>1, <3>2, <3>3, <3>4 DEF QueuesOK
    <3>6. TokensOK(s)'
      BY <1>2, <3>1, <3>2, <3>4, FS_EmptySet DEF TokensOK
    <3>7. SemOK(s)'
      BY <1>2, <1>5, <1>7, <1>9, <1>14, <3>1 DEF SemOK, Strict, FreshOK
    <3> QED
      BY <2>1, <3>5, <3>6, <3>7
  <2>2. CASE x # s
    <3>1. sem'[x] = sem[x] /\ SemOK(x)
      BY <1>9, <2>2 DEF Inv
    <3>2. QueuesOK(x)' /\ TokensOK(x)' /\ InTransit(x)' = InTransit(x)
      BY <1>2, <1>12, <3>1, OtherSems
    <3>3. SemOK(x)'
      BY <1>2, <1>13, <2>2, <3>1, <3>2 DEF SemOK, Strict
    <3> QED
      BY <3>2, <3>3
  <2> QED
    BY <2>1, <2>2
<1>22. Core(k') /\ Settled(k')
  BY <1>1, <1>2, KernelKept
<1>23. TypeOK'
  BY <1>2, <1>9, <1>11 DEF TypeOK
<1>24. call'[Idle] = NoCall /\ conn'[Idle] = NoConnection
  BY <1>2, <1>11, IdleKept
<1> QED
  BY <1>16, <1>17, <1>18, <1>19, <1>20, <1>21, <1>22, <1>23, <1>24, Parts

\* The call that destroys a semaphore frees it.
LEMMA FreeInv ==
    ASSUME Inv, FreeSem
    PROVE  Inv'
<1>1. PICK c \in Task : c = td
  BY Fields DEF Inv
<1>2. /\ TypeOK /\ c # Idle /\ call[c].at = "free"
      /\ k' = k /\ NAME' = NULL /\ conn' = conn /\ owed' = owed
  BY <1>1 DEF FreeSem, At, Inv
<1>3. CallOK(c) /\ ConnOK(c)
  BY DEF Inv
<1>4. PICK s \in Semaphore : s = call[c].s
  BY <1>2, <1>3 DEF CallOK
<1>5. /\ sem[s].block = "allocated" /\ ~sem[s].VALID /\ Made(s) /\ sem[s] \in SemStruct
      /\ SemOK(s) /\ \A u \in Task : call[u].destroying /\ call[u].s = s => u = c
  BY <1>2, <1>3, <1>4 DEF CallOK, TypeOK, Inv
<1>6. PICK r : r = [sem[s] EXCEPT !.block = "freed"]
  OBVIOUS
<1>7. /\ r \in SemStruct /\ r.block = "freed" /\ r.POLICY = sem[s].POLICY
      /\ r.COUNT = sem[s].COUNT /\ r.MAX_COUNT = sem[s].MAX_COUNT /\ r.VALID = sem[s].VALID
      /\ r.WAITING_TASKS = sem[s].WAITING_TASKS /\ r.OWNING_TASKS = sem[s].OWNING_TASKS
  BY <1>5, <1>6 DEF SemStruct
<1>8. sem' = [sem EXCEPT ![s] = r]
  BY <1>1, <1>4, <1>6 DEF FreeSem
<1>9. /\ sem' \in [Semaphore -> SemStruct] /\ sem'[s] = r
      /\ \A x \in Semaphore : x # s => sem'[x] = sem[x]
  BY <1>2, <1>7, <1>8, SemChange
<1>10. Goto("none", NULL, FALSE)
  BY DEF FreeSem, Return
<1>11. /\ call' \in [Task -> Calls]
       /\ \A t \in Task : t # c => call'[t] = call[t]
       /\ call'[c].at = "none" /\ call'[c].s = NULL /\ call'[c].destroying = FALSE
       /\ call'[c].close = call[c].close
  BY <1>1, <1>2, <1>10, GotoFields DEF Places
<1>12. Quiet(c)
  BY <1>2, <1>11 DEF Quiet
<1>13. \A x \in Semaphore : Made(x) => Made(x)'
  BY <1>7, <1>9, <1>11 DEF Made
<1>14. /\ \A x \in Semaphore : x # s => sem[x].block # "allocated"
       /\ s # NULL /\ \A x \in Semaphore : x # NULL
  BY <1>5, SemAssumption DEF Inv, SemOK
<1>15. \A x \in Semaphore : /\ sem'[x].VALID = sem[x].VALID /\ sem'[x].COUNT = sem[x].COUNT
                            /\ sem'[x].POLICY = sem[x].POLICY
                            /\ sem'[x].MAX_COUNT = sem[x].MAX_COUNT
                            /\ (sem[x].block # "unused" => sem'[x].block # "unused")
                            /\ sem'[x].WAITING_TASKS = sem[x].WAITING_TASKS
                            /\ sem'[x].OWNING_TASKS = sem[x].OWNING_TASKS
  BY <1>7, <1>9
<1>16. ASSUME NEW t \in Task
       PROVE  ConnOK(t)'
  <2>1. /\ ConnOK(t) /\ conn[t].SEM_PTR \in Semaphore \cup {NULL}
        /\ conn[t].POST_STATE \in Nat /\ conn[t].VALID \in BOOLEAN
    BY <1>2, Fields DEF Inv
  <2>2. conn[t].POST_STATE > 0 => conn[t].VALID
    BY <2>1 DEF ConnOK, NoConnection
  <2> QED
    BY <1>2, <1>13, <1>15, <2>1, <2>2 DEF ConnOK, Strict
<1>17. ASSUME NEW t \in Task, t # c
       PROVE  CallOK(t)'
  <2>1. CallOK(t) /\ call'[t] = call[t]
    BY <1>11, <1>17 DEF Inv
  <2>2. ~call[t].destroying
    BY <1>5, <1>14, <1>17, <2>1 DEF CallOK
  <2>3. call[t].at # "create"
    BY <1>5, <1>14, <2>1 DEF CallOK, FreshOK, Made
  <2> QED
    BY <1>2, <1>13, <1>15, <2>1, <2>2, <2>3 DEF CallOK
<1>18. CallOK(c)'
  BY <1>2, <1>3, <1>11 DEF CallOK
<1>19. ASSUME NEW t \in Task
       PROVE  BoostOK(t)'
  <2>1. BoostOK(t) /\ (t # c => call'[t] = call[t])
    BY <1>11 DEF Inv
  <2> QED
    BY <1>2, <1>11, <2>1 DEF BoostOK
<1>20. \A t \in Task : StateOK(t)'
  BY <1>12, <1>15, QuietStates
<1>21. ASSUME NEW x \in Semaphore
       PROVE  QueuesOK(x)' /\ TokensOK(x)' /\ SemOK(x)'
  <2>1. CASE x = s
    <3>1. InTransit(s)' = InTransit(s)
      BY <1>12, QuietWaiters
    <3>2. ~(sem'[s].VALID)
      BY <1>5, <1>15
    <3>3. SemOK(s)'
      BY <1>2, <1>5, <1>7, <1>9, <1>14, <3>1, <3>2 DEF SemOK, Strict
    <3>4. QueuesOK(s)' /\ TokensOK(s)'
      BY <3>2 DEF QueuesOK, TokensOK
    <3> QED
      BY <2>1, <3>3, <3>4
  <2>2. CASE x # s
    <3>1. sem'[x] = sem[x] /\ SemOK(x)
      BY <1>9, <2>2 DEF Inv
    <3>2. QueuesOK(x)' /\ TokensOK(x)' /\ InTransit(x)' = InTransit(x)
      BY <1>2, <1>12, <3>1, OtherSems
    <3>3. SemOK(x)'
      BY <1>2, <1>13, <1>14, <2>2, <3>1, <3>2 DEF SemOK, Strict
    <3> QED
      BY <3>2, <3>3
  <2> QED
    BY <2>1, <2>2
<1>22. Core(k') /\ Settled(k')
  BY <1>1, <1>2, KernelKept
<1>23. TypeOK'
  BY <1>2, <1>9, <1>11 DEF TypeOK
<1>24. call'[Idle] = NoCall /\ conn'[Idle] = NoConnection
  BY <1>2, <1>11, IdleKept
<1> QED
  BY <1>16, <1>17, <1>18, <1>19, <1>20, <1>21, <1>22, <1>23, <1>24, Parts

(***************************************************************************)
(* Steps that touch one valid semaphore s, or none: the active task c waits, *)
(* posts or destroys.                                                        *)
(***************************************************************************)
Touched(c, s) ==
    /\ sem[s].VALID \/ (sem' = sem /\ owed' = owed /\ ~call'[c].destroying)
    /\ \A t \in Task : t # c => call'[t] = call[t]
    /\ call[c].at # "create" /\ call'[c].at # "create"
    /\ call'[c].destroying => call'[c].s = s
    /\ \A x \in Semaphore : x # s => sem'[x] = sem[x] /\ owed'[x] = owed[x]
    /\ sem'[s].block = sem[s].block /\ sem'[s].POLICY = sem[s].POLICY
    /\ sem'[s].MAX_COUNT = sem[s].MAX_COUNT
    /\ NAME' = NAME

\* Such a step makes and unmakes no semaphore.
LEMMA TouchedMade ==
    ASSUME NEW c \in Task, NEW s \in Semaphore, Touched(c, s)
    PROVE  \A x \in Semaphore : (Made(x)' <=> Made(x)) /\ sem'[x].block = sem[x].block
BY DEF Touched, Made

\* Another task t stands where it stood.  Its connection may have been boosted; its
\* semaphore may have been destroyed if the task has no tokens of it.
LEMMA TouchedTask ==
    ASSUME Inv, NEW c \in Task, NEW s \in Semaphore, Touched(c, s), NEW t \in Task, t # c,
           conn'[t].VALID = conn[t].VALID, conn'[t].SEM_PTR = conn[t].SEM_PTR,
           conn'[t].POST_STATE = conn[t].POST_STATE,
           conn'[t] = conn[t] \/ conn[t].VALID,
           sem'[s].VALID \/ (Share(t, s) = 0 /\ sem'[s].VALID = FALSE)
    PROVE  ConnOK(t)' /\ CallOK(t)'
<1>1. /\ ConnOK(t) /\ CallOK(t) /\ call'[t] = call[t]
      /\ conn[t].SEM_PTR \in Semaphore \cup {NULL} /\ conn[t].POST_STATE \in Nat
      /\ conn[t].VALID \in BOOLEAN
  BY Fields DEF Inv, Touched
<1>2. \A x \in Semaphore : (Made(x)' <=> Made(x)) /\ sem'[x].block = sem[x].block
  BY TouchedMade
<1>3. \A x \in Semaphore : /\ sem'[x].POLICY = sem[x].POLICY
                           /\ sem'[x].MAX_COUNT = sem[x].MAX_COUNT
                           /\ x # s => sem'[x] = sem[x] /\ owed'[x] = owed[x]
  BY DEF Touched
<1>4. conn[t].POST_STATE > 0 => conn[t].VALID /\ sem'[conn[t].SEM_PTR].VALID
  BY <1>1, <1>3 DEF ConnOK, NoConnection, Share
<1>5. ConnOK(t)'
  BY <1>1, <1>2, <1>3, <1>4 DEF ConnOK, Strict
<1>6. call[t].destroying => call[t].s # s \/ (sem' = sem /\ ~call'[c].destroying)
  BY <1>1 DEF CallOK, Touched
<1>7. call[t].at = "create" => FreshOK(t, call[t].s)'
  <2>1. call[t].at = "create" => /\ FreshOK(t, call[t].s)
                                 /\ call[t].s # s \/ (sem' = sem /\ owed' = owed)
    BY <1>1 DEF CallOK, FreshOK, Touched
  <2>2. \A u \in Task : call'[u].at = "create" => call[u] = call'[u]
    BY DEF Touched
  <2> QED
    BY <1>1, <1>3, <2>1, <2>2 DEF CallOK, FreshOK, Strict
<1>8. call[t].destroying =>
        \A u \in Task : call'[u].destroying /\ call'[u].s = call[t].s => u = t
  BY <1>1, <1>6 DEF CallOK, Touched
<1>9. CallOK(t)'
  BY <1>1, <1>2, <1>3, <1>6, <1>7, <1>8 DEF CallOK
<1> QED
  BY <1>5, <1>9

\* Another semaphore x is as it was.
LEMMA TouchedSem ==
    ASSUME Inv, NEW c \in Task, NEW s \in Semaphore, Touched(c, s),
           NEW x \in Semaphore, x # s,
           \A t \in Task : Share(t, x)' = Share(t, x),
           \A t \in Task : (call'[t].at = "wait" /\ call'[t].s = x) <=>
                           (call[t].at = "wait" /\ call[t].s = x),
           \A t \in Task : call[t].at = "wait" /\ call[t].s = x =>
                              /\ k'.TD_STATE[t] = k.TD_STATE[t] /\ k'.INFO[t] = k.INFO[t]
    PROVE  QueuesOK(x)' /\ TokensOK(x)' /\ SemOK(x)'
<1>1. QueuesOK(x) /\ TokensOK(x) /\ SemOK(x) /\ sem'[x] = sem[x] /\ owed'[x] = owed[x]
  BY DEF Inv, Touched
<1>2. Waiters(x)' = Waiters(x)
  BY DEF Waiters
<1>3. InTransit(x)' = InTransit(x)
  BY DEF InTransit
<1>4. QueuesOK(x)'
  BY <1>1, <1>2, QueuesKept
<1>5. TokensOK(x)'
  BY <1>1, <1>3, TokensKept
<1>6. SemOK(x)'
  <2>1. NAME' = NAME /\ (Made(x)' <=> Made(x))
    BY TouchedMade DEF Touched
  <2> QED
    BY <1>1, <1>3, <2>1 DEF SemOK, Strict
<1> QED
  BY <1>4, <1>5, <1>6

\* A successful wait: task c has one token of s more, if s is strict; i: the semaphore
\* by now.
LEMMA GrantedFields ==
    ASSUME TypeOK, NEW c \in Task, c = td, NEW s \in Semaphore, conn[c].SEM_PTR = s,
           NEW r \in SemStruct, NEW y, y = [sem EXCEPT ![s] = r], Granted(s, y)
    PROVE  /\ sem' \in [Semaphore -> SemStruct]
           /\ \A x \in Semaphore : x # s => sem'[x] = sem[x] /\ owed'[x] = owed[x]
           /\ sem'[s].block = r.block /\ sem'[s].VALID = r.VALID
           /\ sem'[s].POLICY = r.POLICY /\ sem'[s].COUNT = r.COUNT
           /\ sem'[s].MAX_COUNT = r.MAX_COUNT /\ sem'[s].WAITING_TASKS = r.WAITING_TASKS
           /\ sem'[s].OWNING_TASKS = IF Strict(s) /\ conn[c].POST_STATE = 0
                                     THEN Append(r.OWNING_TASKS, c) ELSE r.OWNING_TASKS
           /\ conn' \in [Task -> Connection]
           /\ \A t \in Task : t # c => conn'[t] = conn[t]
           /\ conn'[c].VALID = conn[c].VALID /\ conn'[c].SEM_PTR = s
           /\ conn'[c].BOOSTED = conn[c].BOOSTED
           /\ conn'[c].POST_STATE = IF Strict(s) THEN conn[c].POST_STATE + 1
                                    ELSE conn[c].POST_STATE
           /\ owed' \in [Semaphore -> Int] /\ owed'[s] = owed[s] - 1
<1>1. /\ sem \in [Semaphore -> SemStruct] /\ conn \in [Task -> Connection]
      /\ conn[c] \in Connection /\ owed[s] \in Int /\ conn[c].POST_STATE \in Nat
      /\ r.OWNING_TASKS \in Seq(Task)
  BY Fields DEF TypeOK, SemStruct
<1>2. PICK q : q = IF Strict(s) /\ conn[c].POST_STATE = 0
                   THEN Append(r.OWNING_TASKS, c) ELSE r.OWNING_TASKS
  OBVIOUS
<1>3. q \in Seq(Task)
  BY <1>1, <1>2, AppendElems
<1>4. PICK z : z = [r EXCEPT !.OWNING_TASKS = q]
  OBVIOUS
<1>5. /\ z \in SemStruct /\ z.block = r.block /\ z.VALID = r.VALID
      /\ z.POLICY = r.POLICY /\ z.COUNT = r.COUNT /\ z.MAX_COUNT = r.MAX_COUNT
      /\ z.WAITING_TASKS = r.WAITING_TASKS /\ z.OWNING_TASKS = q
  BY <1>3, <1>4 DEF SemStruct
<1>6. sem' = [sem EXCEPT ![s] = z]
  <2>1. CASE Strict(s) /\ conn[c].POST_STATE = 0
    <3>1. sem' = [y EXCEPT ![s].OWNING_TASKS = Append(@, c)]
      BY <2>1 DEF Granted
    <3>2. y \in [Semaphore -> SemStruct] /\ y[s] = r
      BY <1>1
    <3>3. sem' = [y EXCEPT ![s] = z]
      BY <1>2, <1>4, <2>1, <3>1, <3>2
    <3> QED
      BY <1>1, <3>3
  <2>2. CASE ~(Strict(s) /\ conn[c].POST_STATE = 0)
    <3>1. sem' = y
      BY <2>2 DEF Granted
    <3>2. z = r
      BY <1>2, <1>4, <2>2 DEF SemStruct
    <3> QED
      BY <3>1, <3>2
  <2> QED
    BY <2>1, <2>2
<1>7. /\ sem' \in [Semaphore -> SemStruct] /\ sem'[s] = z
      /\ \A x \in Semaphore : x # s => sem'[x] = sem[x]
  BY <1>5, <1>6, SemChange
<1>8. PICK n \in Nat : n = IF Strict(s) THEN conn[c].POST_STATE + 1 ELSE conn[c].POST_STATE
  BY <1>1
<1>9. PICK d : d = [conn[c] EXCEPT !.POST_STATE = n]
  OBVIOUS
<1>10. /\ d \in Connection /\ d.VALID = conn[c].VALID /\ d.SEM_PTR = conn[c].SEM_PTR
       /\ d.BOOSTED = conn[c].BOOSTED /\ d.POST_STATE = n
  BY <1>1, <1>9 DEF Connection
<1>11. conn' = [conn EXCEPT ![c] = d]
  <2>1. CASE Strict(s)
    BY <1>8, <1>9, <2>1 DEF Granted
  <2>2. CASE ~Strict(s)
    <3>1. conn' = conn /\ d = conn[c]
      BY <1>1, <1>8, <1>9, <2>2 DEF Granted, Connection
    <3> QED
      BY <1>1, <3>1
  <2> QED
    BY <2>1, <2>2
<1>12. /\ conn' \in [Task -> Connection] /\ conn'[c] = d
       /\ \A t \in Task : t # c => conn'[t] = conn[t]
  BY <1>10, <1>11, ConnChange
<1>13. PICK o \in Int : o = owed[s] - 1
  BY <1>1
<1>14. owed' = [owed EXCEPT ![s] = o]
  BY <1>13 DEF Granted
<1>15. /\ owed' \in [Semaphore -> Int] /\ owed'[s] = o
       /\ \A x \in Semaphore : x # s => owed'[x] = owed[x]
  BY <1>14, OwedChange
<1> QED
  BY <1>2, <1>5, <1>7, <1>8, <1>10, <1>12, <1>13, <1>15

\* A token more or fewer with task c changes the number of owned tokens by one.
LEMMA OwnedStep ==
    ASSUME TypeOK, NEW s \in Semaphore, NEW c \in Task, sem'[s].MAX_COUNT = sem[s].MAX_COUNT,
           \A t \in Task : Share(t, s) \in Nat /\ Share(t, s)' \in Nat,
           \A t \in Task : t # c => Share(t, s)' = Share(t, s)
    PROVE  /\ Share(c, s)' = Share(c, s) + 1 /\ Share(c, s) < sem[s].MAX_COUNT =>
                 Cardinality(Owned(s)') = Cardinality(Owned(s)) + 1
           /\ Share(c, s)' = Share(c, s) - 1 /\ Share(c, s) <= sem[s].MAX_COUNT =>
                 Cardinality(Owned(s)) = Cardinality(Owned(s)') + 1
           /\ Cardinality(Owned(s)') \in Nat /\ IsFiniteSet(Owned(s)')
<1>1. PICK m \in Nat : m = sem[s].MAX_COUNT
  BY Fields
<1>2. PICK f \in [Task -> Nat] : f = [t \in Task |-> Share(t, s)]
  OBVIOUS
<1>3. PICK g \in [Task -> Nat] : g = [t \in Task |-> Share(t, s)']
  OBVIOUS
<1>4. /\ \A t \in Task : f[t] = Share(t, s) /\ g[t] = Share(t, s)'
      /\ \A t \in Task : t # c => g[t] = f[t]
  BY <1>2, <1>3
<1>5. PICK A : A = Owned(s)
  OBVIOUS
<1>6. PICK B : B = Owned(s)'
  OBVIOUS
<1>7. TokensOf(A, f, m)
  <2>1. A = {p \in Task \X (1 .. m) : p[2] <= Share(p[1], s)}
    BY <1>1, <1>5 DEF Owned
  <2>2. \A p \in Task \X (1 .. m) : Share(p[1], s) = f[p[1]]
    BY <1>4
  <2> QED
    BY <2>1, <2>2 DEF TokensOf
<1>8. TokensOf(B, g, m)
  <2>1. B = {p \in Task \X (1 .. m) : p[2] <= Share(p[1], s)'}
    BY <1>1, <1>6 DEF Owned
  <2>2. \A p \in Task \X (1 .. m) : Share(p[1], s)' = g[p[1]]
    BY <1>4
  <2> QED
    BY <2>1, <2>2 DEF TokensOf
<1>9. IsFiniteSet(A) /\ IsFiniteSet(B)
  <2>2. IsFiniteSet(1 .. m)
    BY CountTo
  <2>3. IsFiniteSet(Task \X (1 .. m))
    BY <2>2, FS_Product, KernelAssumption
  <2>4. A \subseteq Task \X (1 .. m) /\ B \subseteq Task \X (1 .. m)
    BY <1>7, <1>8 DEF TokensOf
  <2> QED
    BY <2>3, <2>4, FS_Subset
<1>10. ASSUME g[c] = f[c] + 1, f[c] < m
       PROVE  Cardinality(B) = Cardinality(A) + 1
  BY <1>4, <1>7, <1>8, <1>9, <1>10, OwnedMore
<1>11. ASSUME g[c] = f[c] - 1, f[c] <= m
       PROVE  Cardinality(A) = Cardinality(B) + 1
  <2>1. g[c] \in Nat /\ f[c] \in Nat
    OBVIOUS
  <2>2. g[c] < m /\ f[c] = g[c] + 1
    BY <1>11, <2>1
  <2>3. \A t \in Task : t # c => f[t] = g[t]
    BY <1>4
  <2> QED
    BY <1>7, <1>8, <1>9, <2>2, <2>3, OwnedMore
<1>12. Cardinality(B) \in Nat
  BY <1>9, FS_CardinalityType
<1> QED
  BY <1>1, <1>4, <1>5, <1>6, <1>9, <1>10, <1>11, <1>12

\* What GrantedFields says of the tokens and of OWNING_TASKS.
GrantTo(c, s) ==
    /\ sem'[s].POLICY = sem[s].POLICY /\ sem'[s].MAX_COUNT = sem[s].MAX_COUNT
    /\ sem'[s].OWNING_TASKS = IF Strict(s) /\ conn[c].POST_STATE = 0
                              THEN Append(sem[s].OWNING_TASKS, c) ELSE sem[s].OWNING_TASKS
    /\ \A t \in Task : t # c => conn'[t] = conn[t]
    /\ conn'[c].SEM_PTR = s
    /\ conn'[c].POST_STATE = IF Strict(s) THEN conn[c].POST_STATE + 1
                             ELSE conn[c].POST_STATE

\* The owners stay exact, and a token of a strict semaphore goes to c.
LEMMA GrantOwners ==
    ASSUME Inv, NEW c \in Task, NEW s \in Semaphore, sem[s].VALID, conn[c].SEM_PTR = s,
           owed[s] > 0, GrantTo(c, s)
    PROVE  /\ NoDuplicates(sem'[s].OWNING_TASKS) /\ Elems(sem'[s].OWNING_TASKS) = Owners(s)'
           /\ Strict(s) => /\ Cardinality(Owned(s)') = Cardinality(Owned(s)) + 1
                           /\ conn'[c].POST_STATE <= sem[s].MAX_COUNT
           /\ \A t \in Task, x \in Semaphore : t # c \/ x # s => Share(t, x)' = Share(t, x)
<1>1. /\ TypeOK /\ ConnOK(c) /\ QueuesOK(s) /\ TokensOK(s)
      /\ conn[c].POST_STATE \in Nat /\ sem[s].MAX_COUNT \in Nat /\ owed[s] \in Int
      /\ sem[s].OWNING_TASKS \in Seq(Task)
  BY Fields DEF Inv
<1>2. /\ \A t \in Task, x \in Semaphore : Share(t, x) \in Nat
      /\ \A t \in Task, x \in Semaphore : t # c \/ x # s => Share(t, x)' = Share(t, x)
      /\ Share(c, s) = conn[c].POST_STATE
      /\ Share(c, s)' = IF Strict(s) THEN conn[c].POST_STATE + 1 ELSE conn[c].POST_STATE
  BY <1>1, Fields DEF Share, GrantTo
<1>3. conn[c].POST_STATE > 0 => Strict(s)
  BY <1>1 DEF ConnOK
<1>4. Cardinality(Owned(s)) \in Nat
  BY <1>1, TokenSets
<1>5. ASSUME Strict(s)
      PROVE  /\ Cardinality(Owned(s)') = Cardinality(Owned(s)) + 1
             /\ conn'[c].POST_STATE <= sem[s].MAX_COUNT
  <2>1. Cardinality(Owned(s)) < sem[s].MAX_COUNT
    BY <1>1, <1>4, <1>5 DEF TokensOK
  <2>2. conn[c].POST_STATE < sem[s].MAX_COUNT
    BY <1>1, <2>1, ShareBound
  <2>3. \A t \in Task : Share(t, s) \in Nat /\ Share(t, s)' \in Nat
    BY <1>1, <1>2
  <2>4. sem'[s].MAX_COUNT = sem[s].MAX_COUNT
    BY DEF GrantTo
  <2>5. Cardinality(Owned(s)') = Cardinality(Owned(s)) + 1
    BY <1>1, <1>2, <1>5, <2>2, <2>3, <2>4, OwnedStep
  <2>6. conn'[c].POST_STATE = conn[c].POST_STATE + 1
    BY <1>5 DEF GrantTo
  <2> QED
    BY <1>1, <2>2, <2>5, <2>6
<1>6. NoDuplicates(sem[s].OWNING_TASKS) /\ Elems(sem[s].OWNING_TASKS) = Owners(s)
  BY <1>1 DEF QueuesOK
<1>7. CASE Strict(s) /\ conn[c].POST_STATE = 0
  <2>1. sem'[s].OWNING_TASKS = Append(sem[s].OWNING_TASKS, c)
    BY <1>7 DEF GrantTo
  <2>2. c \notin Owners(s)
    BY <1>2, <1>7 DEF Owners
  <2>3. Owners(s)' = Owners(s) \cup {c}
    BY <1>2, <1>7 DEF Owners
  <2> QED
    BY <1>1, <1>2, <1>5, <1>6, <2>1, <2>2, <2>3, AppendElems
<1>8. CASE ~(Strict(s) /\ conn[c].POST_STATE = 0)
  <2>1. sem'[s].OWNING_TASKS = sem[s].OWNING_TASKS
    BY <1>8 DEF GrantTo
  <2>2. Share(c, s)' > 0 <=> Share(c, s) > 0
    BY <1>1, <1>2, <1>3, <1>8
  <2>3. Owners(s)' = Owners(s)
    BY <1>2, <2>2 DEF Owners
  <2> QED
    BY <1>2, <1>5, <1>6, <2>1, <2>3
<1> QED
  BY <1>7, <1>8

\* A wait that finds a token.
LEMMA TakeInv ==
    ASSUME Inv, sem_wait
    PROVE  Inv'
<1>1. PICK c \in Task : c = td
  BY Fields DEF Inv
<1>2. /\ TypeOK /\ c # Idle /\ call[c].at = "none" /\ ~call[c].close /\ conn[c].VALID
      /\ k' = k /\ NAME' = NAME /\ call' = call
  BY <1>1 DEF sem_wait, Free, At, Inv
<1>3. ConnOK(c) /\ CallOK(c) /\ BoostOK(c)
  BY DEF Inv
<1>4. PICK s \in Semaphore : s = conn[c].SEM_PTR
  BY <1>2, <1>3 DEF ConnOK
<1>5. /\ sem[s].VALID /\ sem[s].COUNT > 0 /\ sem[s] \in SemStruct /\ sem[s].COUNT \in Nat
      /\ sem[s].MAX_COUNT \in Nat /\ owed[s] \in Int
      /\ QueuesOK(s) /\ TokensOK(s) /\ SemOK(s)
  BY <1>1, <1>2, <1>4, Fields DEF sem_wait, TypeOK, Inv
<1>6. PICK n \in Nat : n = sem[s].COUNT - 1
  BY <1>5
<1>7. PICK r : r = [sem[s] EXCEPT !.COUNT = n]
  OBVIOUS
<1>8. /\ r \in SemStruct /\ r.block = sem[s].block /\ r.POLICY = sem[s].POLICY
      /\ r.COUNT = n /\ r.MAX_COUNT = sem[s].MAX_COUNT /\ r.VALID = sem[s].VALID
      /\ r.WAITING_TASKS = sem[s].WAITING_TASKS /\ r.OWNING_TASKS = sem[s].OWNING_TASKS
  BY <1>5, <1>7 DEF SemStruct
<1>9. PICK y : y = [sem EXCEPT ![s] = r]
  OBVIOUS
<1>10. Granted(s, y)
  BY <1>1, <1>4, <1>6, <1>7, <1>9 DEF sem_wait
<1>11. /\ sem' \in [Semaphore -> SemStruct]
       /\ \A x \in Semaphore : x # s => sem'[x] = sem[x] /\ owed'[x] = owed[x]
       /\ sem'[s].block = r.block /\ sem'[s].VALID = r.VALID
       /\ sem'[s].POLICY = r.POLICY /\ sem'[s].COUNT = r.COUNT
       /\ sem'[s].MAX_COUNT = r.MAX_COUNT /\ sem'[s].WAITING_TASKS = r.WAITING_TASKS
       /\ sem'[s].OWNING_TASKS = IF Strict(s) /\ conn[c].POST_STATE = 0
                                 THEN Append(r.OWNING_TASKS, c) ELSE r.OWNING_TASKS
       /\ conn' \in [Task -> Connection]
       /\ \A t \in Task : t # c => conn'[t] = conn[t]
       /\ conn'[c].VALID = conn[c].VALID /\ conn'[c].SEM_PTR = s
       /\ conn'[c].BOOSTED = conn[c].BOOSTED
       /\ conn'[c].POST_STATE = IF Strict(s) THEN conn[c].POST_STATE + 1
                                ELSE conn[c].POST_STATE
       /\ owed' \in [Semaphore -> Int] /\ owed'[s] = owed[s] - 1
  BY <1>1, <1>2, <1>4, <1>8, <1>9, <1>10, GrantedFields, ZenonT(30)
<1>12. GrantTo(c, s)
  BY <1>8, <1>11 DEF GrantTo
<1>13. Touched(c, s)
  BY <1>2, <1>3, <1>5, <1>8, <1>11 DEF Touched, CallOK
<1>14. Cardinality(InTransit(s)) \in Nat /\ Cardinality(Owned(s)) \in Nat
  BY <1>2, TokenSets
<1>15. owed[s] = sem[s].COUNT + Cardinality(InTransit(s)) /\ owed[s] > 0
  BY <1>5, <1>14 DEF TokensOK
<1>16. /\ NoDuplicates(sem'[s].OWNING_TASKS) /\ Elems(sem'[s].OWNING_TASKS) = Owners(s)'
       /\ Strict(s) => /\ Cardinality(Owned(s)') = Cardinality(Owned(s)) + 1
                       /\ conn'[c].POST_STATE <= sem[s].MAX_COUNT
       /\ \A t \in Task, x \in Semaphore : t # c \/ x # s => Share(t, x)' = Share(t, x)
  BY <1>4, <1>5, <1>12, <1>15, GrantOwners
<1>17. /\ \A x \in Semaphore : (Made(x)' <=> Made(x)) /\ sem'[x].block = sem[x].block
       /\ sem'[s].VALID
  BY <1>5, <1>8, <1>11, <1>13, TouchedMade
<1>18. \A t \in Task : t # c => ConnOK(t)' /\ CallOK(t)'
  BY <1>11, <1>13, <1>17, TouchedTask
<1>19. conn[c].POST_STATE \in Nat /\ (conn[c].POST_STATE > 0 => Strict(s))
  BY <1>2, <1>3, <1>4, Fields DEF ConnOK
<1>20. ConnOK(c)'
  BY <1>2, <1>3, <1>4, <1>8, <1>11, <1>16, <1>17, <1>19 DEF ConnOK, Strict
<1>21. CallOK(c)'
  BY <1>2, <1>3 DEF CallOK
<1>22. ASSUME NEW t \in Task
       PROVE  BoostOK(t)'
  <2>1. BoostOK(t) /\ (t # c => conn'[t] = conn[t])
    BY <1>11 DEF Inv
  <2>2. conn'[c].POST_STATE >= conn[c].POST_STATE /\ conn'[c].POST_STATE \in Nat
    BY <1>11, <1>19
  <2> QED
    BY <1>2, <1>11, <1>19, <2>1, <2>2 DEF BoostOK
<1>23. ASSUME NEW t \in Task
       PROVE  StateOK(t)'
  <2>1. StateOK(t) /\ CallOK(t)
    BY DEF Inv
  <2>2. k.TD_STATE[t] = "SEM_BLOCKED" => call[t].s # s /\ call[t].s \in Semaphore
    BY <1>5, <2>1 DEF StateOK, CallOK
  <2> QED
    BY <1>2, <1>11, <2>1, <2>2 DEF StateOK
<1>24. ASSUME NEW x \in Semaphore
       PROVE  QueuesOK(x)' /\ TokensOK(x)' /\ SemOK(x)'
  <2>1. CASE x = s
    <3>1. Waiters(s)' = Waiters(s) /\ InTransit(s)' = InTransit(s)
      BY <1>2 DEF Waiters, InTransit
    <3>2. QueuesOK(s)'
      BY <1>5, <1>8, <1>11, <1>16, <3>1 DEF QueuesOK
    <3>3. Strict(s)' = Strict(s)
      BY <1>8, <1>11 DEF Strict
    <3>4. TokensOK(s)'
      BY <1>5, <1>6, <1>8, <1>11, <1>14, <1>15, <1>16, <3>1, <3>3 DEF TokensOK
    <3>5. SemOK(s)'
      BY <1>2, <1>5, <1>8, <1>11, <1>17, <3>3 DEF SemOK
    <3> QED
      BY <2>1, <3>2, <3>4, <3>5
  <2>2. CASE x # s
    BY <1>2, <1>13, <1>16, <2>2, TouchedSem
  <2> QED
    BY <2>1, <2>2
<1>25. Core(k') /\ Settled(k')
  BY <1>1, <1>2, KernelKept
<1>26. TypeOK'
  BY <1>2, <1>11 DEF TypeOK
<1>27. call'[Idle] = NoCall /\ conn'[Idle] = NoConnection
  BY <1>2, <1>11, IdleKept
<1> QED
  BY <1>18, <1>20, <1>21, <1>22, <1>23, <1>24, <1>25, <1>26, <1>27, Parts

\* Unlinking a waiter keeps the queue of a semaphore with priority queueing sorted.
LEMMA UnlinkSorted ==
    ASSUME NEW q \in Seq(Task), NEW t, Sorted(q, InitPriority)
    PROVE  Sorted(Unlink(q, t), InitPriority)
BY KeepSorted DEF Unlink

\* A wait ends because the semaphore has gone.
LEMMA ReturnGoneInv ==
    ASSUME Inv, WaitReturn, ~sem[call[td].s].VALID
    PROVE  Inv'
<1>1. PICK c \in Task : c = td
  BY Fields DEF Inv
<1>2. /\ TypeOK /\ c # Idle /\ call[c].at = "wait" /\ k.TD_STATE[c] = "READY"
      /\ NAME' = NAME /\ k' = k /\ sem' = sem /\ conn' = conn /\ owed' = owed
  BY <1>1 DEF WaitReturn, At, Inv, Core, IsReady, td
<1>3. ConnOK(c) /\ CallOK(c) /\ BoostOK(c)
  BY DEF Inv
<1>4. PICK s \in Semaphore : s = call[c].s
  BY <1>2, <1>3 DEF CallOK
<1>5. ~sem[s].VALID /\ SemOK(s) /\ sem[s].VALID \in BOOLEAN
  BY <1>1, <1>4, Fields DEF Inv
<1>6. Goto("none", NULL, FALSE)
  BY DEF WaitReturn, Return
<1>7. /\ call' \in [Task -> Calls]
      /\ \A t \in Task : t # c => call'[t] = call[t]
      /\ call'[c].at = "none" /\ call'[c].s = NULL /\ call'[c].destroying = FALSE
      /\ call'[c].close = call[c].close
  BY <1>1, <1>2, <1>6, GotoFields DEF Places
<1>8. Touched(c, s)
  BY <1>2, <1>7 DEF Touched
<1>9. \A x \in Semaphore : Made(x)' <=> Made(x)
  BY <1>8, TouchedMade
<1>10. \A t \in Task, x \in Semaphore : Share(t, x)' = Share(t, x)
  BY <1>2 DEF Share
<1>11. \A t \in Task : Share(t, s) = 0
  <2>1. ASSUME NEW t \in Task
        PROVE  Share(t, s) = 0
    <3>1. ConnOK(t) /\ conn[t].POST_STATE \in Nat
      BY <1>2, Fields DEF Inv
    <3> QED
      BY <1>5, <3>1 DEF ConnOK, Share
  <2> QED
    BY <2>1
<1>12. \A t \in Task : t # c => ConnOK(t)' /\ CallOK(t)'
  <2>1. sem'[s].VALID = FALSE
    BY <1>2, <1>5
  <2> QED
    BY <1>2, <1>8, <1>11, <2>1, TouchedTask
<1>13. ConnOK(c)'
  BY <1>2, <1>3, <1>9 DEF ConnOK, Strict
<1>14. CallOK(c)'
  BY <1>2, <1>3, <1>7 DEF CallOK
<1>15. ASSUME NEW t \in Task
       PROVE  BoostOK(t)' /\ StateOK(t)'
  <2>1. BoostOK(t) /\ StateOK(t) /\ (t # c => call'[t] = call[t])
    BY <1>7 DEF Inv
  <2>2. BoostOK(t)'
    BY <1>2, <1>7, <2>1 DEF BoostOK
  <2>3. StateOK(t)'
    BY <1>2, <1>7, <2>1 DEF StateOK
  <2> QED
    BY <2>2, <2>3
<1>16. ASSUME NEW x \in Semaphore
       PROVE  QueuesOK(x)' /\ TokensOK(x)' /\ SemOK(x)'
  <2>1. CASE x = s
    <3>1. InTransit(s)' \subseteq InTransit(s)
      BY <1>2, <1>7 DEF InTransit
    <3>2. QueuesOK(s)' /\ TokensOK(s)'
      BY <1>2, <1>5 DEF QueuesOK, TokensOK
    <3>3. SemOK(s)'
      BY <1>2, <1>5, <1>9, <3>1 DEF SemOK, Strict
    <3> QED
      BY <2>1, <3>2, <3>3
  <2>2. CASE x # s
    <3>1. \A t \in Task : (call'[t].at = "wait" /\ call'[t].s = x) <=>
                          (call[t].at = "wait" /\ call[t].s = x)
      BY <1>4, <1>7, <2>2
    <3> QED
      BY <1>2, <1>8, <1>10, <2>2, <3>1, TouchedSem
  <2> QED
    BY <2>1, <2>2
<1>17. Core(k') /\ Settled(k')
  BY <1>1, <1>2, KernelKept
<1>18. TypeOK'
  BY <1>2, <1>7 DEF TypeOK
<1>19. call'[Idle] = NoCall /\ conn'[Idle] = NoConnection
  BY <1>2, <1>7, IdleKept
<1> QED
  BY <1>12, <1>13, <1>14, <1>15, <1>16, <1>17, <1>18, <1>19, Parts

\* A wait ends with the token that a post has handed over.
LEMMA ReturnGrantedInv ==
    ASSUME Inv, WaitReturn, sem[call[td].s].VALID, k.INFO[td] = "SEM_AVAILABLE"
    PROVE  Inv'
<1>1. PICK c \in Task : c = td
  BY Fields DEF Inv
<1>2. /\ TypeOK /\ c # Idle /\ call[c].at = "wait" /\ k.TD_STATE[c] = "READY"
      /\ NAME' = NAME /\ k' = k /\ k.INFO[c] = "SEM_AVAILABLE"
  BY <1>1 DEF WaitReturn, At, Inv, Core, IsReady, td
<1>3. ConnOK(c) /\ CallOK(c) /\ BoostOK(c)
  BY DEF Inv
<1>4. PICK s \in Semaphore : s = call[c].s
  BY <1>2, <1>3 DEF CallOK
<1>5. /\ sem[s].VALID /\ sem[s] \in SemStruct /\ sem[s].COUNT \in Nat
      /\ sem[s].MAX_COUNT \in Nat /\ owed[s] \in Int /\ sem[s].WAITING_TASKS \in Seq(Task)
      /\ QueuesOK(s) /\ TokensOK(s) /\ SemOK(s)
      /\ conn[c].SEM_PTR = s /\ conn[c].VALID /\ conn[c].POST_STATE = 0
  BY <1>1, <1>2, <1>3, <1>4, Fields DEF TypeOK, Inv, CallOK
<1>6. PICK q \in Seq(Task) : q = Unlink(sem[s].WAITING_TASKS, c)
  BY <1>5, UnlinkElems
<1>7. PICK r : r = [sem[s] EXCEPT !.WAITING_TASKS = q]
  OBVIOUS
<1>8. /\ r \in SemStruct /\ r.block = sem[s].block /\ r.POLICY = sem[s].POLICY
      /\ r.COUNT = sem[s].COUNT /\ r.MAX_COUNT = sem[s].MAX_COUNT /\ r.VALID = sem[s].VALID
      /\ r.WAITING_TASKS = q /\ r.OWNING_TASKS = sem[s].OWNING_TASKS
  BY <1>5, <1>7 DEF SemStruct
<1>9. PICK y : y = [sem EXCEPT ![s] = r]
  OBVIOUS
<1>10. Granted(s, y)
  BY <1>1, <1>2, <1>4, <1>5, <1>6, <1>7, <1>9 DEF WaitReturn
<1>11. /\ sem' \in [Semaphore -> SemStruct]
       /\ \A x \in Semaphore : x # s => sem'[x] = sem[x] /\ owed'[x] = owed[x]
       /\ sem'[s].block = r.block /\ sem'[s].VALID = r.VALID
       /\ sem'[s].POLICY = r.POLICY /\ sem'[s].COUNT = r.COUNT
       /\ sem'[s].MAX_COUNT = r.MAX_COUNT /\ sem'[s].WAITING_TASKS = r.WAITING_TASKS
       /\ sem'[s].OWNING_TASKS = IF Strict(s) /\ conn[c].POST_STATE = 0
                                 THEN Append(r.OWNING_TASKS, c) ELSE r.OWNING_TASKS
       /\ conn' \in [Task -> Connection]
       /\ \A t \in Task : t # c => conn'[t] = conn[t]
       /\ conn'[c].VALID = conn[c].VALID /\ conn'[c].SEM_PTR = s
       /\ conn'[c].BOOSTED = conn[c].BOOSTED
       /\ conn'[c].POST_STATE = IF Strict(s) THEN conn[c].POST_STATE + 1
                                ELSE conn[c].POST_STATE
       /\ owed' \in [Semaphore -> Int] /\ owed'[s] = owed[s] - 1
  <2>1. TypeOK /\ conn[c].SEM_PTR = s /\ r \in SemStruct
    BY <1>2, <1>5, <1>8
  <2> QED
    BY <1>1, <1>9, <1>10, <2>1, GrantedFields, ZenonT(30)
<1>12. GrantTo(c, s)
  BY <1>8, <1>11 DEF GrantTo
<1>13. Goto("none", NULL, FALSE)
  BY DEF WaitReturn, Return
<1>14. /\ call' \in [Task -> Calls]
       /\ \A t \in Task : t # c => call'[t] = call[t]
       /\ call'[c].at = "none" /\ call'[c].s = NULL /\ call'[c].destroying = FALSE
       /\ call'[c].close = call[c].close
  BY <1>1, <1>2, <1>13, GotoFields DEF Places
<1>15. Touched(c, s)
  BY <1>2, <1>5, <1>8, <1>11, <1>14 DEF Touched
<1>16. /\ IsFiniteSet(InTransit(s)) /\ Cardinality(InTransit(s)) \in Nat
       /\ Cardinality(Owned(s)) \in Nat
  BY <1>2, TokenSets
<1>17. c \in InTransit(s) /\ InTransit(s)' = InTransit(s) \ {c}
  BY <1>2, <1>4, <1>14 DEF InTransit
<1>18. /\ Cardinality(InTransit(s)') = Cardinality(InTransit(s)) - 1
       /\ Cardinality(InTransit(s)') \in Nat
  BY <1>16, <1>17, FS_RemoveElement, FS_CardinalityType
<1>19. owed[s] = sem[s].COUNT + Cardinality(InTransit(s)) /\ owed[s] > 0
  BY <1>5, <1>16, <1>18 DEF TokensOK
<1>20. /\ NoDuplicates(sem'[s].OWNING_TASKS) /\ Elems(sem'[s].OWNING_TASKS) = Owners(s)'
       /\ Strict(s) => /\ Cardinality(Owned(s)') = Cardinality(Owned(s)) + 1
                       /\ conn'[c].POST_STATE <= sem[s].MAX_COUNT
       /\ \A t \in Task, x \in Semaphore : t # c \/ x # s => Share(t, x)' = Share(t, x)
  BY <1>5, <1>12, <1>19, GrantOwners
<1>21. /\ \A x \in Semaphore : (Made(x)' <=> Made(x)) /\ sem'[x].block = sem[x].block
       /\ sem'[s].VALID
  BY <1>5, <1>8, <1>11, <1>15, TouchedMade
<1>22. \A t \in Task : t # c => ConnOK(t)' /\ CallOK(t)'
  BY <1>11, <1>15, <1>21, TouchedTask
<1>23. ConnOK(c)'
  BY <1>2, <1>3, <1>5, <1>8, <1>11, <1>20, <1>21 DEF ConnOK, Strict
<1>24. CallOK(c)'
  BY <1>2, <1>3, <1>14 DEF CallOK
<1>25. conn[c].BOOSTED \in Nat /\ conn[c].BOOSTED = 0
  BY <1>2, <1>3, <1>5, Fields DEF BoostOK
<1>26. ASSUME NEW t \in Task
       PROVE  BoostOK(t)' /\ StateOK(t)'
  <2>1. BoostOK(t) /\ StateOK(t) /\ CallOK(t)
    BY DEF Inv
  <2>2. t # c => conn'[t] = conn[t] /\ call'[t] = call[t]
    BY <1>11, <1>14
  <2>3. BoostOK(t)'
    BY <1>2, <1>11, <1>14, <1>25, <2>1, <2>2 DEF BoostOK
  <2>4. \A x \in Semaphore : sem[x].VALID = sem'[x].VALID /\ sem'[x].COUNT = sem[x].COUNT
    BY <1>8, <1>11, SMTT(30)
  <2>5. StateOK(t)'
    BY <1>2, <1>14, <2>1, <2>2, <2>4 DEF StateOK, CallOK
  <2> QED
    BY <2>3, <2>5
<1>27. ASSUME NEW x \in Semaphore
       PROVE  QueuesOK(x)' /\ TokensOK(x)' /\ SemOK(x)'
  <2>1. CASE x = s
    <3>1. Waiters(s)' = Waiters(s) \ {c}
      BY <1>14 DEF Waiters
    <3>2. Elems(q) = Elems(sem[s].WAITING_TASKS) \ {c} /\ NoDuplicates(q)
      BY <1>5, <1>6, UnlinkElems DEF QueuesOK
    <3>3. QueuesOK(s)'
      BY <1>5, <1>8, <1>11, <1>20, <3>1, <3>2 DEF QueuesOK
    <3>4. Strict(s)' = Strict(s)
      BY <1>8, <1>11 DEF Strict
    <3>5. TokensOK(s)'
      <4>1. owed'[s] = sem'[s].COUNT + Cardinality(InTransit(s)')
        BY <1>5, <1>8, <1>11, <1>16, <1>18, <1>19
      <4>2. Strict(s) => owed'[s] + Cardinality(Owned(s)') = sem'[s].MAX_COUNT
        <5>1. Strict(s) => owed[s] + Cardinality(Owned(s)) = sem[s].MAX_COUNT
          BY <1>5 DEF TokensOK
        <5>2. /\ owed'[s] = owed[s] - 1 /\ sem'[s].MAX_COUNT = sem[s].MAX_COUNT
              /\ owed[s] \in Int /\ Cardinality(Owned(s)) \in Nat
          BY <1>5, <1>8, <1>11, <1>16
        <5> QED
          BY <1>20, <5>1, <5>2, SMTT(30)
      <4> QED
        BY <3>4, <4>1, <4>2 DEF TokensOK
    <3>6. "PRIORITY_QUEUEING" \in sem[s].POLICY => Sorted(q, InitPriority)
      BY <1>5, <1>6, UnlinkSorted DEF SemOK
    <3>7. SemOK(s)'
      BY <1>2, <1>5, <1>8, <1>11, <1>21, <3>4, <3>6 DEF SemOK
    <3> QED
      BY <2>1, <3>3, <3>5, <3>7
  <2>2. CASE x # s
    <3>1. \A t \in Task : (call'[t].at = "wait" /\ call'[t].s = x) <=>
                          (call[t].at = "wait" /\ call[t].s = x)
      BY <1>4, <1>14, <2>2
    <3> QED
      BY <1>2, <1>15, <1>20, <2>2, <3>1, TouchedSem
  <2> QED
    BY <2>1, <2>2
<1>28. Core(k') /\ Settled(k')
  BY <1>1, <1>2, KernelKept
<1>29. TypeOK'
  BY <1>2, <1>11, <1>14 DEF TypeOK
<1>30. call'[Idle] = NoCall /\ conn'[Idle] = NoConnection
  BY <1>2, <1>11, <1>14, IdleKept
<1> QED
  BY <1>22, <1>23, <1>24, <1>26, <1>27, <1>28, <1>29, <1>30, Parts

\* A wait ends without a token: its time is over, or a forced destroy has woken it.
LEMMA ReturnTimedOutInv ==
    ASSUME Inv, WaitReturn, sem[call[td].s].VALID, k.INFO[td] # "SEM_AVAILABLE"
    PROVE  Inv'
<1>1. PICK c \in Task : c = td
  BY Fields DEF Inv
<1>2. /\ TypeOK /\ c # Idle /\ call[c].at = "wait" /\ k.TD_STATE[c] = "READY"
      /\ NAME' = NAME /\ conn' = conn /\ owed' = owed /\ k.INFO[c] # "SEM_AVAILABLE"
      /\ k' = [k EXCEPT !.INFO[c] = NULL] /\ Core(k) /\ Settled(k)
  BY <1>1 DEF WaitReturn, At, Inv, Core, IsReady, td
<1>3. ConnOK(c) /\ CallOK(c) /\ BoostOK(c)
  BY DEF Inv
<1>4. PICK s \in Semaphore : s = call[c].s
  BY <1>2, <1>3 DEF CallOK
<1>5. /\ sem[s].VALID /\ sem[s] \in SemStruct /\ sem[s].WAITING_TASKS \in Seq(Task)
      /\ QueuesOK(s) /\ TokensOK(s) /\ SemOK(s)
  BY <1>1, <1>2, <1>4, Fields DEF TypeOK, Inv
<1>6. PICK q \in Seq(Task) : q = Unlink(sem[s].WAITING_TASKS, c)
  BY <1>5, UnlinkElems
<1>7. PICK r : r = [sem[s] EXCEPT !.WAITING_TASKS = q]
  OBVIOUS
<1>8. /\ r \in SemStruct /\ r.block = sem[s].block /\ r.POLICY = sem[s].POLICY
      /\ r.COUNT = sem[s].COUNT /\ r.MAX_COUNT = sem[s].MAX_COUNT /\ r.VALID = sem[s].VALID
      /\ r.WAITING_TASKS = q /\ r.OWNING_TASKS = sem[s].OWNING_TASKS
  BY <1>5, <1>7 DEF SemStruct
<1>9. sem' = [sem EXCEPT ![s] = r]
  BY <1>1, <1>2, <1>4, <1>5, <1>6, <1>7 DEF WaitReturn
<1>10. /\ sem' \in [Semaphore -> SemStruct] /\ sem'[s] = r
       /\ \A x \in Semaphore : x # s => sem'[x] = sem[x]
  BY <1>2, <1>8, <1>9, SemChange
<1>11. Goto("none", NULL, FALSE)
  BY DEF WaitReturn, Return
<1>12. /\ call' \in [Task -> Calls]
       /\ \A t \in Task : t # c => call'[t] = call[t]
       /\ call'[c].at = "none" /\ call'[c].s = NULL /\ call'[c].destroying = FALSE
       /\ call'[c].close = call[c].close
  BY <1>1, <1>2, <1>11, GotoFields DEF Places
<1>13. Touched(c, s)
  BY <1>2, <1>5, <1>8, <1>10, <1>12 DEF Touched
<1>14. /\ Core(k') /\ k'.ACTIVE_PTR = k.ACTIVE_PTR /\ k'.TD_STATE = k.TD_STATE
       /\ k'.INFO = [k.INFO EXCEPT ![c] = NULL] /\ k'.MY_QUEUE = k.MY_QUEUE
       /\ k'.BOOSTED = k.BOOSTED /\ k'.CURRENT_READY_Q = k.CURRENT_READY_Q
  <2>1. NULL \in Info
    BY DEF Info
  <2> QED
    BY <1>2, <2>1, InfoCore
<1>15. Settled(k')
  BY <1>2, <1>14 DEF Settled
<1>16. k'.INFO[c] = NULL /\ \A t \in Task : t # c => k'.INFO[t] = k.INFO[t]
  <2>1. k.INFO \in [Task -> Info]
    BY <1>2, KernelFields DEF TypeOK
  <2> QED
    BY <1>14, <2>1
<1>17. \A t \in Task, x \in Semaphore : Share(t, x)' = Share(t, x)
  BY <1>2 DEF Share
<1>18. /\ \A x \in Semaphore : (Made(x)' <=> Made(x)) /\ sem'[x].block = sem[x].block
       /\ sem'[s].VALID
  BY <1>5, <1>8, <1>10, <1>13, TouchedMade
<1>19. \A t \in Task : t # c => ConnOK(t)' /\ CallOK(t)'
  BY <1>2, <1>13, <1>18, TouchedTask
<1>20. \A x \in Semaphore : /\ sem'[x].VALID = sem[x].VALID /\ sem'[x].COUNT = sem[x].COUNT
                            /\ sem'[x].POLICY = sem[x].POLICY
                            /\ sem'[x].MAX_COUNT = sem[x].MAX_COUNT
  BY <1>8, <1>10
<1>21. ConnOK(c)'
  <2>1. conn[c].SEM_PTR = s
    BY <1>2, <1>3, <1>4 DEF CallOK
  <2> QED
    BY <1>2, <1>3, <1>18, <1>20, <2>1 DEF ConnOK, Strict
<1>22. CallOK(c)'
  BY <1>2, <1>3, <1>12 DEF CallOK
<1>23. ASSUME NEW t \in Task
       PROVE  BoostOK(t)' /\ StateOK(t)'
  <2>1. BoostOK(t) /\ StateOK(t) /\ CallOK(t)
    BY DEF Inv
  <2>2. t # c => call'[t] = call[t]
    BY <1>12
  <2>3. BoostOK(t)'
    BY <1>2, <1>12, <1>14, <2>1, <2>2 DEF BoostOK
  <2>4. StateOK(t)'
    BY <1>2, <1>12, <1>14, <1>16, <1>20, <2>1, <2>2 DEF StateOK, CallOK
  <2> QED
    BY <2>3, <2>4
<1>24. ASSUME NEW x \in Semaphore
       PROVE  QueuesOK(x)' /\ TokensOK(x)' /\ SemOK(x)'
  <2>1. CASE x = s
    <3>1. Waiters(s)' = Waiters(s) \ {c}
      BY <1>12 DEF Waiters
    <3>2. Elems(q) = Elems(sem[s].WAITING_TASKS) \ {c} /\ NoDuplicates(q)
      BY <1>5, <1>6, UnlinkElems DEF QueuesOK
    <3>3. Owners(s)' = Owners(s)
      BY <1>17 DEF Owners
    <3>4. QueuesOK(s)'
      BY <1>5, <1>8, <1>10, <3>1, <3>2, <3>3 DEF QueuesOK
    <3>5. InTransit(s)' = InTransit(s)
      BY <1>2, <1>12, <1>14, <1>16 DEF InTransit
    <3>6. TokensOK(s)'
      BY <1>2, <1>5, <1>17, <1>20, <3>5, TokensKept
    <3>7. "PRIORITY_QUEUEING" \in sem[s].POLICY => Sorted(q, InitPriority)
      BY <1>5, <1>6, UnlinkSorted DEF SemOK
    <3>8. SemOK(s)'
      BY <1>2, <1>5, <1>8, <1>10, <1>18, <3>7 DEF SemOK, Strict
    <3> QED
      BY <2>1, <3>4, <3>6, <3>8
  <2>2. CASE x # s
    <3>1. \A t \in Task : (call'[t].at = "wait" /\ call'[t].s = x) <=>
                          (call[t].at = "wait" /\ call[t].s = x)
      BY <1>4, <1>12, <2>2
    <3>2. \A t \in Task : call[t].at = "wait" /\ call[t].s = x =>
                             /\ k'.TD_STATE[t] = k.TD_STATE[t] /\ k'.INFO[t] = k.INFO[t]
      BY <1>4, <1>14, <1>16, <2>2
    <3> QED
      BY <1>13, <1>17, <2>2, <3>1, <3>2, TouchedSem
  <2> QED
    BY <2>1, <2>2
<1>25. TypeOK'
  BY <1>2, <1>10, <1>12, <1>14 DEF TypeOK, Core, KInv
<1>26. call'[Idle] = NoCall /\ conn'[Idle] = NoConnection
  BY <1>2, <1>12, IdleKept
<1> QED
  BY <1>14, <1>15, <1>19, <1>21, <1>22, <1>23, <1>24, <1>25, <1>26, Parts

(***************************************************************************)
(* _sem_destroy.                                                            *)
(***************************************************************************)
\* If all the tokens of a strict semaphore are back, nobody has any.
LEMMA NobodyOwns ==
    ASSUME Inv, NEW s \in Semaphore, sem[s].VALID, Strict(s) => owed[s] >= sem[s].MAX_COUNT
    PROVE  \A t \in Task : Share(t, s) = 0
<1> SUFFICES ASSUME NEW t \in Task
             PROVE  Share(t, s) = 0
  OBVIOUS
<1>1. /\ TypeOK /\ ConnOK(t) /\ TokensOK(s) /\ SemOK(s) /\ conn[t].POST_STATE \in Nat
      /\ sem[s].MAX_COUNT \in Nat /\ owed[s] \in Int
  BY Fields DEF Inv
<1>2. IsFiniteSet(Owned(s)) /\ Cardinality(Owned(s)) \in Nat
  BY <1>1, TokenSets
<1>3. Share(t, s) \in Nat
  BY <1>1 DEF Share
<1>4. SUFFICES ASSUME Share(t, s) > 0
               PROVE  FALSE
  BY <1>3
<1>5. Strict(s)
  BY <1>1, <1>4 DEF Share, ConnOK
<1>6. Cardinality(Owned(s)) = 0
  BY <1>1, <1>2, <1>5 DEF TokensOK
<1>7. Owned(s) = {}
  BY <1>2, <1>6, FS_EmptySet
<1>8. <<t, 1>> \in Owned(s)
  <2>1. 1 \in 1 .. sem[s].MAX_COUNT
    <3>1. PICK m \in Nat : m = sem[s].MAX_COUNT
      BY <1>1
    <3>2. m > 0
      BY <1>1, <1>5, <3>1 DEF SemOK
    <3>3. 1 \in 1 .. m
      BY <3>2
    <3> QED
      BY <3>1, <3>3
  <2>2. 1 <= Share(t, s)
    BY <1>3, <1>4
  <2> QED
    BY <2>1, <2>2 DEF Owned
<1> QED
  BY <1>7, <1>8

\* A forced destroy wakes a blocked waiter, without a token, or nobody.
LEMMA ForceFields ==
    ASSUME Inv, NEW s \in Semaphore, sem[s].VALID
    PROVE  LET v == ForceReady(s)
           IN  /\ Core(v) /\ v.ACTIVE_PTR = k.ACTIVE_PTR /\ v.INFO = k.INFO
               /\ v.MY_QUEUE = k.MY_QUEUE /\ v.BOOSTED = k.BOOSTED
               /\ \A t \in Task :
                     \/ v.TD_STATE[t] = k.TD_STATE[t]
                     \/ /\ t \in Waiters(s) /\ k.TD_STATE[t] = "SEM_BLOCKED"
                        /\ v.TD_STATE[t] = "READY"
<1> DEFINE q == sem[s].WAITING_TASKS
           v == ForceReady(s)
<1>1. /\ TypeOK /\ Core(k) /\ q \in Seq(Task) /\ QueuesOK(s)
      /\ k.TD_STATE \in [Task -> State]
  BY Fields, KernelFields DEF Inv, TypeOK
<1>2. CASE q # <<>> /\ k.TD_STATE[Head(q)] = "SEM_BLOCKED"
  <2>1. PICK w \in Task : w = Head(q) /\ w \in Elems(q)
    BY <1>1, <1>2, EmptyQueue
  <2>2. w \in Waiters(s) /\ k.TD_STATE[w] = "SEM_BLOCKED"
    BY <1>1, <1>2, <2>1 DEF QueuesOK
  <2>3. v = WakeUp(k, w)
    BY <1>2, <2>1 DEF ForceReady, WakeUp
  <2>4. /\ Core(v) /\ v.ACTIVE_PTR = k.ACTIVE_PTR
        /\ v.TD_STATE = [k.TD_STATE EXCEPT ![w] = "READY"] /\ v.INFO = k.INFO
        /\ v.MY_QUEUE = k.MY_QUEUE /\ v.BOOSTED = k.BOOSTED
    BY <1>1, <2>2, <2>3, WakeUpCore
  <2> HIDE DEF v
  <2>5. \A t \in Task : t # w => v.TD_STATE[t] = k.TD_STATE[t]
    BY <1>1, <2>4
  <2>6. v.TD_STATE[w] = "READY"
    BY <1>1, <2>4
  <2> QED
    BY <2>2, <2>4, <2>5, <2>6 DEF v
<1>3. CASE ~(q # <<>> /\ k.TD_STATE[Head(q)] = "SEM_BLOCKED")
  <2>1. v = k
    BY <1>3 DEF ForceReady
  <2> HIDE DEF v
  <2> QED
    BY <1>1, <2>1 DEF v
<1> QED
  BY <1>2, <1>3

\* _sem_destroy of a semaphore that somebody else has destroyed.
LEMMA DestroyGoneInv ==
    ASSUME Inv, NEW force_destroy \in BOOLEAN, sem_destroy(force_destroy),
           ~sem[call[td].s].VALID
    PROVE  Inv'
<1>1. PICK c \in Task : c = td
  BY Fields DEF Inv
<1>2. /\ TypeOK /\ c # Idle /\ call[c].at = "destroy"
      /\ k' = k /\ sem' = sem /\ NAME' = NAME /\ conn' = conn /\ owed' = owed
  BY <1>1 DEF sem_destroy, At, Inv
<1>3. Goto("none", NULL, FALSE)
  BY DEF sem_destroy, Return
<1>4. /\ call' \in [Task -> Calls]
      /\ \A t \in Task : t # c => call'[t] = call[t]
      /\ call'[c].at = "none" /\ call'[c].s = NULL /\ call'[c].destroying = FALSE
      /\ call'[c].close = call[c].close
  BY <1>1, <1>2, <1>3, GotoFields DEF Places
<1>5. ConnOK(c) /\ CallOK(c) /\ BoostOK(c)
  BY DEF Inv
<1>6. Quiet(c)
  BY <1>2, <1>4 DEF Quiet
<1>7. /\ \A x \in Semaphore : QueuesOK(x)' /\ TokensOK(x)' /\ SemOK(x)'
      /\ \A x \in Semaphore : Made(x)' <=> Made(x)
      /\ \A t \in Task : StateOK(t)'
      /\ \A t \in Task : t # c => ConnOK(t)' /\ CallOK(t)' /\ BoostOK(t)'
  <2>1. \A x \in Semaphore : Share(c, x)' = Share(c, x)
    BY <1>2 DEF Share
  <2> QED
    BY <1>2, <1>4, <1>6, <2>1, QuietStep
<1>8. ConnOK(c)'
  BY <1>2, <1>5, <1>7 DEF ConnOK, Strict
<1>9. CallOK(c)'
  BY <1>2, <1>4, <1>5 DEF CallOK
<1>10. BoostOK(c)'
  BY <1>2, <1>4, <1>5 DEF BoostOK
<1>11. Core(k') /\ Settled(k')
  BY <1>1, <1>2, KernelKept
<1>12. call'[Idle] = NoCall /\ conn'[Idle] = NoConnection
  BY <1>2, <1>4, IdleKept
<1>13. TypeOK'
  BY <1>2, <1>4 DEF TypeOK
<1> QED
  BY <1>7, <1>8, <1>9, <1>10, <1>11, <1>12, <1>13, Parts

\* _sem_destroy, at once or later.
LEMMA DestroyInv ==
    ASSUME Inv, NEW force_destroy \in BOOLEAN, sem_destroy(force_destroy),
           sem[call[td].s].VALID
    PROVE  Inv'
<1>1. PICK c \in Task : c = td
  BY Fields DEF Inv
<1>2. /\ TypeOK /\ c # Idle /\ call[c].at = "destroy" /\ k.TD_STATE[c] = "READY"
      /\ NAME' = NAME /\ conn' = conn /\ owed' = owed /\ c = k.ACTIVE_PTR /\ Core(k)
  BY <1>1 DEF sem_destroy, At, Inv, Core, IsReady, td
<1>3. ConnOK(c) /\ CallOK(c) /\ BoostOK(c)
  BY DEF Inv
<1>4. PICK s \in Semaphore : s = call[c].s
  BY <1>2, <1>3 DEF CallOK
<1>5. /\ sem[s].VALID /\ sem[s] \in SemStruct /\ sem[s].WAITING_TASKS \in Seq(Task)
      /\ QueuesOK(s) /\ TokensOK(s) /\ SemOK(s) /\ sem[s].COUNT \in Nat
      /\ sem[s].MAX_COUNT \in Nat /\ owed[s] \in Int
  BY <1>1, <1>2, <1>4, Fields DEF TypeOK, Inv
<1>6. PICK gone \in BOOLEAN :
         gone = (/\ sem[s].WAITING_TASKS = <<>>
                 /\ Strict(s) => sem[s].COUNT = sem[s].MAX_COUNT)
  OBVIOUS
<1>7. PICK r : r = IF gone THEN [sem[s] EXCEPT !.VALID = FALSE]
                   ELSE [sem[s] EXCEPT !.DELAYED_DESTROY = TRUE]
  OBVIOUS
<1>8. /\ r \in SemStruct /\ r.block = sem[s].block /\ r.POLICY = sem[s].POLICY
      /\ r.COUNT = sem[s].COUNT /\ r.MAX_COUNT = sem[s].MAX_COUNT
      /\ r.VALID = ~gone
      /\ r.WAITING_TASKS = sem[s].WAITING_TASKS /\ r.OWNING_TASKS = sem[s].OWNING_TASKS
  <2>1. CASE gone
    BY <1>5, <1>7, <2>1 DEF SemStruct
  <2>2. CASE ~gone
    BY <1>5, <1>7, <2>2 DEF SemStruct
  <2> QED
    BY <2>1, <2>2
<1>9. sem' = [sem EXCEPT ![s] = r]
  <2>1. CASE gone
    <3>1. sem' = [sem EXCEPT ![s].VALID = FALSE]
      BY <1>1, <1>4, <1>5, <1>6, <2>1 DEF sem_destroy
    <3> QED
      BY <1>7, <2>1, <3>1
  <2>2. CASE ~gone
    <3>1. sem' = [sem EXCEPT ![s].DELAYED_DESTROY = TRUE]
      BY <1>1, <1>4, <1>5, <1>6, <2>2 DEF sem_destroy
    <3> QED
      BY <1>7, <2>2, <3>1
  <2> QED
    BY <2>1, <2>2
<1>10. /\ sem' \in [Semaphore -> SemStruct] /\ sem'[s] = r
       /\ \A x \in Semaphore : x # s => sem'[x] = sem[x]
  BY <1>2, <1>8, <1>9, SemChange
<1>11. Goto("scheduler", s, gone)
  BY <1>1, <1>4, <1>5, <1>6 DEF sem_destroy
<1>12. /\ call' \in [Task -> Calls]
       /\ \A t \in Task : t # c => call'[t] = call[t]
       /\ call'[c].at = "scheduler" /\ call'[c].s = s /\ call'[c].destroying = gone
       /\ call'[c].close = call[c].close
  BY <1>1, <1>2, <1>11, GotoFields DEF Places
<1>13. Touched(c, s)
  BY <1>2, <1>5, <1>8, <1>10, <1>12 DEF Touched
<1>14. /\ Core(k') /\ k'.ACTIVE_PTR = k.ACTIVE_PTR /\ k'.INFO = k.INFO
       /\ k'.MY_QUEUE = k.MY_QUEUE /\ k'.BOOSTED = k.BOOSTED
       /\ \A t \in Task :
             \/ k'.TD_STATE[t] = k.TD_STATE[t]
             \/ /\ t \in Waiters(s) /\ k.TD_STATE[t] = "SEM_BLOCKED"
                /\ k'.TD_STATE[t] = "READY"
  <2>1. k' = ForceReady(s) \/ k' = k
    BY <1>1, <1>4, <1>5 DEF sem_destroy
  <2> QED
    BY <1>2, <1>5, <2>1, ForceFields
<1>15. \A t \in Task, x \in Semaphore : Share(t, x)' = Share(t, x)
  BY <1>2 DEF Share
<1>16. \A x \in Semaphore : (Made(x)' <=> Made(x)) /\ sem'[x].block = sem[x].block
  BY <1>13, TouchedMade
<1>17. ASSUME gone
       PROVE  Waiters(s) = {} /\ InTransit(s) = {} /\ \A t \in Task : Share(t, s) = 0
  <2>1. Waiters(s) = {}
    BY <1>5, <1>6, <1>17, EmptyQueue DEF QueuesOK
  <2>2. InTransit(s) = {}
    BY <2>1 DEF Waiters, InTransit
  <2>3. owed[s] = sem[s].COUNT
    BY <1>5, <2>2, FS_EmptySet DEF TokensOK
  <2>4. Strict(s) => owed[s] >= sem[s].MAX_COUNT
    <3>1. Strict(s) => sem[s].COUNT = sem[s].MAX_COUNT
      BY <1>6, <1>17, Zenon
    <3> QED
      BY <1>5, <2>3, <3>1
  <2> QED
    BY <1>5, <2>1, <2>2, <2>4, NobodyOwns
<1>18. ASSUME NEW t \in Task, t # c
       PROVE  ConnOK(t)' /\ CallOK(t)'
  <2>1. sem'[s].VALID \/ (Share(t, s) = 0 /\ sem'[s].VALID = FALSE)
    BY <1>8, <1>10, <1>17
  <2> QED
    BY <1>2, <1>13, <1>18, <2>1, TouchedTask
<1>19. ConnOK(c)'
  <2>1. conn[c].POST_STATE > 0 => conn[c].SEM_PTR # s \/ ~gone
    BY <1>17 DEF Share
  <2>2. /\ \A x \in Semaphore : /\ sem'[x].POLICY = sem[x].POLICY
                                /\ sem'[x].MAX_COUNT = sem[x].MAX_COUNT
                                /\ x # s \/ ~gone => sem'[x].VALID = sem[x].VALID
    BY <1>5, <1>8, <1>10
  <2>3. conn[c].POST_STATE > 0 => conn[c].VALID
    <3>1. conn[c].VALID \in BOOLEAN
      BY <1>2, Fields
    <3> QED
      BY <1>3, <3>1 DEF ConnOK, NoConnection
  <2> QED
    BY <1>2, <1>3, <1>16, <2>1, <2>2, <2>3 DEF ConnOK, Strict
<1>20. CallOK(c)'
  <2>1. sem[s].block = "allocated" /\ Made(s)
    BY <1>5 DEF SemOK
  <2>2. \A u \in Task : call'[u].destroying /\ call'[u].s = s => u = c
    <3>1. ASSUME NEW u \in Task, u # c
          PROVE  ~(call[u].destroying /\ call[u].s = s)
      <4>1. CallOK(u)
        BY DEF Inv
      <4> QED
        BY <1>5, <4>1 DEF CallOK
    <3> QED
      BY <1>12, <3>1
  <2>3. ~call[c].close
    BY <1>2, <1>3 DEF CallOK
  <2> QED
    BY <1>8, <1>10, <1>12, <1>16, <2>1, <2>2, <2>3 DEF CallOK
<1>21. ASSUME NEW t \in Task
       PROVE  BoostOK(t)' /\ StateOK(t)'
  <2>1. BoostOK(t) /\ StateOK(t) /\ CallOK(t)
    BY DEF Inv
  <2>2. t # c => call'[t] = call[t]
    BY <1>12
  <2>3. BoostOK(t)'
    BY <1>2, <1>12, <1>14, <2>1, <2>2 DEF BoostOK
  <2>4. k'.TD_STATE[t] = "SEM_BLOCKED" => k.TD_STATE[t] = "SEM_BLOCKED" /\ t # c
    BY <1>2, <1>14
  <2>5. k.TD_STATE[t] = "SEM_BLOCKED" => call[t].s \in Semaphore /\ (call[t].s # s \/ ~gone)
    BY <1>17, <2>1 DEF StateOK, CallOK, Waiters
  <2>6. \A x \in Semaphore : x # s \/ ~gone =>
           sem'[x].VALID = sem[x].VALID /\ sem'[x].COUNT = sem[x].COUNT
    BY <1>5, <1>8, <1>10
  <2>7. k'.TD_STATE[t] \in {"READY", "SEM_BLOCKED"}
    BY <1>14, <2>1 DEF StateOK
  <2>8. StateOK(t)'
    BY <1>14, <2>1, <2>2, <2>4, <2>5, <2>6, <2>7 DEF StateOK
  <2> QED
    BY <2>3, <2>8
<1>22. InTransit(s)' = InTransit(s) /\ Waiters(s)' = Waiters(s)
  <2>1. ASSUME NEW t \in Task
        PROVE  /\ (call'[t].at = "wait" /\ call'[t].s = s) <=>
                     (call[t].at = "wait" /\ call[t].s = s)
               /\ (k'.TD_STATE[t] # "SEM_BLOCKED" /\ k'.INFO[t] = "SEM_AVAILABLE") <=>
                     (k.TD_STATE[t] # "SEM_BLOCKED" /\ k.INFO[t] = "SEM_AVAILABLE")
    <3>1. StateOK(t)
      BY DEF Inv
    <3> QED
      BY <1>2, <1>12, <1>14, <3>1 DEF StateOK
  <2> QED
    BY <2>1 DEF InTransit, Waiters
<1>23. ASSUME NEW x \in Semaphore
       PROVE  QueuesOK(x)' /\ TokensOK(x)' /\ SemOK(x)'
  <2>1. CASE x = s
    <3>1. Owners(s)' = Owners(s)
      BY <1>15 DEF Owners
    <3>2. QueuesOK(s)'
      BY <1>5, <1>8, <1>10, <1>22, <3>1 DEF QueuesOK
    <3>3. sem'[s].VALID => sem[s].VALID
      BY <1>5
    <3>4. TokensOK(s)'
      BY <1>2, <1>5, <1>8, <1>10, <1>15, <1>22, <3>3, TokensKept
    <3>5. SemOK(s)'
      BY <1>2, <1>5, <1>8, <1>10, <1>16, <1>17, <1>22 DEF SemOK, Strict
    <3> QED
      BY <2>1, <3>2, <3>4, <3>5
  <2>2. CASE x # s
    <3>1. \A t \in Task : (call'[t].at = "wait" /\ call'[t].s = x) <=>
                          (call[t].at = "wait" /\ call[t].s = x)
      BY <1>2, <1>12
    <3>2. \A t \in Task : call[t].at = "wait" /\ call[t].s = x =>
                             /\ k'.TD_STATE[t] = k.TD_STATE[t] /\ k'.INFO[t] = k.INFO[t]
      BY <1>14, <2>2 DEF Waiters
    <3> QED
      BY <1>13, <1>15, <2>2, <3>1, <3>2, TouchedSem
  <2> QED
    BY <2>1, <2>2
<1>24. TypeOK' /\ call'[td'].at = "scheduler"
  BY <1>2, <1>10, <1>12, <1>14 DEF TypeOK, Core, KInv, td
<1>25. call'[Idle] = NoCall /\ conn'[Idle] = NoConnection
  BY <1>2, <1>12, IdleKept
<1> QED
  BY <1>14, <1>18, <1>19, <1>20, <1>21, <1>23, <1>24, <1>25, Parts

(***************************************************************************)
(* _sem_post, by a task or an interrupt.                                    *)
(***************************************************************************)
\* Blocked(s) are the tasks that wait for s and have not been woken.
LEMMA BlockedFacts ==
    ASSUME Inv, NEW s \in Semaphore, sem[s].VALID
    PROVE  /\ Blocked(s) = <<>> =>
                 \A t \in Task : t \in Waiters(s) => k.TD_STATE[t] # "SEM_BLOCKED"
           /\ Blocked(s) # <<>> =>
                 \E w \in Waiters(s) : w = Head(Blocked(s)) /\ k.TD_STATE[w] = "SEM_BLOCKED"
<1>1. PICK S : S = {t \in Task : k.TD_STATE[t] = "SEM_BLOCKED"}
  OBVIOUS
<1>2. PICK q \in Seq(Task) : q = sem[s].WAITING_TASKS
  BY Fields DEF Inv
<1>3. Elems(q) = Waiters(s)
  BY <1>2 DEF Inv, QueuesOK
<1>4. PICK b : b = Blocked(s)
  OBVIOUS
<1>5. b = Keep(q, S)
  BY <1>1, <1>2, <1>4 DEF Blocked
<1>6. b \in Seq(Task) /\ Elems(b) = Waiters(s) \cap S
  BY <1>2, <1>3, <1>5, KeepElems
<1>7. /\ b = <<>> <=> Elems(b) = {}
      /\ b # <<>> => Head(b) \in Elems(b)
  BY <1>6, EmptyQueue
<1> QED
  BY <1>1, <1>4, <1>6, <1>7

\* The kernel v after a post of s: a blocked task has been woken with the token, if
\* there is one.
Woken(s, v) ==
    IF Blocked(s) = <<>> THEN v.TD_STATE = k.TD_STATE /\ v.INFO = k.INFO
    ELSE \E w \in Waiters(s) :
            /\ k.TD_STATE[w] = "SEM_BLOCKED"
            /\ v.TD_STATE = [k.TD_STATE EXCEPT ![w] = "READY"]
            /\ v.INFO = [k.INFO EXCEPT ![w] = "SEM_AVAILABLE"]

\* PostReady wakes it, and leaves the processor to the active task.
LEMMA PostReadyCore ==
    ASSUME Inv, NEW s \in Semaphore, sem[s].VALID
    PROVE  LET v == PostReady(s)
           IN  /\ Core(v) /\ v.ACTIVE_PTR = k.ACTIVE_PTR
               /\ v.MY_QUEUE = k.MY_QUEUE /\ v.BOOSTED = k.BOOSTED
               /\ Woken(s, v)
<1> DEFINE v == PostReady(s)
<1>1. Core(k)
  BY DEF Inv
<1>2. CASE Blocked(s) = <<>>
  <2>1. v = k
    BY <1>2 DEF PostReady
  <2> HIDE DEF v
  <2> QED
    BY <1>1, <1>2, <2>1 DEF v, Woken
<1>3. CASE Blocked(s) # <<>>
  <2>1. PICK w \in Waiters(s) : w = Head(Blocked(s)) /\ k.TD_STATE[w] = "SEM_BLOCKED"
    BY <1>3, BlockedFacts
  <2>2. w \in Task
    BY DEF Waiters
  <2>3. PICK u : u = WakeUp(k, w)
    OBVIOUS
  <2>4. /\ Core(u) /\ u.ACTIVE_PTR = k.ACTIVE_PTR
        /\ u.TD_STATE = [k.TD_STATE EXCEPT ![w] = "READY"] /\ u.INFO = k.INFO
        /\ u.MY_QUEUE = k.MY_QUEUE /\ u.BOOSTED = k.BOOSTED
    BY <1>1, <2>1, <2>2, <2>3, WakeUpCore
  <2>5. v = [u EXCEPT !.INFO[w] = "SEM_AVAILABLE"]
    BY <1>3, <2>1, <2>3 DEF PostReady, WakeUp
  <2>6. "SEM_AVAILABLE" \in Info
    BY DEF Info
  <2>7. /\ Core(v) /\ v.ACTIVE_PTR = u.ACTIVE_PTR
        /\ v.TD_STATE = u.TD_STATE /\ v.INFO = [u.INFO EXCEPT ![w] = "SEM_AVAILABLE"]
        /\ v.MY_QUEUE = u.MY_QUEUE /\ v.BOOSTED = u.BOOSTED
    BY <2>2, <2>4, <2>5, <2>6, InfoCore
  <2> HIDE DEF v
  <2> QED
    BY <1>3, <2>1, <2>4, <2>7 DEF v, Woken
<1> QED
  BY <1>2, <1>3

\* What a post does to semaphore s and to who is in a wait, apart from the owners.
PostStep(s) ==
    /\ sem[s].VALID
    /\ Woken(s, k')
    /\ \A t \in Task : (call'[t].at = "wait" <=> call[t].at = "wait")
    /\ \A t \in Task : call[t].at = "wait" => call'[t].s = call[t].s
    /\ \A x \in Semaphore : x # s => sem'[x] = sem[x]
    /\ sem'[s].COUNT = IF Blocked(s) = <<>> THEN sem[s].COUNT + 1 ELSE sem[s].COUNT
    /\ sem'[s].VALID = IF Blocked(s) = <<>> THEN ~Destroys(s) ELSE sem[s].VALID
    /\ owed'[s] = owed[s] + 1

\* The token is in COUNT or on the way to the task that was woken; nobody is blocked
\* on a semaphore that has a token or has gone.
LEMMA Posted ==
    ASSUME Inv, NEW s \in Semaphore, PostStep(s)
    PROVE  /\ \A t \in Task : StateOK(t)'
           /\ \A x \in Semaphore : Waiters(x)' = Waiters(x)
           /\ owed'[s] = sem'[s].COUNT + Cardinality(InTransit(s)')
           /\ Cardinality(InTransit(s)') \in Nat /\ IsFiniteSet(InTransit(s)')
           /\ \A t \in Task : t \notin Waiters(s) =>
                 k'.TD_STATE[t] = k.TD_STATE[t] /\ k'.INFO[t] = k.INFO[t]
<1>1. /\ TypeOK /\ sem[s].COUNT \in Nat /\ owed[s] \in Int /\ TokensOK(s)
      /\ k.TD_STATE \in [Task -> State] /\ k.INFO \in [Task -> Info] /\ sem[s].VALID
  BY Fields, KernelFields DEF Inv, TypeOK, PostStep
<1>2. \A x \in Semaphore : Waiters(x)' = Waiters(x)
  BY DEF PostStep, Waiters
<1>3. IsFiniteSet(InTransit(s)) /\ Cardinality(InTransit(s)) \in Nat
  BY <1>1, TokenSets
<1>4. owed[s] = sem[s].COUNT + Cardinality(InTransit(s))
  BY <1>1 DEF TokensOK
<1>5. CASE Blocked(s) = <<>>
  <2>1. k'.TD_STATE = k.TD_STATE /\ k'.INFO = k.INFO
    BY <1>5 DEF PostStep, Woken
  <2>2. InTransit(s)' = InTransit(s)
    BY <2>1 DEF InTransit, PostStep
  <2>3. ASSUME NEW t \in Task
        PROVE  StateOK(t)'
    <3>1. StateOK(t) /\ CallOK(t)
      BY DEF Inv
    <3>2. k.TD_STATE[t] = "SEM_BLOCKED" => call[t].s \in Semaphore /\ call[t].s # s
      <4>1. t \in Waiters(s) => k.TD_STATE[t] # "SEM_BLOCKED"
        BY <1>1, <1>5, BlockedFacts
      <4> QED
        BY <3>1, <4>1 DEF StateOK, CallOK, Waiters
    <3> QED
      BY <2>1, <3>1, <3>2 DEF StateOK, PostStep
  <2>4. sem'[s].COUNT = sem[s].COUNT + 1 /\ owed'[s] = owed[s] + 1
    BY <1>5 DEF PostStep
  <2>5. owed'[s] = sem'[s].COUNT + Cardinality(InTransit(s)')
    BY <1>1, <1>3, <1>4, <2>2, <2>4
  <2> QED
    BY <1>2, <1>3, <2>1, <2>2, <2>3, <2>5
<1>6. CASE Blocked(s) # <<>>
  <2>1. PICK w \in Waiters(s) :
            /\ k.TD_STATE[w] = "SEM_BLOCKED"
            /\ k'.TD_STATE = [k.TD_STATE EXCEPT ![w] = "READY"]
            /\ k'.INFO = [k.INFO EXCEPT ![w] = "SEM_AVAILABLE"]
    BY <1>6 DEF PostStep, Woken
  <2>2. w \in Task /\ call[w].at = "wait" /\ call[w].s = s
    BY DEF Waiters
  <2>3. /\ k'.TD_STATE[w] = "READY" /\ k'.INFO[w] = "SEM_AVAILABLE"
        /\ \A t \in Task : t # w => k'.TD_STATE[t] = k.TD_STATE[t] /\ k'.INFO[t] = k.INFO[t]
    BY <1>1, <2>1, <2>2
  <2>4. w \notin InTransit(s)
    BY <2>1 DEF InTransit
  <2>5. InTransit(s)' = InTransit(s) \cup {w}
    <3>1. ASSUME NEW t \in Task
          PROVE  t \in InTransit(s)' <=> t \in InTransit(s) \/ t = w
      BY <2>2, <2>3 DEF InTransit, PostStep
    <3> QED
      BY <2>2, <3>1 DEF InTransit
  <2>6. /\ Cardinality(InTransit(s)') = Cardinality(InTransit(s)) + 1
        /\ IsFiniteSet(InTransit(s)')
    BY <1>3, <2>4, <2>5, FS_AddElement
  <2>7. /\ sem'[s].COUNT = sem[s].COUNT /\ owed'[s] = owed[s] + 1
        /\ sem'[s].VALID = sem[s].VALID
    BY <1>6 DEF PostStep
  <2>8. ASSUME NEW t \in Task
        PROVE  StateOK(t)'
    <3>1. StateOK(t) /\ CallOK(t)
      BY DEF Inv
    <3>2. CASE t = w
      BY <2>3, <3>2 DEF StateOK
    <3>3. CASE t # w
      <4>1. k'.TD_STATE[t] = k.TD_STATE[t] /\ k'.INFO[t] = k.INFO[t]
        BY <2>3, <3>3
      <4>2. k.TD_STATE[t] = "SEM_BLOCKED" => call[t].s \in Semaphore
        BY <3>1 DEF StateOK, CallOK
      <4>3. \A x \in Semaphore : sem'[x].COUNT = sem[x].COUNT /\ sem'[x].VALID = sem[x].VALID
        BY <2>7 DEF PostStep
      <4> QED
        BY <3>1, <4>1, <4>2, <4>3 DEF StateOK, PostStep
    <3> QED
      BY <3>2, <3>3
  <2>9. owed'[s] = sem'[s].COUNT + Cardinality(InTransit(s)')
    BY <1>1, <1>3, <1>4, <2>6, <2>7
  <2>10. Cardinality(InTransit(s)') \in Nat
    BY <1>3, <2>6
  <2> QED
    BY <1>2, <2>3, <2>6, <2>8, <2>9, <2>10
<1> QED
  BY <1>5, <1>6

\* What a post by task c does to the tokens of s and to OWNING_TASKS.
PostFrom(c, s) ==
    /\ sem'[s].POLICY = sem[s].POLICY /\ sem'[s].MAX_COUNT = sem[s].MAX_COUNT
    /\ sem'[s].OWNING_TASKS = IF Strict(s) /\ conn[c].POST_STATE = 1
                              THEN Unlink(sem[s].OWNING_TASKS, c) ELSE sem[s].OWNING_TASKS
    /\ \A t \in Task : t # c => conn'[t] = conn[t]
    /\ conn'[c].SEM_PTR = s
    /\ conn'[c].POST_STATE = IF Strict(s) THEN conn[c].POST_STATE - 1
                             ELSE conn[c].POST_STATE

\* The owners stay exact, and a token of a strict semaphore leaves c.
LEMMA PostOwners ==
    ASSUME Inv, NEW c \in Task, NEW s \in Semaphore, sem[s].VALID, conn[c].SEM_PTR = s,
           Strict(s) => conn[c].POST_STATE > 0, PostFrom(c, s)
    PROVE  /\ NoDuplicates(sem'[s].OWNING_TASKS) /\ Elems(sem'[s].OWNING_TASKS) = Owners(s)'
           /\ Strict(s) => Cardinality(Owned(s)) = Cardinality(Owned(s)') + 1
           /\ Cardinality(Owned(s)') \in Nat /\ IsFiniteSet(Owned(s)')
           /\ \A t \in Task, x \in Semaphore : t # c \/ x # s => Share(t, x)' = Share(t, x)
           /\ \A t \in Task : Share(t, s)' \in Nat
<1>1. /\ TypeOK /\ ConnOK(c) /\ QueuesOK(s)
      /\ conn[c].POST_STATE \in Nat /\ sem[s].MAX_COUNT \in Nat
      /\ sem[s].OWNING_TASKS \in Seq(Task)
  BY Fields DEF Inv
<1>2. /\ \A t \in Task, x \in Semaphore : Share(t, x) \in Nat
      /\ \A t \in Task, x \in Semaphore : t # c \/ x # s => Share(t, x)' = Share(t, x)
      /\ Share(c, s) = conn[c].POST_STATE
      /\ Share(c, s)' = IF Strict(s) THEN conn[c].POST_STATE - 1 ELSE conn[c].POST_STATE
  BY <1>1, Fields DEF Share, PostFrom
<1>3. \A t \in Task : Share(t, s) \in Nat /\ Share(t, s)' \in Nat
  BY <1>1, <1>2
<1>4. sem'[s].MAX_COUNT = sem[s].MAX_COUNT
  BY DEF PostFrom
<1>5. Cardinality(Owned(s)') \in Nat /\ IsFiniteSet(Owned(s)')
  BY <1>1, <1>2, <1>3, <1>4, OwnedStep
<1>6. ASSUME Strict(s)
      PROVE  Cardinality(Owned(s)) = Cardinality(Owned(s)') + 1
  <2>1. conn[c].POST_STATE <= sem[s].MAX_COUNT
    BY <1>1, <1>6 DEF ConnOK
  <2>2. Share(c, s)' = Share(c, s) - 1 /\ Share(c, s) <= sem[s].MAX_COUNT
    BY <1>2, <1>6, <2>1
  <2> QED
    BY <1>1, <1>2, <1>3, <1>4, <2>2, OwnedStep
<1>7. NoDuplicates(sem[s].OWNING_TASKS) /\ Elems(sem[s].OWNING_TASKS) = Owners(s)
  BY <1>1 DEF QueuesOK
<1>8. CASE Strict(s) /\ conn[c].POST_STATE = 1
  <2>1. sem'[s].OWNING_TASKS = Unlink(sem[s].OWNING_TASKS, c)
    BY <1>8 DEF PostFrom
  <2>2. Share(c, s)' = 0
    BY <1>2, <1>8
  <2>3. Owners(s)' = Owners(s) \ {c}
    BY <1>2, <2>2 DEF Owners
  <2> QED
    BY <1>1, <1>2, <1>3, <1>5, <1>6, <1>7, <2>1, <2>3, UnlinkElems
<1>9. CASE ~(Strict(s) /\ conn[c].POST_STATE = 1)
  <2>1. sem'[s].OWNING_TASKS = sem[s].OWNING_TASKS
    BY <1>9 DEF PostFrom
  <2>2. Share(c, s)' > 0 <=> Share(c, s) > 0
    BY <1>1, <1>2, <1>9
  <2>3. Owners(s)' = Owners(s)
    BY <1>2, <2>2 DEF Owners
  <2> QED
    BY <1>2, <1>3, <1>5, <1>6, <1>7, <2>1, <2>3
<1> QED
  BY <1>8, <1>9

\* The semaphore after PostCount.
LEMMA PostCountFields ==
    ASSUME TypeOK, NEW s \in Semaphore
    PROVE  \E r \in SemStruct :
              /\ PostCount(s) = [sem EXCEPT ![s] = r]
              /\ r.block = sem[s].block /\ r.POLICY = sem[s].POLICY
              /\ r.MAX_COUNT = sem[s].MAX_COUNT
              /\ r.WAITING_TASKS = sem[s].WAITING_TASKS
              /\ r.OWNING_TASKS = sem[s].OWNING_TASKS
              /\ r.COUNT = IF Blocked(s) = <<>> THEN sem[s].COUNT + 1 ELSE sem[s].COUNT
              /\ r.VALID = IF Blocked(s) = <<>> THEN ~Destroys(s) ELSE sem[s].VALID
<1>1. sem \in [Semaphore -> SemStruct] /\ sem[s] \in SemStruct /\ sem[s].COUNT \in Nat
  BY Fields DEF TypeOK
<1>2. CASE Blocked(s) = <<>>
  <2>1. PICK d \in BOOLEAN : d = ~Destroys(s)
    OBVIOUS
  <2>2. PICK n \in Nat : n = sem[s].COUNT + 1
    BY <1>1
  <2>3. PICK r : r = [sem[s] EXCEPT !.COUNT = n, !.VALID = d]
    OBVIOUS
  <2>4. /\ r \in SemStruct /\ r.block = sem[s].block /\ r.POLICY = sem[s].POLICY
        /\ r.MAX_COUNT = sem[s].MAX_COUNT /\ r.WAITING_TASKS = sem[s].WAITING_TASKS
        /\ r.OWNING_TASKS = sem[s].OWNING_TASKS /\ r.COUNT = n /\ r.VALID = d
    BY <1>1, <2>3 DEF SemStruct
  <2>5. PostCount(s) = [sem EXCEPT ![s].COUNT = n, ![s].VALID = d]
    BY <1>1, <1>2, <2>1, <2>2 DEF PostCount
  <2>6. PostCount(s) = [sem EXCEPT ![s] = r]
    BY <1>1, <2>3, <2>5
  <2> QED
    BY <1>2, <2>1, <2>2, <2>4, <2>6
<1>3. CASE Blocked(s) # <<>>
  <2>1. PostCount(s) = [sem EXCEPT ![s] = sem[s]]
    BY <1>1, <1>3 DEF PostCount
  <2> QED
    BY <1>1, <1>3, <2>1
<1> QED
  BY <1>2, <1>3

\* The semaphore and the connection after a post by the active task c.
LEMMA PostFields ==
    ASSUME TypeOK, NEW c \in Task, c = td, NEW s \in Semaphore, s = conn[c].SEM_PTR,
           Strict(s) => conn[c].POST_STATE > 0, Post
    PROVE  /\ sem' \in [Semaphore -> SemStruct]
           /\ \A x \in Semaphore : x # s => sem'[x] = sem[x] /\ owed'[x] = owed[x]
           /\ sem'[s].block = sem[s].block
           /\ sem'[s].WAITING_TASKS = sem[s].WAITING_TASKS
           /\ sem'[s].COUNT = IF Blocked(s) = <<>> THEN sem[s].COUNT + 1 ELSE sem[s].COUNT
           /\ sem'[s].VALID = IF Blocked(s) = <<>> THEN ~Destroys(s) ELSE sem[s].VALID
           /\ conn' \in [Task -> Connection]
           /\ conn'[c].VALID = conn[c].VALID /\ conn'[c].BOOSTED = conn[c].BOOSTED
           /\ PostFrom(c, s)
           /\ owed' \in [Semaphore -> Int] /\ owed'[s] = owed[s] + 1
<1>1. PICK r \in SemStruct :
              /\ PostCount(s) = [sem EXCEPT ![s] = r]
              /\ r.block = sem[s].block /\ r.POLICY = sem[s].POLICY
              /\ r.MAX_COUNT = sem[s].MAX_COUNT
              /\ r.WAITING_TASKS = sem[s].WAITING_TASKS
              /\ r.OWNING_TASKS = sem[s].OWNING_TASKS
              /\ r.COUNT = IF Blocked(s) = <<>> THEN sem[s].COUNT + 1 ELSE sem[s].COUNT
              /\ r.VALID = IF Blocked(s) = <<>> THEN ~Destroys(s) ELSE sem[s].VALID
  BY PostCountFields
<1>2. PICK y : y = [sem EXCEPT ![s] = r]
  OBVIOUS
<1>3. sem' = IF Strict(s) /\ conn[c].POST_STATE = 1
             THEN [y EXCEPT ![s].OWNING_TASKS = Unlink(@, c)] ELSE y
  BY <1>1, <1>2 DEF Post
<1>4. /\ sem \in [Semaphore -> SemStruct] /\ sem[s].OWNING_TASKS \in Seq(Task)
      /\ conn[c] \in Connection /\ conn[c].POST_STATE \in Nat /\ owed[s] \in Int
      /\ conn \in [Task -> Connection]
  BY Fields DEF TypeOK
<1>5. PICK o \in Seq(Task) :
          o = IF Strict(s) /\ conn[c].POST_STATE = 1
              THEN Unlink(sem[s].OWNING_TASKS, c) ELSE sem[s].OWNING_TASKS
  BY <1>4, UnlinkElems
<1>6. PICK z : z = [r EXCEPT !.OWNING_TASKS = o]
  OBVIOUS
<1>7. /\ z \in SemStruct /\ z.block = r.block /\ z.POLICY = r.POLICY
      /\ z.MAX_COUNT = r.MAX_COUNT /\ z.WAITING_TASKS = r.WAITING_TASKS
      /\ z.OWNING_TASKS = o /\ z.COUNT = r.COUNT /\ z.VALID = r.VALID
  BY <1>6 DEF SemStruct
<1>8. sem' = [sem EXCEPT ![s] = z]
  <2>1. y \in [Semaphore -> SemStruct] /\ y[s] = r
    BY <1>2, <1>4
  <2>2. CASE Strict(s) /\ conn[c].POST_STATE = 1
    <3>1. sem' = [y EXCEPT ![s] = z]
      BY <1>1, <1>3, <1>5, <1>6, <2>1, <2>2
    <3> QED
      BY <1>2, <1>4, <3>1
  <2>3. CASE ~(Strict(s) /\ conn[c].POST_STATE = 1)
    <3>1. z = r
      BY <1>1, <1>5, <1>6, <2>3 DEF SemStruct
    <3> QED
      BY <1>2, <1>3, <2>3, <3>1
  <2> QED
    BY <2>2, <2>3
<1>9. /\ sem' \in [Semaphore -> SemStruct] /\ sem'[s] = z
      /\ \A x \in Semaphore : x # s => sem'[x] = sem[x]
  BY <1>7, <1>8, SemChange
<1>10. PICK m \in Nat : m = IF Strict(s) THEN conn[c].POST_STATE - 1 ELSE conn[c].POST_STATE
  BY <1>4
<1>11. PICK d : d = [conn[c] EXCEPT !.POST_STATE = m]
  OBVIOUS
<1>12. /\ d \in Connection /\ d.VALID = conn[c].VALID /\ d.SEM_PTR = conn[c].SEM_PTR
       /\ d.BOOSTED = conn[c].BOOSTED /\ d.POST_STATE = m
  BY <1>4, <1>11 DEF Connection
<1>13. conn' = [conn EXCEPT ![c] = d]
  <2>1. CASE Strict(s)
    BY <1>4, <1>10, <1>11, <2>1 DEF Post
  <2>2. CASE ~Strict(s)
    <3>1. d = conn[c]
      BY <1>4, <1>10, <1>11, <2>2 DEF Connection
    <3>2. conn' = conn
      BY <2>2 DEF Post
    <3> QED
      BY <1>4, <3>1, <3>2
  <2> QED
    BY <2>1, <2>2
<1>14. /\ conn' \in [Task -> Connection] /\ conn'[c] = d
       /\ \A t \in Task : t # c => conn'[t] = conn[t]
  BY <1>12, <1>13, ConnChange
<1>15. owed' = [owed EXCEPT ![s] = owed[s] + 1]
  BY DEF Post
<1>16. /\ owed' \in [Semaphore -> Int] /\ owed'[s] = owed[s] + 1
       /\ \A x \in Semaphore : x # s => owed'[x] = owed[x]
  <2>1. owed[s] + 1 \in Int
    BY <1>4
  <2> QED
    BY <1>15, <2>1, OwedChange
<1>17. PostFrom(c, s)
  BY <1>1, <1>5, <1>7, <1>9, <1>10, <1>12, <1>14 DEF PostFrom
<1> QED
  BY <1>1, <1>7, <1>9, <1>12, <1>14, <1>16, <1>17

\* What a post by the active task c makes of the kernel: without boosts to give back,
\* c goes on to call the scheduler; with them, that has been done.
PostKernel(c) ==
    IF conn[c].BOOSTED > 0 /\ conn'[c].POST_STATE = 0
    THEN /\ Settled(k') /\ call'[c].at = "unboosted"
         /\ k'.MY_QUEUE = [k.MY_QUEUE EXCEPT ![c] = InitPriority[c]]
         /\ k'.BOOSTED = [k.BOOSTED EXCEPT ![c] = 0]
    ELSE /\ Core(k') /\ call'[c].at = "scheduler" /\ k'.ACTIVE_PTR = c
         /\ k'.MY_QUEUE = k.MY_QUEUE /\ k'.BOOSTED = k.BOOSTED

\* The kernel and the call.
LEMMA PostMoves ==
    ASSUME Inv, NEW c \in Task, c = td, c # Idle, call[c].at = "none",
           NEW s \in Semaphore, s = conn[c].SEM_PTR, Post
    PROVE  /\ PostKernel(c) /\ Core(k') /\ Woken(s, k')
           /\ call' \in [Task -> Calls]
           /\ \A t \in Task : t # c => call'[t] = call[t]
           /\ call'[c].at \in {"unboosted", "scheduler"}
           /\ call'[c].s = s /\ call'[c].destroying = Destroys(s)
           /\ call'[c].close = call[c].close
<1>1. TypeOK /\ BoostOK(c) /\ sem[s].VALID /\ conn[c].BOOSTED \in Nat
  BY Fields DEF Inv, Post, Postable
<1>2. PICK v : v = PostReady(s)
  OBVIOUS
<1>3. /\ Core(v) /\ v.ACTIVE_PTR = k.ACTIVE_PTR
      /\ v.MY_QUEUE = k.MY_QUEUE /\ v.BOOSTED = k.BOOSTED
      /\ Woken(s, v)
  BY <1>1, <1>2, PostReadyCore
<1>4. PICK d \in BOOLEAN : d = Destroys(s)
  <2>1. Destroys(s) \in BOOLEAN
    BY DEF Destroys
  <2> QED
    BY <2>1
<1>5. CASE conn[c].BOOSTED > 0 /\ conn'[c].POST_STATE = 0
  <2>1. PICK n \in Nat : n = conn[c].BOOSTED
    BY <1>1
  <2>2. k' = sched_unboost_priority_internal(v, c, n) /\ Goto("unboosted", s, d)
    BY <1>2, <1>4, <1>5, <2>1 DEF Post
  <2>3. v.BOOSTED[c] = n /\ n > 0
    BY <1>1, <1>3, <1>5, <2>1 DEF BoostOK
  <2>4. /\ Settled(k') /\ k'.TD_STATE = v.TD_STATE /\ k'.INFO = v.INFO
        /\ k'.MY_QUEUE = [v.MY_QUEUE EXCEPT ![c] = InitPriority[c]]
        /\ k'.BOOSTED = [v.BOOSTED EXCEPT ![c] = 0]
    BY <1>3, <2>1, <2>2, <2>3, UnboostSettles
  <2>5. /\ call' \in [Task -> Calls]
        /\ \A t \in Task : t # c => call'[t] = call[t]
        /\ call'[c].at = "unboosted" /\ call'[c].s = s /\ call'[c].destroying = d
        /\ call'[c].close = call[c].close
    BY <1>1, <2>2, GotoFields DEF Places
  <2>6. PostKernel(c)
    BY <1>3, <1>5, <2>4, <2>5 DEF PostKernel
  <2>7. Woken(s, k')
    <3>1. CASE Blocked(s) = <<>>
      BY <1>3, <2>4, <3>1 DEF Woken
    <3>2. CASE Blocked(s) # <<>>
      BY <1>3, <2>4, <3>2, ZenonT(30) DEF Woken
    <3> QED
      BY <3>1, <3>2
  <2>8. Core(k')
    BY <2>4 DEF Settled
  <2> QED
    BY <1>4, <2>5, <2>6, <2>7, <2>8
<1>6. CASE ~(conn[c].BOOSTED > 0 /\ conn'[c].POST_STATE = 0)
  <2>1. k' = v /\ Goto("scheduler", s, d)
    BY <1>2, <1>4, <1>6 DEF Post
  <2>2. /\ call' \in [Task -> Calls]
        /\ \A t \in Task : t # c => call'[t] = call[t]
        /\ call'[c].at = "scheduler" /\ call'[c].s = s /\ call'[c].destroying = d
        /\ call'[c].close = call[c].close
    BY <1>1, <2>1, GotoFields DEF Places
  <2>3. PostKernel(c)
    BY <1>3, <1>6, <2>1, <2>2 DEF PostKernel, td
  <2>4. Woken(s, k') /\ Core(k')
    BY <1>3, <2>1
  <2> QED
    BY <1>4, <2>2, <2>3, <2>4
<1> QED
  BY <1>5, <1>6

\* A post by a task, in the application or in _sem_close.
LEMMA PostInv ==
    ASSUME Inv, At("none"), conn[td].VALID, Post,
           Strict(conn[td].SEM_PTR) => conn[td].POST_STATE > 0
    PROVE  Inv'
<1>1. PICK c \in Task : c = td
  BY Fields DEF Inv
<1>2. /\ TypeOK /\ c # Idle /\ call[c].at = "none" /\ conn[c].VALID /\ NAME' = NAME
      /\ k.TD_STATE[c] = "READY"
  BY <1>1, Here DEF At, Inv, Post
<1>3. ConnOK(c) /\ CallOK(c) /\ BoostOK(c)
  BY DEF Inv
<1>4. PICK s \in Semaphore : s = conn[c].SEM_PTR
  BY <1>2, <1>3 DEF ConnOK
<1>5. /\ sem[s].VALID /\ sem[s] \in SemStruct /\ sem[s].COUNT \in Nat
      /\ sem[s].MAX_COUNT \in Nat /\ owed[s] \in Int
      /\ QueuesOK(s) /\ TokensOK(s) /\ SemOK(s)
      /\ conn[c].POST_STATE \in Nat /\ conn[c].BOOSTED \in Nat
  BY <1>1, <1>2, <1>4, Fields DEF Post, Postable, TypeOK, Inv
<1>6. Strict(s) => conn[c].POST_STATE > 0
  BY <1>1, <1>4
<1>7. /\ sem' \in [Semaphore -> SemStruct]
      /\ \A x \in Semaphore : x # s => sem'[x] = sem[x] /\ owed'[x] = owed[x]
      /\ sem'[s].block = sem[s].block
      /\ sem'[s].WAITING_TASKS = sem[s].WAITING_TASKS
      /\ sem'[s].COUNT = IF Blocked(s) = <<>> THEN sem[s].COUNT + 1 ELSE sem[s].COUNT
      /\ sem'[s].VALID = IF Blocked(s) = <<>> THEN ~Destroys(s) ELSE sem[s].VALID
      /\ conn' \in [Task -> Connection]
      /\ conn'[c].VALID = conn[c].VALID /\ conn'[c].BOOSTED = conn[c].BOOSTED
      /\ PostFrom(c, s)
      /\ owed' \in [Semaphore -> Int] /\ owed'[s] = owed[s] + 1
  BY <1>1, <1>2, <1>4, <1>6, PostFields
<1>8. /\ PostKernel(c) /\ Core(k') /\ Woken(s, k')
      /\ call' \in [Task -> Calls]
      /\ \A t \in Task : t # c => call'[t] = call[t]
      /\ call'[c].at \in {"unboosted", "scheduler"}
      /\ call'[c].s = s /\ call'[c].destroying = Destroys(s)
      /\ call'[c].close = call[c].close
  BY <1>1, <1>2, <1>4, PostMoves
<1>9. PostStep(s)
  BY <1>2, <1>5, <1>7, <1>8 DEF PostStep
<1>10. /\ \A t \in Task : StateOK(t)'
       /\ \A x \in Semaphore : Waiters(x)' = Waiters(x)
       /\ owed'[s] = sem'[s].COUNT + Cardinality(InTransit(s)')
       /\ Cardinality(InTransit(s)') \in Nat /\ IsFiniteSet(InTransit(s)')
       /\ \A t \in Task : t \notin Waiters(s) =>
             k'.TD_STATE[t] = k.TD_STATE[t] /\ k'.INFO[t] = k.INFO[t]
  BY <1>9, Posted
<1>11. /\ NoDuplicates(sem'[s].OWNING_TASKS) /\ Elems(sem'[s].OWNING_TASKS) = Owners(s)'
       /\ Strict(s) => Cardinality(Owned(s)) = Cardinality(Owned(s)') + 1
       /\ Cardinality(Owned(s)') \in Nat /\ IsFiniteSet(Owned(s)')
       /\ \A t \in Task, x \in Semaphore : t # c \/ x # s => Share(t, x)' = Share(t, x)
       /\ \A t \in Task : Share(t, s)' \in Nat
  BY <1>4, <1>5, <1>6, <1>7, PostOwners
<1>12. /\ sem'[s].POLICY = sem[s].POLICY /\ sem'[s].MAX_COUNT = sem[s].MAX_COUNT
       /\ \A t \in Task : t # c => conn'[t] = conn[t]
       /\ conn'[c].SEM_PTR = s
       /\ conn'[c].POST_STATE = IF Strict(s) THEN conn[c].POST_STATE - 1
                                ELSE conn[c].POST_STATE
  BY <1>7 DEF PostFrom
<1>13. Touched(c, s)
  BY <1>2, <1>5, <1>7, <1>8, <1>12 DEF Touched
<1>14. \A x \in Semaphore : (Made(x)' <=> Made(x)) /\ sem'[x].block = sem[x].block
  BY <1>13, TouchedMade
<1>15. Strict(s) => owed'[s] + Cardinality(Owned(s)') = sem'[s].MAX_COUNT
  <2>1. Strict(s) => owed[s] + Cardinality(Owned(s)) = sem[s].MAX_COUNT
    BY <1>5 DEF TokensOK
  <2>2. PICK n \in Nat : n = Cardinality(Owned(s)')
    BY <1>11
  <2>3. Strict(s) => Cardinality(Owned(s)) = n + 1
    BY <1>11, <2>2
  <2>4. Strict(s) => owed'[s] + n = sem[s].MAX_COUNT
    <3>1. owed'[s] = owed[s] + 1 /\ owed[s] \in Int
      BY <1>5, <1>7
    <3> QED
      BY <2>1, <2>3, <3>1
  <2> QED
    BY <1>12, <2>2, <2>4
<1>16. ASSUME Strict(s), ~sem'[s].VALID
       PROVE  /\ InTransit(s)' = {}
              /\ Cardinality(Owned(s)') = 0
  <2>1. Blocked(s) = <<>> /\ Destroys(s)
    BY <1>5, <1>7, <1>16
  <2>2. sem'[s].COUNT = sem[s].MAX_COUNT
    BY <1>7, <1>16, <2>1 DEF Destroys
  <2>3. Cardinality(InTransit(s)') = 0 /\ Cardinality(Owned(s)') = 0
    BY <1>5, <1>10, <1>11, <1>12, <1>15, <1>16, <2>2
  <2> QED
    BY <1>10, <2>3, FS_EmptySet
<1>17. sem'[s].VALID \in BOOLEAN
  BY <1>7 DEF SemStruct
<1>18. Strict(s)' <=> Strict(s)
  BY <1>12 DEF Strict
<1>19. ASSUME NEW t \in Task, ~sem'[s].VALID
       PROVE  Share(t, s)' = 0
  <2>1. CASE Strict(s)
    <3>1. Cardinality(Owned(s)') = 0
      BY <1>16, <1>19, <2>1
    <3>2. Owned(s)' = {}
      BY <1>11, <3>1, FS_EmptySet
    <3>3. PICK m \in Nat : m = sem'[s].MAX_COUNT
      BY <1>5, <1>12
    <3>4. 1 \in 1 .. m
      <4>1. m > 0
        BY <1>5, <1>12, <2>1, <3>3 DEF SemOK
      <4> QED
        BY <4>1
    <3>5. Share(t, s)' >= 1 => <<t, 1>> \in Owned(s)'
      BY <3>3, <3>4 DEF Owned
    <3> QED
      BY <1>11, <3>2, <3>5
  <2>2. CASE ~Strict(s)
    <3>1. conn[t].SEM_PTR = s => conn[t].POST_STATE = 0
      <4>1. ConnOK(t) /\ conn[t].POST_STATE \in Nat
        BY <1>2, Fields DEF Inv
      <4> QED
        BY <2>2, <4>1 DEF ConnOK
    <3>2. conn'[t].SEM_PTR = s => conn'[t].POST_STATE = 0
      BY <1>4, <1>12, <2>2, <3>1
    <3> QED
      BY <3>2 DEF Share
  <2> QED
    BY <2>1, <2>2
<1>20. ASSUME NEW t \in Task, t # c
       PROVE  ConnOK(t)' /\ CallOK(t)'
  <2>1. sem'[s].VALID \/ (Share(t, s) = 0 /\ sem'[s].VALID = FALSE)
    BY <1>11, <1>17, <1>19, <1>20
  <2>2. conn'[t] = conn[t]
    BY <1>12, <1>20
  <2> QED
    BY <1>13, <1>20, <2>1, <2>2, TouchedTask
<1>21. ConnOK(c)'
  <2>1. conn'[c].POST_STATE > 0 => sem'[s].VALID
    BY <1>12, <1>19 DEF Share
  <2>2. conn[c].POST_STATE > 0 => Strict(s) /\ conn[c].POST_STATE <= sem[s].MAX_COUNT
    BY <1>3, <1>4 DEF ConnOK
  <2>3. conn'[c].POST_STATE > 0 => Strict(s) /\ conn'[c].POST_STATE <= sem'[s].MAX_COUNT
    BY <1>5, <1>6, <1>12, <2>2
  <2>4. conn'[c].VALID /\ Made(s)'
    BY <1>2, <1>3, <1>4, <1>7, <1>14 DEF ConnOK
  <2> QED
    BY <1>12, <1>18, <2>1, <2>3, <2>4 DEF ConnOK
<1>22. CallOK(c)'
  <2>1. sem[s].block = "allocated" /\ Made(s)
    BY <1>5 DEF SemOK
  <2>2. \A u \in Task : call'[u].destroying /\ call'[u].s = s => u = c
    <3>1. ASSUME NEW u \in Task, u # c
          PROVE  ~(call[u].destroying /\ call[u].s = s)
      <4>1. CallOK(u)
        BY DEF Inv
      <4> QED
        BY <1>5, <4>1 DEF CallOK
    <3> QED
      BY <1>8, <3>1
  <2>3. call'[c].destroying => ~sem'[s].VALID
    BY <1>7, <1>8 DEF Destroys
  <2>4. call'[c].at = "unboosted" => conn'[c].POST_STATE = 0
    BY <1>8 DEF PostKernel
  <2> QED
    BY <1>2, <1>7, <1>8, <1>14, <2>1, <2>2, <2>3, <2>4 DEF CallOK
<1>23. ASSUME NEW t \in Task
       PROVE  BoostOK(t)'
  <2>1. BoostOK(t) /\ k.MY_QUEUE \in [Task -> Priority] /\ k.BOOSTED \in [Task -> Nat]
    BY <1>2, KernelFields DEF Inv, TypeOK
  <2>2. InitPriority[t] \in Nat
    BY KernelAssumption, Priorities
  <2>3. CASE t # c
    <3>1. k'.MY_QUEUE[t] = k.MY_QUEUE[t] /\ k'.BOOSTED[t] = k.BOOSTED[t]
      BY <1>8, <2>1, <2>3 DEF PostKernel
    <3>2. call'[t] = call[t] /\ conn'[t] = conn[t]
      BY <1>8, <1>12, <2>3
    <3> QED
      BY <2>1, <3>1, <3>2 DEF BoostOK
  <2>4. CASE t = c /\ conn[c].BOOSTED > 0 /\ conn'[c].POST_STATE = 0
    <3>1. /\ call'[c].at = "unboosted" /\ k'.MY_QUEUE[c] = InitPriority[c]
          /\ k'.BOOSTED[c] = 0
      BY <1>8, <2>1, <2>4 DEF PostKernel
    <3> QED
      BY <2>2, <2>4, <3>1 DEF BoostOK
  <2>5. CASE t = c /\ ~(conn[c].BOOSTED > 0 /\ conn'[c].POST_STATE = 0)
    <3>1. /\ call'[c].at = "scheduler" /\ k'.MY_QUEUE[c] = k.MY_QUEUE[c]
          /\ k'.BOOSTED[c] = k.BOOSTED[c]
      BY <1>8, <2>5 DEF PostKernel
    <3>2. conn'[c].BOOSTED > 0 => conn'[c].POST_STATE > 0
      BY <1>5, <1>6, <1>7, <1>12, <2>5
    <3> QED
      BY <1>2, <1>7, <2>1, <2>5, <3>1, <3>2 DEF BoostOK
  <2> QED
    BY <2>3, <2>4, <2>5
<1>24. ASSUME NEW x \in Semaphore
       PROVE  QueuesOK(x)' /\ TokensOK(x)' /\ SemOK(x)'
  <2>1. CASE x = s
    <3>1. QueuesOK(s)'
      BY <1>5, <1>7, <1>10, <1>11 DEF QueuesOK
    <3>2. TokensOK(s)'
      BY <1>10, <1>15, <1>18 DEF TokensOK
    <3>3. SemOK(s)'
      BY <1>2, <1>5, <1>7, <1>12, <1>14, <1>16, <1>18 DEF SemOK
    <3> QED
      BY <2>1, <3>1, <3>2, <3>3
  <2>2. CASE x # s
    <3>1. \A t \in Task : (call'[t].at = "wait" /\ call'[t].s = x) <=>
                          (call[t].at = "wait" /\ call[t].s = x)
      BY <1>2, <1>8
    <3>2. \A t \in Task : call[t].at = "wait" /\ call[t].s = x =>
                             /\ k'.TD_STATE[t] = k.TD_STATE[t] /\ k'.INFO[t] = k.INFO[t]
      BY <1>10, <2>2 DEF Waiters
    <3> QED
      BY <1>11, <1>13, <2>2, <3>1, <3>2, TouchedSem
  <2> QED
    BY <2>1, <2>2
<1>25. TypeOK'
  BY <1>2, <1>7, <1>8 DEF TypeOK, Core, KInv
<1>26. call'[td'].at # "scheduler" => Settled(k')
  BY <1>8 DEF PostKernel, td
<1>27. call'[Idle] = NoCall /\ conn'[Idle] = NoConnection
  BY <1>2, <1>8, <1>12, IdleKept
<1> QED
  BY <1>8, <1>10, <1>20, <1>21, <1>22, <1>23, <1>24, <1>25, <1>26, <1>27, Parts

\* A post by an interrupt, which may free the semaphore there and then.
LEMMA IsrPostInv ==
    ASSUME Inv, NEW t0 \in Task, IsrPost(t0)
    PROVE  Inv'
<1>1. TypeOK /\ ConnOK(t0) /\ conn' = conn /\ call' = call /\ conn[t0].VALID
  BY DEF Inv, IsrPost
<1>2. PICK s \in Semaphore : s = conn[t0].SEM_PTR
  BY <1>1 DEF ConnOK
<1>3. /\ sem[s].VALID /\ ~Strict(s) /\ sem[s] \in SemStruct /\ sem[s].COUNT \in Nat
      /\ owed[s] \in Int /\ QueuesOK(s) /\ TokensOK(s) /\ SemOK(s)
  BY <1>1, <1>2, Fields DEF IsrPost, Postable, TypeOK, Inv
<1>4. PICK d \in BOOLEAN : d = Destroys(s)
  <2>1. Destroys(s) \in BOOLEAN
    BY DEF Destroys
  <2> QED
    BY <2>1
<1>5. PICK r \in SemStruct :
              /\ PostCount(s) = [sem EXCEPT ![s] = r]
              /\ r.block = sem[s].block /\ r.POLICY = sem[s].POLICY
              /\ r.MAX_COUNT = sem[s].MAX_COUNT
              /\ r.WAITING_TASKS = sem[s].WAITING_TASKS
              /\ r.OWNING_TASKS = sem[s].OWNING_TASKS
              /\ r.COUNT = IF Blocked(s) = <<>> THEN sem[s].COUNT + 1 ELSE sem[s].COUNT
              /\ r.VALID = IF Blocked(s) = <<>> THEN ~Destroys(s) ELSE sem[s].VALID
  BY <1>1, PostCountFields
<1>6. PICK z : z = IF d THEN [r EXCEPT !.block = "freed"] ELSE r
  OBVIOUS
<1>7. /\ z \in SemStruct /\ z.block = (IF d THEN "freed" ELSE r.block)
      /\ z.POLICY = r.POLICY /\ z.MAX_COUNT = r.MAX_COUNT
      /\ z.WAITING_TASKS = r.WAITING_TASKS /\ z.OWNING_TASKS = r.OWNING_TASKS
      /\ z.COUNT = r.COUNT /\ z.VALID = r.VALID
  <2>1. CASE d
    BY <1>6, <2>1 DEF SemStruct
  <2>2. CASE ~d
    BY <1>6, <2>2
  <2> QED
    BY <2>1, <2>2
<1>8. sem' = [sem EXCEPT ![s] = z]
  <2>1. PICK y : y = [sem EXCEPT ![s] = r]
    OBVIOUS
  <2>2. sem' = IF d THEN [y EXCEPT ![s].block = "freed"] ELSE y
    BY <1>2, <1>4, <1>5, <2>1 DEF IsrPost
  <2>3. sem \in [Semaphore -> SemStruct] /\ y \in [Semaphore -> SemStruct] /\ y[s] = r
    BY <1>1, <2>1 DEF TypeOK
  <2>4. CASE d
    <3>1. sem' = [y EXCEPT ![s] = z]
      BY <1>6, <2>2, <2>3, <2>4
    <3> QED
      BY <2>1, <2>3, <3>1
  <2>5. CASE ~d
    BY <1>6, <2>1, <2>2, <2>5
  <2> QED
    BY <2>4, <2>5
<1>9. /\ sem' \in [Semaphore -> SemStruct] /\ sem'[s] = z
      /\ \A x \in Semaphore : x # s => sem'[x] = sem[x]
  BY <1>1, <1>7, <1>8, SemChange
<1>10. /\ owed' \in [Semaphore -> Int] /\ owed'[s] = owed[s] + 1
       /\ \A x \in Semaphore : x # s => owed'[x] = owed[x]
  <2>1. owed[s] + 1 \in Int
    BY <1>3
  <2>2. owed' = [owed EXCEPT ![s] = owed[s] + 1]
    BY <1>2 DEF IsrPost
  <2> QED
    BY <1>1, <2>1, <2>2, OwedChange
<1>11. NAME' = IF d THEN NULL ELSE NAME
  BY <1>2, <1>4 DEF IsrPost
<1>12. /\ Settled(k') /\ Woken(s, k')
       /\ k'.MY_QUEUE = k.MY_QUEUE /\ k'.BOOSTED = k.BOOSTED
  <2>1. PICK v : v = PostReady(s)
    OBVIOUS
  <2>2. /\ Core(v) /\ v.MY_QUEUE = k.MY_QUEUE /\ v.BOOSTED = k.BOOSTED /\ Woken(s, v)
    BY <1>3, <2>1, PostReadyCore
  <2>3. k' = IsrReturn(v)
    BY <1>2, <2>1 DEF IsrPost
  <2>4. Settled(k') /\ OnlySwitched(v, k')
    BY <2>2, <2>3, SwitchSettles
  <2>5. k'.TD_STATE = v.TD_STATE /\ k'.INFO = v.INFO
    BY <2>4 DEF OnlySwitched
  <2>6. Woken(s, k')
    <3>1. CASE Blocked(s) = <<>>
      BY <2>2, <2>5, <3>1 DEF Woken
    <3>2. CASE Blocked(s) # <<>>
      BY <2>2, <2>5, <3>2 DEF Woken
    <3> QED
      BY <3>1, <3>2
  <2> QED
    BY <2>2, <2>4, <2>6 DEF OnlySwitched
<1>13. PostStep(s)
  BY <1>1, <1>3, <1>5, <1>7, <1>9, <1>10, <1>12 DEF PostStep
<1>14. /\ \A t \in Task : StateOK(t)'
       /\ \A x \in Semaphore : Waiters(x)' = Waiters(x)
       /\ owed'[s] = sem'[s].COUNT + Cardinality(InTransit(s)')
       /\ \A t \in Task : t \notin Waiters(s) =>
             k'.TD_STATE[t] = k.TD_STATE[t] /\ k'.INFO[t] = k.INFO[t]
  BY <1>13, Posted
<1>15. /\ sem[s].block = "allocated" /\ Made(s) /\ NAME = s
       /\ \A x \in Semaphore : x # s => sem[x].block # "allocated"
       /\ s # NULL /\ \A x \in Semaphore : x # NULL
  BY <1>3, SemAssumption DEF Inv, SemOK
<1>16. /\ \A t \in Task, x \in Semaphore : Share(t, x)' = Share(t, x)
       /\ \A x \in Semaphore : Owners(x)' = Owners(x)
  BY <1>1 DEF Share, Owners
<1>17. \A x \in Semaphore : Made(x) => Made(x)'
  BY <1>1, <1>5, <1>7, <1>9 DEF Made
<1>18. \A x \in Semaphore : /\ sem'[x].POLICY = sem[x].POLICY
                            /\ sem'[x].MAX_COUNT = sem[x].MAX_COUNT
                            /\ (sem[x].block # "unused" => sem'[x].block # "unused")
                            /\ (x # s => sem'[x].VALID = sem[x].VALID)
  BY <1>5, <1>7, <1>9
<1>19. ASSUME NEW t \in Task
       PROVE  ConnOK(t)'
  <2>1. /\ ConnOK(t) /\ conn[t].SEM_PTR \in Semaphore \cup {NULL}
        /\ conn[t].POST_STATE \in Nat /\ conn[t].VALID \in BOOLEAN
    BY <1>1, Fields DEF Inv
  <2>2. conn[t].POST_STATE > 0 => conn[t].VALID
    BY <2>1 DEF ConnOK, NoConnection
  <2>3. conn[t].POST_STATE > 0 => conn[t].SEM_PTR # s
    BY <1>3, <2>1 DEF ConnOK
  <2> QED
    BY <1>1, <1>17, <1>18, <2>1, <2>2, <2>3 DEF ConnOK, Strict
<1>20. ASSUME NEW t \in Task
       PROVE  CallOK(t)'
  <2>1. CallOK(t)
    BY DEF Inv
  <2>2. ~call[t].destroying
    BY <1>3, <1>15, <2>1 DEF CallOK
  <2>3. call[t].at # "create"
    BY <1>15, <2>1 DEF CallOK, FreshOK, Made
  <2> QED
    BY <1>1, <1>17, <1>18, <2>1, <2>2, <2>3 DEF CallOK
<1>21. \A t \in Task : BoostOK(t)'
  BY <1>1, <1>12 DEF Inv, BoostOK
<1>22. ASSUME NEW x \in Semaphore
       PROVE  QueuesOK(x)' /\ TokensOK(x)' /\ SemOK(x)'
  <2>1. CASE x = s
    <3>1. QueuesOK(s)'
      BY <1>3, <1>5, <1>7, <1>9, <1>14, <1>16 DEF QueuesOK
    <3>2. ~Strict(s)'
      BY <1>3, <1>18 DEF Strict
    <3>3. TokensOK(s)'
      BY <1>14, <3>2 DEF TokensOK
    <3>4. sem'[s].VALID => sem'[s].block = "allocated" /\ Made(s)'
      <4>1. d => ~sem'[s].VALID
        BY <1>4, <1>5, <1>7, <1>9 DEF Destroys
      <4> QED
        BY <1>5, <1>7, <1>9, <1>15, <1>17, <4>1
    <3>5. NAME' = s <=> sem'[s].block = "allocated"
      BY <1>5, <1>7, <1>9, <1>11, <1>15
    <3>6. sem'[s].block # "unused" /\ sem'[s].WAITING_TASKS = sem[s].WAITING_TASKS
      BY <1>5, <1>7, <1>9, <1>15, <1>18
    <3>7. SemOK(s)'
      BY <1>3, <1>18, <3>2, <3>4, <3>5, <3>6 DEF SemOK
    <3> QED
      BY <2>1, <3>1, <3>3, <3>7
  <2>2. CASE x # s
    <3>1. sem'[x] = sem[x] /\ SemOK(x) /\ QueuesOK(x) /\ TokensOK(x) /\ owed'[x] = owed[x]
      BY <1>9, <1>10, <2>2 DEF Inv
    <3>2. InTransit(x)' = InTransit(x)
      <4>1. \A t \in Task : call[t].at = "wait" /\ call[t].s = x =>
                               /\ k'.TD_STATE[t] = k.TD_STATE[t] /\ k'.INFO[t] = k.INFO[t]
        BY <1>14, <2>2 DEF Waiters
      <4> QED
        BY <1>1, <4>1, TransitKept
    <3>3. QueuesOK(x)'
      BY <1>14, <1>16, <3>1, QueuesKept
    <3>4. TokensOK(x)'
      BY <1>16, <3>1, <3>2, TokensKept
    <3>5. SemOK(x)'
      BY <1>11, <1>15, <1>17, <2>2, <3>1, <3>2 DEF SemOK, Strict
    <3> QED
      BY <3>3, <3>4, <3>5
  <2> QED
    BY <2>1, <2>2
<1>23. Core(k') /\ k' \in Kernel
  BY <1>12 DEF Settled, Core, KInv
<1>24. TypeOK'
  BY <1>1, <1>9, <1>10, <1>11, <1>23 DEF TypeOK
<1>25. call'[Idle] = NoCall /\ conn'[Idle] = NoConnection
  BY <1>1 DEF Inv
<1> QED
  BY <1>12, <1>14, <1>19, <1>20, <1>21, <1>22, <1>23, <1>24, <1>25, Parts

(***************************************************************************)
(* A wait that finds no token.                                              *)
(***************************************************************************)
\* What is the least of the owners' priorities.
LEMMA OwnersPriorityLeast ==
    ASSUME Inv, NEW s \in Semaphore
    PROVE  /\ OwnersPriority(s) \in Nat
           /\ \A t \in Elems(sem[s].OWNING_TASKS) : OwnersPriority(s) <= k.MY_QUEUE[t]
           /\ \/ OwnersPriority(s) = LOWEST_TASK_PRIORITY
              \/ \E t \in Elems(sem[s].OWNING_TASKS) : OwnersPriority(s) = k.MY_QUEUE[t]
<1>1. PICK q \in Seq(Task) : q = sem[s].OWNING_TASKS
  BY Fields DEF Inv
<1>2. PICK P : P = {k.MY_QUEUE[t] : t \in Elems(q)} \cup {LOWEST_TASK_PRIORITY}
  OBVIOUS
<1>3. Elems(q) \subseteq Task /\ k.MY_QUEUE \in [Task -> Priority]
  BY <1>1, EmptyQueue, KernelFields DEF Inv, TypeOK
<1>4. P \in SUBSET Nat /\ P # {}
  <2>1. \A t \in Elems(q) : k.MY_QUEUE[t] \in Nat
    BY <1>3, Priorities
  <2>2. LOWEST_TASK_PRIORITY \in Nat
    BY KernelAssumption
  <2> QED
    BY <1>2, <2>1, <2>2
<1>5. \E p \in P : \A r \in P : p <= r
  BY <1>4, LeastNatural
<1>6. PICK m : m = OwnersPriority(s)
  OBVIOUS
<1>7. m = CHOOSE p \in P : \A r \in P : p <= r
  BY <1>1, <1>2, <1>6 DEF OwnersPriority
<1>8. m \in P /\ \A r \in P : m <= r
  BY <1>5, <1>7
<1> QED
  BY <1>1, <1>2, <1>4, <1>6, <1>8

\* The owner that inherits is on the queue, and is less urgent than the priority it
\* inherits.
LEMMA UrgentOwnerOwns ==
    ASSUME Inv, NEW s \in Semaphore, sem[s].OWNING_TASKS # <<>>
    PROVE  /\ UrgentOwner(s) \in Elems(sem[s].OWNING_TASKS)
           /\ k.MY_QUEUE[UrgentOwner(s)] >= OwnersPriority(s)
<1>1. PICK q \in Seq(Task) : q = sem[s].OWNING_TASKS
  BY Fields DEF Inv
<1>2. PICK m \in Nat : m = OwnersPriority(s)
  BY OwnersPriorityLeast
<1>3. /\ \A t \in Elems(q) : m <= k.MY_QUEUE[t]
      /\ m = LOWEST_TASK_PRIORITY \/ \E t \in Elems(q) : m = k.MY_QUEUE[t]
  BY <1>1, <1>2, OwnersPriorityLeast
<1>4. Elems(q) \subseteq Task /\ k.MY_QUEUE \in [Task -> Priority]
  BY <1>1, EmptyQueue, KernelFields DEF Inv, TypeOK
<1>5. UrgentOwner(s) \in Elems(q)
  <2>1. CASE m = LOWEST_TASK_PRIORITY
    <3>1. UrgentOwner(s) = Head(q)
      BY <1>1, <1>2, <2>1 DEF UrgentOwner
    <3> QED
      BY <1>1, <3>1, EmptyQueue
  <2>2. CASE m # LOWEST_TASK_PRIORITY
    <3>1. PICK I : I = {i \in 1 .. Len(q) : k.MY_QUEUE[q[i]] = m}
      OBVIOUS
    <3>2. PICK j : j = CHOOSE i \in I : \A x \in I : i <= x
      OBVIOUS
    <3>3. UrgentOwner(s) = q[j]
      BY <1>1, <1>2, <2>2, <3>1, <3>2 DEF UrgentOwner
    <3>4. I \in SUBSET Nat /\ I # {}
      BY <1>3, <2>2, <3>1 DEF Elems
    <3>5. \E i \in I : \A x \in I : i <= x
      BY <3>4, LeastNatural
    <3>6. j \in I
      BY <3>2, <3>5
    <3> QED
      BY <3>1, <3>3, <3>6 DEF Elems
  <2> QED
    BY <2>1, <2>2
<1>6. k.MY_QUEUE[UrgentOwner(s)] \in Nat
  BY <1>4, <1>5, Priorities
<1> QED
  BY <1>1, <1>2, <1>3, <1>5, <1>6

\* The kernel after the boost of an owner, if there is one: the caller c goes on.
LEMMA BoostOwnerCore ==
    ASSUME Inv, NEW c \in Task, c = td, c # Idle, call[c].at = "none",
           conn[c].POST_STATE = 0, NEW s \in Semaphore, sem[s].VALID
    PROVE  LET v == BoostOwner(s)
               o == UrgentOwner(s)
           IN  /\ Core(v) /\ v.ACTIVE_PTR = c
               /\ v.TD_STATE = k.TD_STATE /\ v.INFO = k.INFO
               /\ Inherits(s) =>
                     /\ o \in Task /\ o # c /\ o # Idle
                     /\ conn[o].SEM_PTR = s /\ conn[o].POST_STATE > 0
                     /\ k.MY_QUEUE[c] <= k.MY_QUEUE[o]
                     /\ v.MY_QUEUE = [k.MY_QUEUE EXCEPT ![o] = k.MY_QUEUE[c]]
                     /\ v.BOOSTED = [k.BOOSTED EXCEPT ![o] = @ + 1]
               /\ ~Inherits(s) => v.MY_QUEUE = k.MY_QUEUE /\ v.BOOSTED = k.BOOSTED
<1> DEFINE v == BoostOwner(s)
           o == UrgentOwner(s)
<1>1. /\ TypeOK /\ Core(k) /\ Settled(k) /\ BoostOK(c) /\ QueuesOK(s)
      /\ conn[Idle] = NoConnection /\ k.ACTIVE_PTR = c
      /\ k.MY_QUEUE \in [Task -> Priority] /\ k.HOME_QUEUE = InitPriority
  BY KernelFields DEF Inv, TypeOK, td, Core
<1>2. CASE ~Inherits(s)
  <2>1. v = k
    BY <1>2 DEF BoostOwner
  <2> HIDE DEF v, o
  <2> QED
    BY <1>1, <1>2, <2>1 DEF v, o
<1>3. CASE Inherits(s)
  <2>1. sem[s].OWNING_TASKS # <<>> /\ OwnersPriority(s) > InitPriority[c]
    BY <1>1, <1>3 DEF Inherits, td
  <2>2. o \in Elems(sem[s].OWNING_TASKS) /\ k.MY_QUEUE[o] >= OwnersPriority(s)
    BY <2>1, UrgentOwnerOwns
  <2> HIDE DEF o
  <2>3. o \in Owners(s)
    BY <1>1, <2>2 DEF QueuesOK
  <2>4. o \in Task /\ Share(o, s) > 0
    BY <2>3 DEF Owners
  <2>5. conn[o].SEM_PTR = s /\ conn[o].POST_STATE > 0
    BY <2>4 DEF Share
  <2>6. o # c /\ o # Idle
    BY <1>1, <2>5 DEF NoConnection
  <2>7. k.MY_QUEUE[c] = InitPriority[c]
    <3>1. k.BOOSTED[c] = 0
      <4>1. conn[c].BOOSTED \in Nat
        BY <1>1, Fields
      <4> QED
        BY <1>1, <4>1 DEF BoostOK
    <3> QED
      BY <1>1, <3>1 DEF BoostOK
  <2>8. k.MY_QUEUE[c] \in Nat /\ k.MY_QUEUE[o] \in Nat /\ OwnersPriority(s) \in Nat
    BY <1>1, <2>4, Priorities, OwnersPriorityLeast
  <2>9. k.MY_QUEUE[c] <= k.MY_QUEUE[o]
    BY <2>1, <2>2, <2>7, <2>8
  <2>10. v = sched_boost_priority_internal(k, o, k.MY_QUEUE[c])
    BY <1>1, <1>3, <2>1, <2>7 DEF BoostOwner, td, o
  <2>11. /\ Settled(v) /\ v.ACTIVE_PTR = c
         /\ v.TD_STATE = k.TD_STATE /\ v.INFO = k.INFO
         /\ v.MY_QUEUE = [k.MY_QUEUE EXCEPT ![o] = k.MY_QUEUE[c]]
         /\ v.BOOSTED = [k.BOOSTED EXCEPT ![o] = @ + 1]
    BY <1>1, <2>4, <2>6, <2>10, BoostSettles
  <2> HIDE DEF v
  <2>12. Core(v)
    BY <2>11 DEF Settled
  <2> QED
    BY <1>3, <2>4, <2>5, <2>6, <2>9, <2>11, <2>12 DEF v, o
<1> QED
  BY <1>2, <1>3

\* The waiter is put on the queue, behind the waiters that are as urgent.
LEMMA WaitInsertFields ==
    ASSUME Inv, NEW c \in Task, c = td, call[c].at = "none", conn[c].POST_STATE = 0,
           NEW s \in Semaphore, sem[s].VALID
    PROVE  /\ WaitInsert(s) \in Seq(Task) /\ NoDuplicates(WaitInsert(s))
           /\ Elems(WaitInsert(s)) = Waiters(s) \cup {c}
           /\ "PRIORITY_QUEUEING" \in sem[s].POLICY => Sorted(WaitInsert(s), InitPriority)
<1>1. PICK q \in Seq(Task) : q = sem[s].WAITING_TASKS
  BY Fields DEF Inv
<1>2. /\ NoDuplicates(q) /\ Elems(q) = Waiters(s) /\ TypeOK /\ SemOK(s)
  BY <1>1 DEF Inv, QueuesOK
<1>3. c \notin Waiters(s)
  BY DEF Waiters
<1>4. PICK w : w = WaitInsert(s)
  OBVIOUS
<1>5. CASE "PRIORITY_QUEUEING" \in sem[s].POLICY
  <2>1. PICK S : S = {t \in Task : k.MY_QUEUE[t] > k.MY_QUEUE[c]}
    OBVIOUS
  <2>2. w = InsertBefore(q, c, S)
    BY <1>1, <1>4, <1>5, <2>1 DEF WaitInsert
  <2>3. /\ w \in Seq(Task) /\ Elems(w) = Elems(q) \cup {c}
        /\ NoDuplicates(w)
    BY <1>2, <1>3, <2>2, InsertElems
  <2>4. PICK T : T = Elems(q) \cup {c}
    OBVIOUS
  <2>5. \A t \in T : k.MY_QUEUE[t] = InitPriority[t] /\ t \in Task
    <3>1. ASSUME NEW t \in T
          PROVE  t \in Task /\ conn[t].POST_STATE = 0 /\ call[t].at # "unboosted"
      <4>1. CASE t = c
        BY <4>1
      <4>2. CASE t \in Waiters(s)
        <5>1. t \in Task /\ call[t].at = "wait"
          BY <4>2 DEF Waiters
        <5>2. CallOK(t)
          BY <5>1 DEF Inv
        <5> QED
          BY <5>1, <5>2 DEF CallOK
      <4> QED
        BY <1>2, <2>4, <4>1, <4>2
    <3>2. ASSUME NEW t \in T
          PROVE  k.MY_QUEUE[t] = InitPriority[t]
      <4>1. BoostOK(t) /\ conn[t].BOOSTED \in Nat
        BY <1>2, <3>1, Fields DEF Inv
      <4> QED
        BY <3>1, <4>1 DEF BoostOK
    <3> QED
      BY <3>1, <3>2
  <2>6. PICK f \in [T -> Int] : f = [t \in T |-> InitPriority[t]]
    <3>1. \A t \in T : InitPriority[t] \in Int
      BY <2>5, KernelAssumption
    <3> QED
      BY <3>1
  <2>7. q \in Seq(T) /\ c \in T
    <3>1. \A i \in 1 .. Len(q) : q[i] \in T
      BY <2>4 DEF Elems
    <3> QED
      BY <2>4, <3>1
  <2>8. Sorted(q, InitPriority)
    BY <1>1, <1>2, <1>5 DEF SemOK
  <2>9. Sorted(q, f)
    <3>1. \A i \in 1 .. Len(q) : f[q[i]] = InitPriority[q[i]]
      BY <2>6, <2>7
    <3> QED
      BY <2>8, <3>1 DEF Sorted
  <2>10. \A u \in T : IF u \in S THEN f[c] <= f[u] ELSE f[u] <= f[c]
    <3>1. ASSUME NEW u \in T
          PROVE  IF u \in S THEN f[c] <= f[u] ELSE f[u] <= f[c]
      <4>1. f[u] \in Int /\ f[c] \in Int
        BY <2>6, <2>7
      <4>2. f[u] = k.MY_QUEUE[u] /\ f[c] = k.MY_QUEUE[c] /\ u \in Task
        BY <2>5, <2>6, <2>7
      <4>3. u \in S <=> f[u] > f[c]
        BY <2>1, <4>2
      <4> QED
        BY <4>1, <4>3
    <3> QED
      BY <3>1
  <2>11. Sorted(w, f)
    BY <2>2, <2>7, <2>9, <2>10, InsertSorted
  <2>12. Sorted(w, InitPriority)
    <3>1. \A i \in 1 .. Len(w) : f[w[i]] = InitPriority[w[i]]
      <4>1. \A i \in 1 .. Len(w) : w[i] \in T
        BY <2>3, <2>4 DEF Elems
      <4> QED
        BY <2>6, <4>1
    <3> QED
      BY <2>11, <3>1 DEF Sorted
  <2> QED
    BY <1>2, <1>4, <2>3, <2>12
<1>6. CASE "PRIORITY_QUEUEING" \notin sem[s].POLICY
  <2>1. w = Append(q, c)
    BY <1>1, <1>4, <1>6 DEF WaitInsert
  <2> QED
    BY <1>2, <1>3, <1>4, <1>6, <2>1, AppendElems
<1> QED
  BY <1>5, <1>6

\* The kernel when task c has blocked, for n ticks or for as long as it takes.
LEMMA BlockedKernel ==
    ASSUME Inv, NEW c \in Task, c = td, c # Idle, call[c].at = "none",
           NEW n \in 0 .. MaxDelay, WaitBlock(n), NEW s \in Semaphore, s = conn[c].SEM_PTR
    PROVE  /\ Settled(k')
           /\ k'.TD_STATE = [k.TD_STATE EXCEPT ![c] = "SEM_BLOCKED"]
           /\ k'.INFO = [k.INFO EXCEPT ![c] = "SEM_WANT_SEMAPHORE"]
           /\ k'.MY_QUEUE = BoostOwner(s).MY_QUEUE /\ k'.BOOSTED = BoostOwner(s).BOOSTED
<1>1. PICK v : v = BoostOwner(s)
  OBVIOUS
<1>2. sem[s].VALID /\ conn[c].POST_STATE = 0
  BY DEF WaitBlock
<1>3. Core(v) /\ v.ACTIVE_PTR = c /\ v.TD_STATE = k.TD_STATE /\ v.INFO = k.INFO
  BY <1>1, <1>2, BoostOwnerCore
<1>4. PICK j : j = [v EXCEPT !.TD_STATE[c] = "SEM_BLOCKED",
                             !.INFO[c] = "SEM_WANT_SEMAPHORE"]
  OBVIOUS
<1>5. k' = IF n = 0 THEN TaskBlock(j) ELSE time_delay_internal(j, c, n)
  BY <1>1, <1>4 DEF WaitBlock
<1>6. /\ v \in Kernel /\ v.TD_STATE \in [Task -> State] /\ v.INFO \in [Task -> Info]
      /\ "SEM_BLOCKED" \in State /\ "SEM_WANT_SEMAPHORE" \in Info
  BY <1>3, KernelFields DEF Core, KInv, State, Info
<1>7. PICK ts \in [Task -> State] : ts = [v.TD_STATE EXCEPT ![c] = "SEM_BLOCKED"]
  BY <1>6
<1>8. PICK i \in [Task -> Info] : i = [v.INFO EXCEPT ![c] = "SEM_WANT_SEMAPHORE"]
  BY <1>6
<1>9. j = [v EXCEPT !.TD_STATE = ts, !.INFO = i]
  BY <1>4, <1>6, <1>7, <1>8 DEF Kernel
<1>10. j \in Kernel
  BY <1>6, <1>9 DEF Kernel
<1>11. Blocking(v, j, c, "SEM_BLOCKED", "SEM_WANT_SEMAPHORE")
  BY <1>7, <1>8, <1>9 DEF Blocking
<1>12. Settled(k') /\ Marked(v, k', c, "SEM_BLOCKED", "SEM_WANT_SEMAPHORE")
  <2>1. CASE n = 0
    BY <1>3, <1>5, <1>6, <1>10, <1>11, <2>1, BlockSettles
  <2>2. CASE n # 0
    <3>1. n \in Int
      OBVIOUS
    <3> QED
      BY <1>3, <1>5, <1>6, <1>10, <1>11, <2>2, <3>1, DelaySettles
  <2> QED
    BY <2>1, <2>2
<1> QED
  BY <1>1, <1>3, <1>12 DEF Marked

\* A wait that finds no token.
LEMMA WaitBlockInv ==
    ASSUME Inv, NEW n \in 0 .. MaxDelay, WaitBlock(n)
    PROVE  Inv'
<1>1. PICK c \in Task : c = td
  BY Fields DEF Inv
<1>2. /\ TypeOK /\ c # Idle /\ call[c].at = "none" /\ ~call[c].close /\ conn[c].VALID
      /\ conn[c].POST_STATE = 0 /\ NAME' = NAME /\ owed' = owed
      /\ k.TD_STATE[c] = "READY"
  <2>1. At("none")
    BY DEF WaitBlock, Free
  <2> QED
    BY <1>1, <2>1, Here DEF WaitBlock, Free, At, Inv
<1>3. ConnOK(c) /\ CallOK(c) /\ BoostOK(c)
  BY DEF Inv
<1>4. PICK s \in Semaphore : s = conn[c].SEM_PTR
  BY <1>2, <1>3 DEF ConnOK
<1>5. /\ sem[s].VALID /\ sem[s].COUNT = 0 /\ sem[s] \in SemStruct
      /\ QueuesOK(s) /\ TokensOK(s) /\ SemOK(s)
  BY <1>1, <1>2, <1>4 DEF WaitBlock, TypeOK, Inv
<1>6. PICK w \in Seq(Task) : w = WaitInsert(s)
  BY <1>1, <1>2, <1>5, WaitInsertFields
<1>7. /\ NoDuplicates(w) /\ Elems(w) = Waiters(s) \cup {c}
      /\ "PRIORITY_QUEUEING" \in sem[s].POLICY => Sorted(w, InitPriority)
  BY <1>1, <1>2, <1>5, <1>6, WaitInsertFields
<1>8. PICK r : r = [sem[s] EXCEPT !.WAITING_TASKS = w]
  OBVIOUS
<1>9. /\ r \in SemStruct /\ r.block = sem[s].block /\ r.POLICY = sem[s].POLICY
      /\ r.COUNT = sem[s].COUNT /\ r.MAX_COUNT = sem[s].MAX_COUNT /\ r.VALID = sem[s].VALID
      /\ r.WAITING_TASKS = w /\ r.OWNING_TASKS = sem[s].OWNING_TASKS
  BY <1>5, <1>8 DEF SemStruct
<1>10. sem' = [sem EXCEPT ![s] = r]
  BY <1>1, <1>4, <1>6, <1>8 DEF WaitBlock
<1>11. /\ sem' \in [Semaphore -> SemStruct] /\ sem'[s] = r
       /\ \A x \in Semaphore : x # s => sem'[x] = sem[x]
  BY <1>2, <1>9, <1>10, SemChange
<1>12. Goto("wait", s, FALSE)
  BY <1>1, <1>4 DEF WaitBlock
<1>13. /\ call' \in [Task -> Calls]
       /\ \A t \in Task : t # c => call'[t] = call[t]
       /\ call'[c].at = "wait" /\ call'[c].s = s /\ call'[c].destroying = FALSE
       /\ call'[c].close = call[c].close
  BY <1>1, <1>2, <1>12, GotoFields DEF Places
<1>14. /\ Settled(k')
       /\ k'.TD_STATE = [k.TD_STATE EXCEPT ![c] = "SEM_BLOCKED"]
       /\ k'.INFO = [k.INFO EXCEPT ![c] = "SEM_WANT_SEMAPHORE"]
       /\ k'.MY_QUEUE = BoostOwner(s).MY_QUEUE /\ k'.BOOSTED = BoostOwner(s).BOOSTED
  BY <1>1, <1>2, <1>4, BlockedKernel
<1>15. PICK o : o = UrgentOwner(s)
  OBVIOUS
<1>16. /\ Inherits(s) =>
             /\ o \in Task /\ o # c /\ o # Idle
             /\ conn[o].SEM_PTR = s /\ conn[o].POST_STATE > 0
             /\ k.MY_QUEUE[c] <= k.MY_QUEUE[o]
             /\ k'.MY_QUEUE = [k.MY_QUEUE EXCEPT ![o] = k.MY_QUEUE[c]]
             /\ k'.BOOSTED = [k.BOOSTED EXCEPT ![o] = @ + 1]
       /\ ~Inherits(s) => k'.MY_QUEUE = k.MY_QUEUE /\ k'.BOOSTED = k.BOOSTED
  <2>1. PICK v : v = BoostOwner(s)
    OBVIOUS
  <2>2. /\ Inherits(s) =>
              /\ o \in Task /\ o # c /\ o # Idle
              /\ conn[o].SEM_PTR = s /\ conn[o].POST_STATE > 0
              /\ k.MY_QUEUE[c] <= k.MY_QUEUE[o]
              /\ v.MY_QUEUE = [k.MY_QUEUE EXCEPT ![o] = k.MY_QUEUE[c]]
              /\ v.BOOSTED = [k.BOOSTED EXCEPT ![o] = @ + 1]
        /\ ~Inherits(s) => v.MY_QUEUE = k.MY_QUEUE /\ v.BOOSTED = k.BOOSTED
    BY <1>1, <1>2, <1>5, <1>15, <2>1, BoostOwnerCore
  <2>3. k'.MY_QUEUE = v.MY_QUEUE /\ k'.BOOSTED = v.BOOSTED
    BY <1>14, <2>1
  <2> QED
    BY <2>2, <2>3
<1>17. /\ k \in Kernel /\ k.MY_QUEUE \in [Task -> Priority] /\ k.BOOSTED \in [Task -> Nat]
       /\ k.TD_STATE \in [Task -> State] /\ k.INFO \in [Task -> Info]
  BY <1>2, KernelFields DEF TypeOK
<1>18. /\ conn' \in [Task -> Connection]
       /\ \A t \in Task : /\ conn'[t].VALID = conn[t].VALID
                          /\ conn'[t].SEM_PTR = conn[t].SEM_PTR
                          /\ conn'[t].POST_STATE = conn[t].POST_STATE
                          /\ ~(Inherits(s) /\ t = o) => conn'[t] = conn[t]
       /\ Inherits(s) => conn'[o].BOOSTED = conn[o].BOOSTED + 1
  <2>1. CASE Inherits(s)
    <3>1. o \in Task /\ conn[o] \in Connection /\ conn[o].BOOSTED \in Nat
      BY <1>2, <1>16, <2>1, Fields DEF TypeOK
    <3>2. PICK m \in Nat : m = conn[o].BOOSTED + 1
      BY <3>1
    <3>3. PICK d : d = [conn[o] EXCEPT !.BOOSTED = m]
      OBVIOUS
    <3>4. /\ d \in Connection /\ d.VALID = conn[o].VALID /\ d.SEM_PTR = conn[o].SEM_PTR
          /\ d.POST_STATE = conn[o].POST_STATE /\ d.BOOSTED = m
      BY <3>1, <3>3 DEF Connection
    <3>5. conn' = [conn EXCEPT ![o] = d]
      BY <1>1, <1>4, <1>15, <2>1, <3>2, <3>3 DEF WaitBlock
    <3>6. /\ conn' \in [Task -> Connection] /\ conn'[o] = d
          /\ \A t \in Task : t # o => conn'[t] = conn[t]
      BY <1>2, <3>1, <3>4, <3>5, ConnChange
    <3> QED
      BY <2>1, <3>2, <3>4, <3>6
  <2>2. CASE ~Inherits(s)
    <3>1. conn' = conn
      BY <1>1, <1>4, <2>2 DEF WaitBlock
    <3> QED
      BY <1>2, <2>2, <3>1 DEF TypeOK
  <2> QED
    BY <2>1, <2>2
<1>19. \A t \in Task, x \in Semaphore : Share(t, x)' = Share(t, x)
  BY <1>18 DEF Share
<1>20. Touched(c, s)
  BY <1>2, <1>5, <1>9, <1>11, <1>13 DEF Touched
<1>21. \A x \in Semaphore : (Made(x)' <=> Made(x)) /\ sem'[x].block = sem[x].block
  BY <1>20, TouchedMade
<1>22. ASSUME NEW t \in Task, t # c
       PROVE  ConnOK(t)' /\ CallOK(t)'
  <2>1. sem'[s].VALID
    BY <1>5, <1>9, <1>11
  <2>2. conn'[t] = conn[t] \/ conn[t].VALID
    <3>1. ASSUME Inherits(s), t = o
          PROVE  conn[t].VALID
      <4>1. ConnOK(t) /\ conn[t].POST_STATE > 0 /\ conn[t].VALID \in BOOLEAN
        BY <1>2, <1>16, <3>1, Fields DEF Inv
      <4> QED
        BY <4>1 DEF ConnOK, NoConnection
    <3> QED
      BY <1>18, <3>1
  <2> QED
    BY <1>18, <1>20, <1>22, <2>1, <2>2, TouchedTask
<1>23. conn'[c] = conn[c]
  BY <1>16, <1>18
<1>24. ConnOK(c)'
  BY <1>2, <1>3, <1>4, <1>21, <1>23 DEF ConnOK
<1>25. CallOK(c)'
  <2>1. sem'[s].block # "unused"
    BY <1>5, <1>9, <1>11 DEF SemOK
  <2> QED
    BY <1>2, <1>4, <1>13, <1>23, <2>1 DEF CallOK
<1>26. ASSUME NEW t \in Task
       PROVE  BoostOK(t)'
  <2>1. BoostOK(t) /\ CallOK(t) /\ InitPriority[t] \in Nat
    BY KernelAssumption DEF Inv
  <2>2. call'[t].at = "unboosted" <=> call[t].at = "unboosted"
    BY <1>2, <1>13
  <2>3. CASE Inherits(s) /\ t = o
    <3>1. /\ k'.MY_QUEUE[t] = k.MY_QUEUE[c] /\ k'.BOOSTED[t] = k.BOOSTED[t] + 1
      BY <1>16, <1>17, <2>3
    <3>2. /\ k.MY_QUEUE[c] \in Nat /\ k.MY_QUEUE[t] \in Nat /\ k.BOOSTED[t] \in Nat
      BY <1>17, Priorities
    <3>3. call[t].at # "unboosted"
      BY <1>16, <2>1, <2>3 DEF CallOK
    <3>4. k'.MY_QUEUE[t] <= InitPriority[t] /\ k'.BOOSTED[t] > 0
      BY <1>16, <2>1, <2>3, <3>1, <3>2 DEF BoostOK
    <3>5. k'.BOOSTED[t] = conn'[t].BOOSTED
      BY <1>18, <2>1, <2>3, <3>1, <3>3 DEF BoostOK
    <3>6. conn'[t].POST_STATE > 0
      BY <1>16, <1>18, <2>3
    <3>7. k'.BOOSTED[t] # 0
      BY <3>1, <3>2
    <3> QED
      BY <2>2, <3>3, <3>4, <3>5, <3>6, <3>7 DEF BoostOK
  <2>4. CASE ~(Inherits(s) /\ t = o)
    <3>1. k'.MY_QUEUE[t] = k.MY_QUEUE[t] /\ k'.BOOSTED[t] = k.BOOSTED[t]
      BY <1>16, <1>17, <2>4
    <3>2. conn'[t] = conn[t]
      BY <1>18, <2>4
    <3> QED
      BY <2>1, <2>2, <3>1, <3>2 DEF BoostOK
  <2> QED
    BY <2>3, <2>4
<1>27. /\ k'.TD_STATE[c] = "SEM_BLOCKED" /\ k'.INFO[c] = "SEM_WANT_SEMAPHORE"
       /\ \A t \in Task : t # c => k'.TD_STATE[t] = k.TD_STATE[t] /\ k'.INFO[t] = k.INFO[t]
  BY <1>14, <1>17
<1>28. \A x \in Semaphore : sem'[x].VALID = sem[x].VALID /\ sem'[x].COUNT = sem[x].COUNT
  BY <1>9, <1>11
<1>29. ASSUME NEW t \in Task
       PROVE  StateOK(t)'
  <2>1. CASE t = c
    BY <1>5, <1>13, <1>27, <1>28, <2>1 DEF StateOK
  <2>2. CASE t # c
    <3>1. StateOK(t) /\ CallOK(t) /\ call'[t] = call[t]
      BY <1>13, <2>2 DEF Inv
    <3>2. k.TD_STATE[t] = "SEM_BLOCKED" => call[t].s \in Semaphore
      BY <3>1 DEF StateOK, CallOK
    <3> QED
      BY <1>27, <1>28, <2>2, <3>1, <3>2 DEF StateOK
  <2> QED
    BY <2>1, <2>2
<1>30. Waiters(s)' = Waiters(s) \cup {c}
  BY <1>13 DEF Waiters
<1>31. InTransit(s)' = InTransit(s)
  <2>1. ASSUME NEW t \in Task
        PROVE  (/\ call'[t].at = "wait" /\ call'[t].s = s
                /\ k'.TD_STATE[t] # "SEM_BLOCKED" /\ k'.INFO[t] = "SEM_AVAILABLE")
               <=> (/\ call[t].at = "wait" /\ call[t].s = s
                    /\ k.TD_STATE[t] # "SEM_BLOCKED" /\ k.INFO[t] = "SEM_AVAILABLE")
    BY <1>2, <1>13, <1>27
  <2> QED
    BY <2>1, TransitKept
<1>32. ASSUME NEW x \in Semaphore
       PROVE  QueuesOK(x)' /\ TokensOK(x)' /\ SemOK(x)'
  <2>1. CASE x = s
    <3>1. Owners(s)' = Owners(s)
      BY <1>19 DEF Owners
    <3>2. QueuesOK(s)'
      BY <1>5, <1>7, <1>9, <1>11, <1>30, <3>1 DEF QueuesOK
    <3>3. TokensOK(s)'
      BY <1>2, <1>5, <1>9, <1>11, <1>19, <1>31, TokensKept
    <3>4. SemOK(s)'
      <4>1. sem'[s].block = "allocated" /\ sem'[s].VALID
        BY <1>5, <1>9, <1>11 DEF SemOK
      <4> QED
        BY <1>2, <1>5, <1>7, <1>9, <1>11, <1>21, <4>1 DEF SemOK, Strict
    <3> QED
      BY <2>1, <3>2, <3>3, <3>4
  <2>2. CASE x # s
    <3>1. \A t \in Task : (call'[t].at = "wait" /\ call'[t].s = x) <=>
                          (call[t].at = "wait" /\ call[t].s = x)
      BY <1>2, <1>13, <2>2
    <3>2. \A t \in Task : call[t].at = "wait" /\ call[t].s = x =>
                             /\ k'.TD_STATE[t] = k.TD_STATE[t] /\ k'.INFO[t] = k.INFO[t]
      BY <1>2, <1>27
    <3> QED
      BY <1>19, <1>20, <2>2, <3>1, <3>2, TouchedSem
  <2> QED
    BY <2>1, <2>2
<1>33. Core(k') /\ k' \in Kernel
  BY <1>14 DEF Settled, Core, KInv
<1>34. TypeOK'
  BY <1>2, <1>11, <1>13, <1>18, <1>33 DEF TypeOK
<1>35. call'[Idle] = NoCall /\ conn'[Idle] = NoConnection
  <2>1. Idle \in Task /\ ~(Inherits(s) /\ Idle = o)
    BY <1>16, KernelAssumption
  <2> QED
    BY <1>2, <1>13, <1>18, <2>1 DEF Inv
<1> QED
  BY <1>14, <1>22, <1>24, <1>25, <1>26, <1>29, <1>32, <1>33, <1>34, <1>35, Parts

(***************************************************************************)
(* The theorems.                                                            *)
(***************************************************************************)
\* The kernel that the system starts with.
LEMMA BootSettled == Settled(Boot)
<1>1. PICK r : r = ReadyAll(Unbooted, BootOrder)
  OBVIOUS
<1>2. Boot = Dispatch(r)
  BY <1>1 DEF Boot, Unbooted
<1>3. KInv(r, {})
  BY <1>1, BootInv
<1>4. r.HOME_QUEUE = InitPriority
  <2>1. OnlySwitched(r, Boot)
    BY <1>2, <1>3, SwitchFrame DEF KInv
  <2> QED
    BY <2>1, BootWait DEF OnlySwitched
<1>5. r.PREEMPTION_DISABLED = {}
  <2>1. Unbooted \in Kernel
    BY UnbootedType
  <2>2. Unbooted.PREEMPTION_DISABLED = {}
    BY DEF Unbooted
  <2>3. PICK u \in Kernel : u = Unbooted
    BY <2>1
  <2>4. ReadyAll(u, BootOrder).PREEMPTION_DISABLED = u.PREEMPTION_DISABLED
    BY DEF ReadyAll, Kernel
  <2> QED
    BY <1>1, <2>2, <2>3, <2>4
<1> QED
  BY <1>2, <1>3, <1>4, <1>5, DispatchSettles

\* Every task is ready and in no call, and no semaphore exists.
LEMMA InitInv == Init => Inv
<1> SUFFICES ASSUME Init
             PROVE  Inv
  OBVIOUS
<1>1. PICK r : r = [block |-> "unused", VALID |-> FALSE, POLICY |-> {},
                    DELAYED_DESTROY |-> FALSE, COUNT |-> 0, MAX_COUNT |-> 0,
                    WAITING_TASKS |-> <<>>, OWNING_TASKS |-> <<>>]
  OBVIOUS
<1>2. /\ r \in SemStruct /\ r.block = "unused" /\ r.VALID = FALSE /\ r.POLICY = {}
      /\ r.WAITING_TASKS = <<>> /\ r.OWNING_TASKS = <<>>
  BY <1>1 DEF SemStruct, ValidPolicies
<1>3. /\ NoConnection \in Connection /\ NoConnection.VALID = FALSE
      /\ NoConnection.POST_STATE = 0 /\ NoConnection.BOOSTED = 0
  BY DEF NoConnection, Connection
<1>4. /\ NoCall \in Calls /\ NoCall.at = "none" /\ NoCall.s = NULL
      /\ NoCall.destroying = FALSE /\ NoCall.close = FALSE
  BY DEF NoCall, Calls
<1>5. /\ k = Boot /\ NAME = NULL
      /\ sem = [s \in Semaphore |-> r]
      /\ conn = [t \in Task |-> NoConnection]
      /\ call = [t \in Task |-> NoCall]
      /\ owed = [s \in Semaphore |-> 0]
  BY <1>1 DEF Init
<1>6. /\ \A s \in Semaphore : sem[s] = r
      /\ \A t \in Task : conn[t] = NoConnection /\ call[t] = NoCall
  BY <1>5
<1>7. Settled(k) /\ Core(k) /\ k \in Kernel
  BY <1>5, BootSettled DEF Settled, Core, KInv
<1>8. /\ k.TD_STATE = [t \in Task |-> "READY"] /\ k.MY_QUEUE = InitPriority
      /\ k.BOOSTED = [t \in Task |-> 0]
  BY <1>5, BootWait
<1>9. TypeOK
  BY <1>2, <1>3, <1>4, <1>5, <1>7 DEF TypeOK
<1>10. ASSUME NEW t \in Task
       PROVE  StateOK(t) /\ ConnOK(t) /\ CallOK(t) /\ BoostOK(t)
  <2>1. conn[t] = NoConnection /\ call[t] = NoCall /\ InitPriority[t] \in Nat
    BY <1>6, KernelAssumption
  <2>2. StateOK(t)
    BY <1>8 DEF StateOK
  <2>3. ConnOK(t)
    BY <1>3, <2>1 DEF ConnOK
  <2>4. CallOK(t)
    BY <1>4, <2>1 DEF CallOK
  <2>5. BoostOK(t)
    BY <1>3, <1>4, <1>8, <2>1 DEF BoostOK
  <2> QED
    BY <2>2, <2>3, <2>4, <2>5
<1>11. ASSUME NEW s \in Semaphore
       PROVE  QueuesOK(s) /\ TokensOK(s) /\ SemOK(s)
  <2>1. sem[s] = r /\ s # NULL
    BY <1>6, SemAssumption
  <2>2. Sorted(<<>>, InitPriority)
    BY DEF Sorted
  <2> QED
    BY <1>2, <1>5, <2>1, <2>2 DEF QueuesOK, TokensOK, SemOK, Strict
<1>12. call[Idle] = NoCall /\ conn[Idle] = NoConnection
  BY <1>6, KernelAssumption
<1> QED
  BY <1>7, <1>9, <1>10, <1>11, <1>12 DEF Inv

\* Every step preserves the invariant.
LEMMA NextInv == Inv /\ [Next]_vars => Inv'
<1> SUFFICES ASSUME Inv, [Next]_vars
             PROVE  Inv'
  OBVIOUS
<1>1. CASE \E s \in Semaphore, flags \in Policies, initial_count \in InitialCounts :
              CreateNamed(s, flags, initial_count)
  BY <1>1, CreateNamedInv
<1>2. CASE sem_create
  BY <1>2, CreateInv
<1>3. CASE OpenFind
  BY <1>3, OpenFindInv
<1>4. CASE sem_open
  BY <1>4, OpenInv
<1>5. CASE sem_wait
  BY <1>5, TakeInv
<1>6. CASE \E n \in 0 .. MaxDelay : WaitBlock(n)
  BY <1>6, WaitBlockInv
<1>7. CASE WaitReturn
  BY <1>7, ReturnGoneInv, ReturnGrantedInv, ReturnTimedOutInv
<1>8. CASE sem_post
  <2>1. /\ At("none") /\ conn[td].VALID /\ Post
        /\ Strict(conn[td].SEM_PTR) => conn[td].POST_STATE > 0
    BY <1>8 DEF sem_post, Free
  <2> QED
    BY <2>1, PostInv
<1>9. CASE PostUnboosted
  BY <1>9, UnboostedInv
<1>10. CASE CheckRunScheduler
  BY <1>10, SchedulerInv
<1>11. CASE FreeSem
  BY <1>11, FreeInv
<1>12. CASE sem_close
  BY <1>12, CloseInv
<1>13. CASE ClosePost
  <2>1. At("none") /\ call[td].close /\ conn[td].POST_STATE > 0 /\ Post
    BY <1>13 DEF ClosePost
  <2>2. CallOK(td)
    BY <2>1, Here
  <2> QED
    BY <2>1, <2>2, PostInv DEF CallOK
<1>14. CASE CloseEnd
  BY <1>14, CloseEndInv
<1>15. CASE DestroyFind
  BY <1>15, DestroyFindInv
<1>16. CASE \E force_destroy \in BOOLEAN : sem_destroy(force_destroy)
  BY <1>16, DestroyGoneInv, DestroyInv
<1>17. CASE \E n \in 1 .. MaxDelay : time_delay_ticks(n)
  BY <1>17, DelayInv
<1>18. CASE \E t \in Task : IsrPost(t)
  BY <1>18, IsrPostInv
<1>19. CASE Tick
  BY <1>19, TickSemInv
<1>20. CASE UNCHANGED vars
  <2>1. k' = k /\ sem' = sem /\ NAME' = NAME /\ conn' = conn /\ call' = call /\ owed' = owed
    BY <1>20 DEF vars
  <2>2. TypeOK' /\ td' = td
    BY <2>1 DEF Inv, TypeOK, td
  <2>3. /\ Core(k') /\ (call'[td'].at # "scheduler" => Settled(k'))
        /\ call'[Idle] = NoCall /\ conn'[Idle] = NoConnection
    BY <2>1, <2>2 DEF Inv
  <2>4. \A t \in Task : StateOK(t)' /\ ConnOK(t)' /\ CallOK(t)' /\ BoostOK(t)'
    BY <2>1 DEF Inv, StateOK, ConnOK, CallOK, BoostOK, Strict, Made, FreshOK
  <2>5. \A s \in Semaphore : QueuesOK(s)' /\ TokensOK(s)' /\ SemOK(s)'
    <3>1. ASSUME NEW s \in Semaphore
          PROVE  QueuesOK(s)' /\ TokensOK(s)' /\ SemOK(s)'
      <4>1. QueuesOK(s) /\ TokensOK(s) /\ SemOK(s)
        BY DEF Inv
      <4>2. Waiters(s)' = Waiters(s) /\ InTransit(s)' = InTransit(s)
        BY <2>1 DEF Waiters, InTransit
      <4>3. \A t \in Task : Share(t, s)' = Share(t, s)
        BY <2>1 DEF Share
      <4>4. Made(s)' <=> Made(s)
        BY <2>1 DEF Made
      <4>5. QueuesOK(s)'
        BY <2>1, <4>1, <4>2, <4>3, QueuesKept
      <4>6. TokensOK(s)'
        BY <2>1, <4>1, <4>2, <4>3, TokensKept
      <4>7. SemOK(s)'
        BY <2>1, <4>1, <4>2, <4>4 DEF SemOK, Strict
      <4> QED
        BY <4>5, <4>6, <4>7
    <3> QED
      BY <3>1
  <2> QED
    BY <2>2, <2>3, <2>4, <2>5, Parts
<1> QED
  BY <1>1, <1>2, <1>3, <1>4, <1>5, <1>6, <1>7, <1>8, <1>9, <1>10, <1>11, <1>12, <1>13,
     <1>14, <1>15, <1>16, <1>17, <1>18, <1>19, <1>20 DEF Next

\* The invariant holds throughout.
THEOREM Invariance == Spec => []Inv
BY InitInv, NextInv, PTL DEF Spec

\* The queues of the invariant are those of QueuesExact.
LEMMA ExactQueues == Inv => QueuesExact
<1> SUFFICES ASSUME Inv
             PROVE  QueuesExact
  OBVIOUS
<1>1. ASSUME NEW s \in Semaphore
      PROVE  Owners(s) = {t \in Task : conn[t].SEM_PTR = s /\ conn[t].POST_STATE > 0}
  BY DEF Owners, Share
<1>2. ASSUME NEW t \in Task, k.TD_STATE[t] = "SEM_BLOCKED"
      PROVE  call[t].at = "wait" /\ sem[call[t].s].VALID
  BY <1>2 DEF Inv, StateOK
<1>3. ASSUME NEW s \in Semaphore, sem[s].VALID
      PROVE  /\ NoDuplicates(sem[s].WAITING_TASKS)
             /\ Elems(sem[s].WAITING_TASKS) =
                   {t \in Task : call[t].at = "wait" /\ call[t].s = s}
             /\ NoDuplicates(sem[s].OWNING_TASKS)
             /\ Elems(sem[s].OWNING_TASKS) =
                   {t \in Task : conn[t].SEM_PTR = s /\ conn[t].POST_STATE > 0}
  BY <1>1, <1>3 DEF Inv, QueuesOK, Waiters
<1> QED
  BY <1>2, <1>3 DEF QueuesExact

\* The ready queues, the timeout queue, the two queues of every semaphore and the running
\* task fit together, whatever semaphore calls, timeouts and interrupts meet.
THEOREM KernelAlwaysConsistent == Spec => []KernelConsistent
<1>1. Inv => KernelConsistent
  <2> SUFFICES ASSUME Inv
               PROVE  KernelConsistent
    OBVIOUS
  <2>1. TypeOK /\ QueuesExact /\ Core(k)
    BY ExactQueues DEF Inv
  <2>2. ReadyQueuesOK(k) /\ HintOK(k) /\ TimeoutQueueOK(k)
    BY <2>1 DEF Core, KInv, ReadyExcept, ReadyQueuesOK
  <2>3. call[td].at # "scheduler" => RunningOK(k)
    BY SettledRuns DEF Inv
  <2> QED
    BY <2>1, <2>2, <2>3 DEF KernelConsistent, SchedulerConsistent
<1> QED
  BY <1>1, Invariance, PTL

\* Tokens are neither lost nor invented by posts, waits, timeouts and forced destroys.
THEOREM TokensAlwaysConserved == Spec => []TokensConserved
<1>1. Inv => TokensConserved
  <2> SUFFICES ASSUME Inv, NEW s \in Semaphore, sem[s].VALID
               PROVE  /\ owed[s] = sem[s].COUNT + Cardinality(InTransit(s))
                      /\ Strict(s) =>
                            owed[s] + Cardinality({p \in Task \X (1 .. sem[s].MAX_COUNT) :
                                /\ conn[p[1]].SEM_PTR = s
                                /\ p[2] <= conn[p[1]].POST_STATE}) = sem[s].MAX_COUNT
    BY DEF TokensConserved
  <2>1. /\ owed[s] = sem[s].COUNT + Cardinality(InTransit(s))
        /\ Strict(s) => owed[s] + Cardinality(Owned(s)) = sem[s].MAX_COUNT
    BY DEF Inv, TokensOK
  <2>2. PICK m \in Nat : m = sem[s].MAX_COUNT
    BY Fields DEF Inv
  <2>3. \A p \in Task \X (1 .. m) :
           p[2] <= Share(p[1], s) <=> /\ conn[p[1]].SEM_PTR = s
                                      /\ p[2] <= conn[p[1]].POST_STATE
    <3>1. ASSUME NEW t \in Task, NEW i \in 1 .. m
          PROVE  i <= Share(t, s) <=> conn[t].SEM_PTR = s /\ i <= conn[t].POST_STATE
      BY DEF Share
    <3> QED
      BY <3>1
  <2>4. Owned(s) = {p \in Task \X (1 .. m) : /\ conn[p[1]].SEM_PTR = s
                                             /\ p[2] <= conn[p[1]].POST_STATE}
    BY <2>2, <2>3 DEF Owned
  <2> QED
    BY <2>1, <2>2, <2>4
<1> QED
  BY <1>1, Invariance, PTL

\* Nobody is blocked on a semaphore that has a token.
THEOREM WakeupNeverLost == Spec => []NoLostWakeup
<1>1. Inv => NoLostWakeup
  BY DEF Inv, StateOK, NoLostWakeup
<1> QED
  BY <1>1, Invariance, PTL

\* A task that owns no token and is in no call runs at its own priority.
THEOREM BoostsEnd == Spec => []NoBoostLeak
<1>1. Inv => NoBoostLeak
  <2> SUFFICES ASSUME Inv, NEW t \in Task, call[t] = NoCall, conn[t].POST_STATE = 0
               PROVE  /\ k.BOOSTED[t] = 0 /\ k.MY_QUEUE[t] = k.HOME_QUEUE[t]
                      /\ conn[t].BOOSTED = 0
    BY DEF NoBoostLeak
  <2>1. BoostOK(t) /\ conn[t].BOOSTED \in Nat /\ k.HOME_QUEUE = InitPriority
    BY Fields DEF Inv, Core
  <2>2. call[t].at = "none"
    BY DEF NoCall
  <2> QED
    BY <2>1, <2>2 DEF BoostOK
<1> QED
  BY <1>1, Invariance, PTL

\* A strict semaphore is destroyed when its owners are done with it, and every
\* semaphore is freed by one call only.
THEOREM DestroyedOnlyOnce == Spec => []DestroyedOnce
<1>1. Inv => DestroyedUnowned
  <2> SUFFICES ASSUME Inv, NEW s \in Semaphore, Strict(s), ~sem[s].VALID
               PROVE  /\ \A t \in Task : conn[t].SEM_PTR = s => conn[t].POST_STATE = 0
                      /\ InTransit(s) = {}
    BY DEF DestroyedUnowned
  <2>1. InTransit(s) = {}
    BY DEF Inv, SemOK
  <2>2. ASSUME NEW t \in Task, conn[t].SEM_PTR = s
        PROVE  conn[t].POST_STATE = 0
    <3>1. ConnOK(t) /\ conn[t].POST_STATE \in Nat
      BY Fields DEF Inv
    <3> QED
      BY <2>2, <3>1 DEF ConnOK
  <2> QED
    BY <2>1, <2>2
<1>2. Inv => FreedOnce
  <2> SUFFICES ASSUME Inv, NEW s \in Semaphore
               PROVE  LET D == {t \in Task : call[t].s = s /\ call[t].destroying}
                      IN  /\ Cardinality(D) <= 1
                          /\ sem[s].block = "freed" => D = {}
    BY DEF FreedOnce
  <2>1. PICK D : D = {t \in Task : call[t].s = s /\ call[t].destroying}
    OBVIOUS
  <2>2. ASSUME NEW t \in D
        PROVE  D = {t} /\ sem[s].block = "allocated"
    <3>1. t \in Task /\ call[t].s = s /\ call[t].destroying /\ CallOK(t)
      BY <2>1 DEF Inv
    <3>2. /\ sem[s].block = "allocated"
          /\ \A u \in Task : call[u].destroying /\ call[u].s = s => u = t
      BY <3>1 DEF CallOK
    <3> QED
      BY <2>1, <3>1, <3>2
  <2>3. Cardinality(D) <= 1
    <3>1. CASE D = {}
      BY <3>1, FS_EmptySet
    <3>2. CASE D # {}
      <4>1. PICK t \in D : TRUE
        BY <3>2
      <4>2. D = {t}
        BY <2>2
      <4>3. Cardinality(D) = 1
        BY <4>2, FS_Singleton
      <4> QED
        BY <4>3
    <3> QED
      BY <3>1, <3>2
  <2>4. sem[s].block = "freed" => D = {}
    BY <2>2
  <2> QED
    BY <2>1, <2>3, <2>4
<1>3. Inv => DestroyedOnce
  BY <1>1, <1>2 DEF DestroyedOnce
<1> QED
  BY <1>3, Invariance, PTL
=============================================================================
