---------------------------- MODULE MqxTask_proof ----------------------------
(***************************************************************************)
(* The life of a task, for any number of tasks, priorities and calls: the   *)
(* kernel stays consistent when tasks are destroyed, restarted and, while    *)
(* they are Abortable, aborted; creation and destruction exclude each other; *)
(* and the numbers of the tasks stay unique.                                 *)
(*                                                                           *)
(* A task that destroys or restarts itself has STATE DYING while it still    *)
(* runs, so the scheduler's invariant holds only of the kernel in which such *)
(* a task is ready.  As in MqxLwmsgq_proof the two kernels are followed side *)
(* by side.  Who may touch a TD is known from the calls that refer to it:    *)
(* the task that makes a TD or restarts a task is the only one that refers   *)
(* to it, and a task that is dying has one destroyer at most.                *)
(*                                                                           *)
(* Two hypotheses exclude what goes wrong in the code.  _task_abort of a     *)
(* task in a timed wait leaves it on a queue, and of the task that holds     *)
(* TASK_CREATE_LWSEM takes the token away (AbortsAnywhere); and a tick that  *)
(* ends the time slice of a task that is destroying itself makes its STATE   *)
(* READY again (InitTimeSliceTask).                                          *)
(***************************************************************************)
EXTENDS MqxTask, MqxKernel_proof

(***************************************************************************)
(* The inductive invariant.                                                 *)
(***************************************************************************)
\* The tasks that destroy or restart themselves: o the calls, D the states.
Enders(o, D) == {t \in Task : D[t] = "DYING" /\ o[t].td = t}

\* The kernel in which they are ready.
Shadow(j, o) == Restate(j, ReadyStates(j.TD_STATE, Enders(o, j.TD_STATE)))

\* It is consistent, and there is no round robin.
KernelOK(j, o) ==
    j \in Kernel /\ Consistent(Shadow(j, o)) /\ j.TIME_SLICE_TASK = {}

\* Call c has made a TD, restarts a task, has begun to do so, or destroys one.
Creates(c) == c.then \in {"ready", "blocked"} /\ c.at # "build"
Restarts(c) == c.then \in {"restart", "restart_blocked"}
Stopped(c) == Restarts(c) /\ c.at \notin {"wait", "victim"}
Disposes(c) == c.at = "cleanup" \/ c.then = "free"

\* The calls there are.
Shape(c) ==
    \/ c = NoCall
    \/ c.at = "build" /\ c.td = NULL /\ c.then \in {"ready", "blocked"}
    \/ c.at = "post" /\ c.then = "none"
    \/ /\ c.td \in Task \ {Idle}
       /\ \/ c.at \in {"wait", "victim"} /\ (c.then = "none" \/ Restarts(c))
          \/ c.at = "cleanup" /\ c.then = "none"
          \/ c.at = "post" /\ c.then # "none"
          \/ /\ c.at \in {"ready", "blocked", "free", "restart", "restart_blocked"}
             /\ c.then = c.at

\* The TD that call c refers to: L the TDs on TD_LIST, F the freed ones, D the states.
RefersOK(c, L, F, D) ==
    /\ Creates(c) => c.td \in L /\ D[c.td] = "BLOCKED"
    /\ Restarts(c) => c.td \in L
    /\ Stopped(c) => D[c.td] = "DYING"
    /\ Disposes(c) => /\ D[c.td] = "DYING" /\ c.td \notin F
                      /\ c.td \in L <=> c.at = "cleanup"

\* Task t in call c: I the INFO words, T the tasks on the timeout queue.
TaskOK(t, c, D, I, T) ==
    /\ D[t] \in {"READY", "BLOCKED", "DYING", "LWSEM_BLOCKED"}
    /\ D[t] = "BLOCKED" => c = NoCall
    /\ D[t] = "DYING" => c = NoCall \/ (c.td = t /\ (Disposes(c) \/ Stopped(c)))
    /\ D[t] = "LWSEM_BLOCKED" =>
          IF I[t] = TASK_CREATE_LWSEM
          THEN c.at \in {"build", "victim"} /\ t \notin T
          ELSE c = NoCall
    /\ t \in T => D[t] = "LWSEM_BLOCKED"
    /\ t = Idle => c = NoCall

\* A TD on no list is a dead task's, and a freed one is on none.
MemoryOK(t, c, L, F, D) ==
    /\ t \notin L => D[t] = "DYING" /\ t # Idle
    /\ t \in F => t \notin L /\ c = NoCall

\* No two tasks make, restart or destroy the same one.
Alone(o) ==
    \A t, u \in Task : t # u /\ o[t].td = o[u].td /\ o[t].td # NULL =>
        ~Creates(o[t]) /\ ~Restarts(o[t]) /\ ~(Disposes(o[t]) /\ Disposes(o[u]))

\* What is known of every task and every call.
CallsOK(o, L, F, D, I, T) ==
    /\ \A t \in Task : /\ Shape(o[t]) /\ RefersOK(o[t], L, F, D)
                       /\ TaskOK(t, o[t], D, I, T) /\ MemoryOK(t, o[t], L, F, D)
    /\ Alone(o)

\* A task in call c with STATE st and INFO i has the token of TASK_CREATE_LWSEM.
Has(c, st, i) ==
    /\ c.at \in {"build", "victim", "cleanup", "post"}
    /\ ~(st = "LWSEM_BLOCKED" /\ i = TASK_CREATE_LWSEM)

\* The tasks that have it.
Having(o, D, I) == {t \in Task : Has(o[t], D[t], I[t])}

\* There is one token.
TokenOK(v, o, D, I) ==
    \/ v = 0 /\ \E h \in Task : Having(o, D, I) = {h}
    \/ v = 1 /\ Having(o, D, I) = {}

\* q is the list, f the numbers, n the next number and p the place for it: the tasks
\* up to p have the numbers 1 .. n - 1, and the ones behind it higher ones than n.
NumbersOK(q, f, n, p) ==
    /\ \A i, j \in 1 .. Len(q) : i < j => f[q[i]] < f[q[j]]
    /\ n - 1 <= Len(q)
    /\ \A i \in 1 .. Len(q) : IF i < n THEN f[q[i]] = i ELSE f[q[i]] > n
    /\ p = IF n = 1 THEN NULL ELSE q[n - 1]

\* The inductive invariant.
Inv ==
    /\ TypeOK
    /\ KernelOK(k, op)
    /\ CallsOK(op, Elems(TD_LIST), freed, k.TD_STATE, k.INFO, k.ON_TIMEOUT_Q)
    /\ TokenOK(VALUE, op, k.TD_STATE, k.INFO)
    /\ NumbersOK(TD_LIST, TASK_ID, TASK_NUMBER, INSERT_TD_PTR)

(***************************************************************************)
(* The kernel and its shadow.                                               *)
(***************************************************************************)
\* c is the shadow of j.
Shades(c, j, o) ==
    /\ Consistent(c) /\ Unscheduled(c) /\ c \in Kernel /\ c.TIME_SLICE_TASK = {}
    /\ j.TD_STATE \in [Task -> State]
    /\ j = Restate(c, j.TD_STATE)
    /\ c.TD_STATE = ReadyStates(j.TD_STATE, Enders(o, j.TD_STATE))

\* All that the two do not share is STATE.
Shared(c, j) ==
    /\ j.ACTIVE_PTR = c.ACTIVE_PTR /\ j.CURRENT_READY_Q = c.CURRENT_READY_Q
    /\ j.READY_Q = c.READY_Q /\ j.MY_QUEUE = c.MY_QUEUE
    /\ j.ON_TIMEOUT_Q = c.ON_TIMEOUT_Q /\ j.TIMEOUT_QUEUE = c.TIMEOUT_QUEUE
    /\ j.TIMEOUT = c.TIMEOUT /\ j.QUEUE = c.QUEUE /\ j.INFO = c.INFO
    /\ j.TIME_SLICE_TASK = c.TIME_SLICE_TASK

\* A kernel that is in order has a shadow.
LEMMA HasShadow ==
    ASSUME NEW j, NEW o, KernelOK(j, o)
    PROVE  LET c == Shadow(j, o) IN Shades(c, j, o) /\ Shared(c, j)
<1> DEFINE c == Shadow(j, o)
           D == j.TD_STATE
           S == ReadyStates(D, Enders(o, D))
<1>1. j \in Kernel /\ Consistent(c) /\ j.TIME_SLICE_TASK = {} /\ D \in [Task -> State]
  BY KernelFields DEF KernelOK
<1>2. c = Restate(j, S)
  BY DEF Shadow
<1>3. c \in Kernel /\ Unscheduled(c)
  BY <1>1 DEF Consistent, Unscheduled, KInv, RunningOK
<1> HIDE DEF S
<1>4. Shared(c, j) /\ c.TD_STATE = S
  BY <1>1, <1>2, RestateFields DEF Shared
<1>5. j = Restate(c, D)
  BY <1>1, <1>2, RestateFields
<1> HIDE DEF c
<1> QED
  BY <1>1, <1>3, <1>4, <1>5 DEF Shades, Shared, S, c

\* A kernel that has a shadow is in order.
LEMMA ShadowMade ==
    ASSUME NEW c, Consistent(c), c.TIME_SLICE_TASK = {}, NEW D \in [Task -> State],
           NEW o, c.TD_STATE = ReadyStates(D, Enders(o, D)), NEW j, j = Restate(c, D)
    PROVE  KernelOK(j, o) /\ Shared(c, j) /\ j.TD_STATE = D
<1>1. c \in Kernel
  BY DEF Consistent, KInv
<1>2. Shared(c, j) /\ j.TD_STATE = D /\ j \in Kernel
  BY <1>1, RestateFields DEF Shared
<1>3. Shadow(j, o) = Restate(j, c.TD_STATE)
  BY <1>2 DEF Shadow
<1>4. Restate(j, c.TD_STATE) = c
  BY <1>1, RestateFields
<1> QED
  BY <1>2, <1>3, <1>4 DEF KernelOK, Shared

\* What the shadow says of the kernel.
LEMMA KernelFacts ==
    ASSUME NEW j, NEW o, KernelOK(j, o)
    PROVE  LET a == j.ACTIVE_PTR
               D == j.TD_STATE
               E == Enders(o, D)
           IN  /\ j \in Kernel /\ a \in Task /\ D \in [Task -> State]
               /\ a \notin j.ON_TIMEOUT_Q /\ (D[a] = "READY" \/ a \in E)
               /\ \A t \in Task : t \in E => D[t] = "DYING"
               /\ \A t \in Task, s \in Queue :
                     t \in Elems(j.QUEUE[s]) <=> D[t] \in WaitStates /\ j.INFO[t] = s
               /\ j.INFO \in [Task -> Info] /\ j.ON_TIMEOUT_Q \in SUBSET Task
<1> DEFINE c == Shadow(j, o)
           D == j.TD_STATE
           E == Enders(o, D)
<1>1. Shades(c, j, o) /\ Shared(c, j) /\ j \in Kernel
  BY HasShadow DEF KernelOK
<1> HIDE DEF c
<1>2. /\ j.ACTIVE_PTR \in Task /\ D \in [Task -> State]
      /\ j.INFO \in [Task -> Info] /\ j.ON_TIMEOUT_Q \in SUBSET Task
  BY <1>1, KernelFields
<1>3. \A t \in Task : c.TD_STATE[t] = IF t \in E THEN "READY" ELSE D[t]
  BY <1>1 DEF Shades, ReadyStates
<1>4. \A t \in Task : t \in E => D[t] = "DYING"
  BY DEF Enders
<1>5. IsReady(c, c.ACTIVE_PTR) /\ WaitInv(c) /\ WaitQueuesOK(c, {})
  BY <1>1 DEF Shades, Unscheduled, WaitInv
<1>6. /\ j.ACTIVE_PTR \notin j.ON_TIMEOUT_Q
      /\ D[j.ACTIVE_PTR] = "READY" \/ j.ACTIVE_PTR \in E
  BY <1>1, <1>2, <1>3, <1>5 DEF IsReady, Shared
<1>7. ASSUME NEW t \in Task, NEW s \in Queue
      PROVE  t \in Elems(j.QUEUE[s]) <=> D[t] \in WaitStates /\ j.INFO[t] = s
  <2>1. t \in Elems(c.QUEUE[s]) <=> c.TD_STATE[t] \in WaitStates /\ c.INFO[t] = s
    BY <1>5 DEF WaitQueuesOK, WaitStates
  <2>2. "DYING" \notin WaitStates /\ "READY" \notin WaitStates
    BY DEF WaitStates, AuxStates, QueueStates
  <2> QED
    BY <1>1, <1>3, <1>4, <2>1, <2>2 DEF Shared
<1> QED
  BY <1>1, <1>2, <1>4, <1>6, <1>7

\* The calls change and nobody starts or stops destroying himself.
LEMMA CallsChange ==
    ASSUME NEW j, NEW o, KernelOK(j, o), NEW o2,
           Enders(o2, j.TD_STATE) = Enders(o, j.TD_STATE)
    PROVE  KernelOK(j, o2)
BY DEF KernelOK, Shadow

\* Blocking, in either kernel.
LEMMA RestateWaiting ==
    ASSUME NEW c \in Kernel, NEW D, NEW t \in Task, NEW s \in Queue, NEW st, NEW q
    PROVE  Waiting(Restate(c, D), t, s, st, q)
              = Restate(Waiting(c, t, s, st, q), [D EXCEPT ![t] = st])
<1> DEFINE j == Restate(c, D)
           E == [D EXCEPT ![t] = st]
           F == [c.TD_STATE EXCEPT ![t] = st]
           I == [c.INFO EXCEPT ![t] = s]
           W == [c.QUEUE EXCEPT ![s] = q]
<1>1. /\ j.INFO = c.INFO /\ j.QUEUE = c.QUEUE /\ j.TD_STATE = D
      /\ j = [c EXCEPT !.TD_STATE = D]
  BY RestateFields DEF Restate
<1>2. Waiting(c, t, s, st, q) = [c EXCEPT !.TD_STATE = F, !.INFO = I, !.QUEUE = W]
  BY DEF Waiting
<1>3. Waiting(j, t, s, st, q) = [j EXCEPT !.TD_STATE = E, !.INFO = I, !.QUEUE = W]
  BY <1>1 DEF Waiting
<1> HIDE DEF E, F, I, W
<1>4. Waiting(j, t, s, st, q) = Restate(Waiting(c, t, s, st, q), E)
  BY <1>1, <1>2, <1>3 DEF Restate, Kernel
<1> QED
  BY <1>4 DEF E

\* The shadow follows a task that is not destroying itself into another state.
LEMMA ShadowFollows ==
    ASSUME NEW D \in [Task -> State], NEW o, NEW o2, NEW a \in Task, NEW st \in State,
           a \notin Enders(o, D), st = "DYING" => o2[a].td # a,
           \A t \in Task \ {a} : t \in Enders(o2, D) <=> t \in Enders(o, D)
    PROVE  LET E == [D EXCEPT ![a] = st]
           IN  [ReadyStates(D, Enders(o, D)) EXCEPT ![a] = st] = ReadyStates(E, Enders(o2, E))
BY DEF ReadyStates, Enders

\* j has the states D, the INFO words I and the tasks T on the timeout queue.
Fields(j, D, I, T) == j.TD_STATE = D /\ j.INFO = I /\ j.ON_TIMEOUT_Q = T

\* The active task blocks.
LEMMA BlockKernel ==
    ASSUME NEW j, NEW o, KernelOK(j, o), NEW a \in Task, a = j.ACTIVE_PTR, a # Idle,
           j.TD_STATE[a] = "READY", NEW s \in Queue, NEW o2,
           \A t \in Task \ {a} : t \in Enders(o2, j.TD_STATE) <=> t \in Enders(o, j.TD_STATE),
           NEW timed \in BOOLEAN, NEW n \in Int,
           NEW i, i = Waiting(j, a, s, "LWSEM_BLOCKED", Append(j.QUEUE[s], a)),
           NEW r, r = IF timed THEN time_delay_internal(i, a, n) ELSE Dispatch(UnlinkReady(i, a))
    PROVE  /\ KernelOK(r, o2)
           /\ Fields(r, [j.TD_STATE EXCEPT ![a] = "LWSEM_BLOCKED"], [j.INFO EXCEPT ![a] = s],
                     IF timed THEN j.ON_TIMEOUT_Q \cup {a} ELSE j.ON_TIMEOUT_Q)
<1> DEFINE st == "LWSEM_BLOCKED"
           D == j.TD_STATE
           E == [D EXCEPT ![a] = st]
           q == Append(j.QUEUE[s], a)
<1>1. PICK c : Shades(c, j, o) /\ Shared(c, j)
  BY HasShadow
<1>2. /\ c \in Kernel /\ KInv(c, {}) /\ WaitInv(c) /\ j = Restate(c, D) /\ j \in Kernel
      /\ D \in [Task -> State] /\ c.TD_STATE = ReadyStates(D, Enders(o, D))
      /\ IsReady(c, a) /\ st \in State /\ st \in AuxStates /\ st \in WaitStates
      /\ c.TIME_SLICE_TASK = {}
  <2>1. st \in AuxStates
    BY DEF AuxStates
  <2> QED
    BY <1>1, <2>1, States DEF Shades, Shared, Unscheduled, KernelOK
<1>3. a \notin Enders(o, D) /\ st # "DYING"
  BY DEF Enders
<1>4. q \in Seq(Task) /\ NoDuplicates(q) /\ Elems(q) = Elems(c.QUEUE[s]) \cup {a}
  <2>1. c.QUEUE[s] \in Seq(Task) /\ NoDuplicates(c.QUEUE[s]) /\ j.QUEUE = c.QUEUE
    BY <1>1, <1>2, KernelFields DEF Shared, WaitInv, WaitQueuesOK
  <2>2. a \notin Elems(c.QUEUE[s])
    <3>1. c.TD_STATE[a] = "READY" /\ "READY" \notin WaitStates
      BY <1>2, States DEF IsReady
    <3> QED
      BY <1>2, <3>1 DEF WaitInv, WaitQueuesOK, WaitStates
  <2> QED
    BY <2>1, <2>2, AppendElems
<1> DEFINE w == Waiting(c, a, s, st, q)
<1> HIDE DEF q, st
<1>5. i = Restate(w, E) /\ w \in Kernel /\ w.TIME_SLICE_TASK = {}
  <2>1. i = Restate(w, E) /\ w \in Kernel
    <3>1. i = Waiting(j, a, s, st, q)
      BY DEF st, q
    <3> QED
      BY <1>2, <1>4, <3>1, RestateWaiting, WaitingFields
  <2>2. w.TIME_SLICE_TASK = {}
    BY <1>2 DEF Waiting, Kernel
  <2> QED
    BY <2>1, <2>2
<1>6. E \in [Task -> State]
  BY <1>2
<1>7. ReadyStates(E, Enders(o2, E)) = [c.TD_STATE EXCEPT ![a] = st]
  BY <1>2, <1>3, ShadowFollows
<1>8. CASE ~timed
  <2> DEFINE u == UnlinkReady(w, a)
             v == Dispatch(u)
  <2>1. /\ KInv(u, {}) /\ WaitInv(u) /\ Joined(c, u, a, s, st, q)
        /\ u.ON_TIMEOUT_Q = c.ON_TIMEOUT_Q
    BY <1>2, <1>4, BlockWait
  <2>2. UnlinkReady(i, a) = Restate(u, E) /\ u \in Kernel /\ u.TIME_SLICE_TASK = {}
    BY <1>5, <2>1, RestateUnlink, SliceTasksKept DEF KInv
  <2> HIDE DEF u, E
  <2>3. Dispatch(UnlinkReady(i, a)) = Restate(v, E) /\ v.TIME_SLICE_TASK = {}
    BY <1>2, <2>2, RestateDispatch, SliceTasksKept
  <2>4. Consistent(v) /\ OnlySwitched(u, v)
    BY <2>1, DispatchWait
  <2> HIDE DEF v
  <2>5. /\ v.TD_STATE = [c.TD_STATE EXCEPT ![a] = st]
        /\ v.INFO = [c.INFO EXCEPT ![a] = s] /\ v.ON_TIMEOUT_Q = c.ON_TIMEOUT_Q
    BY <2>1, <2>4 DEF Joined, OnlySwitched
  <2>6. r = Dispatch(UnlinkReady(i, a))
    BY <1>8
  <2>7. KernelOK(r, o2) /\ Shared(v, r) /\ r.TD_STATE = E
    BY <1>6, <1>7, <2>3, <2>4, <2>5, <2>6, ShadowMade
  <2>8. /\ r.INFO = [j.INFO EXCEPT ![a] = s] /\ r.ON_TIMEOUT_Q = j.ON_TIMEOUT_Q
    BY <1>1, <2>5, <2>7 DEF Shared
  <2> QED
    BY <1>8, <2>7, <2>8 DEF Fields, E, st
<1>9. CASE timed
  <2> DEFINE v == time_delay_internal(w, a, n)
  <2>1. /\ Consistent(v) /\ Joined(c, v, a, s, st, q)
        /\ v.ON_TIMEOUT_Q = c.ON_TIMEOUT_Q \cup {a}
    BY <1>2, <1>4, TimedBlockWait
  <2>2. time_delay_internal(i, a, n) = Restate(v, E)
    <3> HIDE DEF w, E
    <3> QED
      BY <1>5, RestateDelay, SMTT(40)
  <2>3. v.TIME_SLICE_TASK = {}
    <3> HIDE DEF w
    <3> DEFINE w1 == [w EXCEPT !.TIMEOUT[a] = n]
               w2 == [UnlinkReady(w1, a) EXCEPT
                         !.TIMEOUT_QUEUE = InsertBefore(@, a, DELAY_ENQUEUE_POLICY(w1, a)),
                         !.ON_TIMEOUT_Q = @ \cup {a}]
    <3>1. w1 \in Kernel /\ w1.TIME_SLICE_TASK = {}
      BY <1>5, KernelFields DEF Kernel
    <3>2. v = Dispatch(w2)
      BY DEF time_delay_internal
    <3>3. w2.TIME_SLICE_TASK = {} /\ DOMAIN w2 = DOMAIN w1
      <4> HIDE DEF w1
      <4> QED
        BY <3>1 DEF UnlinkReady, Kernel
    <3> HIDE DEF w2
    <3> QED
      BY <3>1, <3>2, <3>3 DEF Dispatch, Kernel
  <2> HIDE DEF v
  <2> HIDE DEF E
  <2>4. r = time_delay_internal(i, a, n)
    BY <1>9
  <2>5. KernelOK(r, o2) /\ Shared(v, r) /\ r.TD_STATE = E
    BY <1>6, <1>7, <2>1, <2>2, <2>3, <2>4, ShadowMade DEF Joined
  <2>6. /\ r.INFO = [j.INFO EXCEPT ![a] = s] /\ r.ON_TIMEOUT_Q = j.ON_TIMEOUT_Q \cup {a}
    BY <1>1, <2>1, <2>5 DEF Shared, Joined
  <2> QED
    BY <1>9, <2>5, <2>6 DEF Fields, E, st
<1> QED
  BY <1>8, <1>9

(***************************************************************************)
(* What the parts of a call do to a kernel with a shadow.                    *)
(***************************************************************************)
\* The kernel inside a call: the task to run is not known yet.
Settled(j, o) ==
    LET c == Shadow(j, o)
    IN  j \in Kernel /\ KInv(c, {}) /\ WaitInv(c) /\ j.TIME_SLICE_TASK = {}

\* Task t counts as ready.
Alive(j, o, t) ==
    (j.TD_STATE[t] = "READY" \/ t \in Enders(o, j.TD_STATE)) /\ t \notin j.ON_TIMEOUT_Q

\* The fields of the shadow.
LEMMA ShadowFields ==
    ASSUME NEW j \in Kernel, NEW o
    PROVE  LET c == Shadow(j, o)
           IN  /\ Shared(c, j) /\ c \in Kernel
               /\ c.PREEMPTION_DISABLED = j.PREEMPTION_DISABLED
               /\ c.TD_STATE = ReadyStates(j.TD_STATE, Enders(o, j.TD_STATE))
               /\ j = Restate(c, j.TD_STATE)
               /\ j.TD_STATE \in [Task -> State]
               /\ \A t \in Task : IsReady(c, t) <=> Alive(j, o, t)
<1> DEFINE c == Shadow(j, o)
           D == j.TD_STATE
           S == ReadyStates(D, Enders(o, D))
<1>1. c = Restate(j, S) /\ D \in [Task -> State]
  BY KernelFields DEF Shadow
<1>2. S \in [Task -> State]
  BY <1>1, States DEF ReadyStates
<1> HIDE DEF S
<1>3. /\ Shared(c, j) /\ c \in Kernel /\ c.PREEMPTION_DISABLED = j.PREEMPTION_DISABLED
      /\ c.TD_STATE = S /\ j = Restate(c, D)
  BY <1>1, <1>2, RestateFields DEF Shared
<1> HIDE DEF c
<1>4. \A t \in Task : IsReady(c, t) <=> Alive(j, o, t)
  BY <1>3 DEF IsReady, Alive, S, ReadyStates, Shared
<1> QED
  BY <1>1, <1>3, <1>4 DEF c, S

\* A kernel that follows its shadow.
LEMMA SettledMade ==
    ASSUME NEW c, KInv(c, {}), WaitInv(c), c.TIME_SLICE_TASK = {}, NEW D \in [Task -> State],
           NEW o, c.TD_STATE = ReadyStates(D, Enders(o, D)), NEW j, j = Restate(c, D)
    PROVE  Settled(j, o) /\ Shared(c, j) /\ j.TD_STATE = D
<1>1. c \in Kernel
  BY DEF KInv
<1>2. Shared(c, j) /\ j.TD_STATE = D /\ j \in Kernel
  BY <1>1, RestateFields DEF Shared
<1>3. Shadow(j, o) = Restate(j, c.TD_STATE)
  BY <1>2 DEF Shadow
<1>4. Restate(j, c.TD_STATE) = c
  BY <1>1, RestateFields
<1> QED
  BY <1>2, <1>3, <1>4 DEF Settled, Shared

\* A kernel in order is a settled one whose active task may run.
LEMMA OrderIsSettled ==
    ASSUME NEW j, NEW o
    PROVE  /\ KernelOK(j, o) <=> Settled(j, o) /\ RunningOK(Shadow(j, o))
           /\ KernelOK(j, o) => Alive(j, o, j.ACTIVE_PTR)
<1>1. KernelOK(j, o) <=> Settled(j, o) /\ RunningOK(Shadow(j, o))
  BY DEF KernelOK, Settled, Consistent
<1>2. KernelOK(j, o) => Alive(j, o, j.ACTIVE_PTR)
  <2> SUFFICES ASSUME KernelOK(j, o) PROVE Alive(j, o, j.ACTIVE_PTR)
    OBVIOUS
  <2>1. PICK c : c = Shadow(j, o)
    OBVIOUS
  <2>2. IsReady(c, c.ACTIVE_PTR) /\ j \in Kernel
    BY <2>1 DEF KernelOK, Consistent, RunningOK
  <2>3. Shared(c, j) /\ c.ACTIVE_PTR \in Task /\ \A t \in Task : IsReady(c, t) <=> Alive(j, o, t)
    BY <2>1, <2>2, ShadowFields, KernelFields
  <2> QED
    BY <2>2, <2>3 DEF Shared
<1> QED
  BY <1>1, <1>2

\* The dispatcher.
LEMMA DispatchKernel ==
    ASSUME NEW j, NEW o, Settled(j, o)
    PROVE  LET v == Dispatch(j)
           IN  KernelOK(v, o) /\ Fields(v, j.TD_STATE, j.INFO, j.ON_TIMEOUT_Q)
<1>1. PICK c : c = Shadow(j, o)
  OBVIOUS
<1>2. PICK D : D = j.TD_STATE
  OBVIOUS
<1>3. /\ Shared(c, j) /\ c \in Kernel /\ c.TD_STATE = ReadyStates(D, Enders(o, D))
      /\ j = Restate(c, D) /\ D \in [Task -> State]
  BY <1>1, <1>2, ShadowFields DEF Settled
<1>4. KInv(c, {}) /\ WaitInv(c) /\ c.TIME_SLICE_TASK = {}
  BY <1>1, <1>3 DEF Settled, Shared
<1>5. PICK u : u = Dispatch(c)
  OBVIOUS
<1>6. /\ Consistent(u) /\ OnlySwitched(c, u) /\ u.TIME_SLICE_TASK = {}
      /\ Dispatch(j) = Restate(u, D)
  BY <1>3, <1>4, <1>5, DispatchWait, RestateDispatch, SliceTasksKept, KernelAssumption
<1>7. PICK v : v = Dispatch(j)
  OBVIOUS
<1>8. KernelOK(v, o) /\ Shared(u, v) /\ v.TD_STATE = D
  BY <1>3, <1>6, <1>7, ShadowMade DEF OnlySwitched
<1> QED
  BY <1>2, <1>3, <1>6, <1>7, <1>8 DEF Fields, OnlySwitched, Shared

\* The scheduler, called by a task or at the end of an interrupt.
LEMMA ScheduleKernel ==
    ASSUME NEW j, NEW o, Settled(j, o), Alive(j, o, j.ACTIVE_PTR), NEW v,
           v = CHECK_RUN_SCHEDULER(j) \/ v = IsrReturn(j)
    PROVE  KernelOK(v, o) /\ Fields(v, j.TD_STATE, j.INFO, j.ON_TIMEOUT_Q)
<1>1. PICK c : c = Shadow(j, o)
  OBVIOUS
<1>2. PICK D : D = j.TD_STATE
  OBVIOUS
<1>3. /\ Shared(c, j) /\ c \in Kernel /\ c.TD_STATE = ReadyStates(D, Enders(o, D))
      /\ j = Restate(c, D) /\ D \in [Task -> State] /\ c.ACTIVE_PTR \in Task
      /\ \A t \in Task : IsReady(c, t) <=> Alive(j, o, t)
  BY <1>1, <1>2, ShadowFields, KernelFields DEF Settled
<1>4. Unscheduled(c) /\ c.TIME_SLICE_TASK = {}
  BY <1>1, <1>3 DEF Settled, Shared, Unscheduled
<1>5. PICK u : /\ Consistent(u) /\ OnlySwitched(c, u) /\ u.TIME_SLICE_TASK = {}
               /\ v = Restate(u, D)
  <2>1. CASE v = CHECK_RUN_SCHEDULER(j)
    <3>1. PICK u : u = CHECK_RUN_SCHEDULER(c)
      OBVIOUS
    <3>2. Consistent(u) /\ OnlySwitched(c, u)
      BY <1>4, <3>1, CheckRunWait
    <3>3. u.TIME_SLICE_TASK = {}
      BY <1>3, <1>4, <3>1, SliceTasksKept, KernelAssumption
    <3>4. v = Restate(u, D)
      BY <1>3, <2>1, <3>1, RestateSchedule
    <3> QED
      BY <3>2, <3>3, <3>4
  <2>2. CASE v = IsrReturn(j)
    <3>1. PICK u : u = IsrReturn(c)
      OBVIOUS
    <3>2. Consistent(u) /\ OnlySwitched(c, u)
      BY <1>4, <3>1, IsrReturnWait
    <3>3. u.TIME_SLICE_TASK = {}
      BY <1>3, <1>4, <3>1, SliceTasksKept, KernelAssumption
    <3>4. v = Restate(u, D)
      BY <1>3, <2>2, <3>1, RestateSchedule
    <3> QED
      BY <3>2, <3>3, <3>4
  <2> QED
    BY <2>1, <2>2
<1>6. KernelOK(v, o) /\ Shared(u, v) /\ v.TD_STATE = D
  BY <1>3, <1>5, ShadowMade DEF OnlySwitched
<1> QED
  BY <1>2, <1>3, <1>5, <1>6 DEF Fields, OnlySwitched, Shared

\* _TASK_READY of a task that is on no queue and is not destroying itself.
LEMMA ReadyKernel ==
    ASSUME NEW j, NEW o, Settled(j, o), NEW t \in Task,
           j.TD_STATE[t] \in {"BLOCKED", "DYING"}, t \notin Enders(o, j.TD_STATE),
           t \notin j.ON_TIMEOUT_Q
    PROVE  LET v == TASK_READY(j, t)
           IN  /\ Settled(v, o) /\ v.ACTIVE_PTR = j.ACTIVE_PTR
               /\ Fields(v, [j.TD_STATE EXCEPT ![t] = "READY"], j.INFO, j.ON_TIMEOUT_Q)
<1>1. PICK c : c = Shadow(j, o)
  OBVIOUS
<1>2. PICK D : D = j.TD_STATE
  OBVIOUS
<1>3. /\ Shared(c, j) /\ c \in Kernel /\ c.TD_STATE = ReadyStates(D, Enders(o, D))
      /\ j = Restate(c, D) /\ D \in [Task -> State]
  BY <1>1, <1>2, ShadowFields DEF Settled
<1>4. KInv(c, {}) /\ WaitInv(c) /\ c.TIME_SLICE_TASK = {}
  BY <1>1, <1>3 DEF Settled, Shared
<1>5. PICK u : u = TASK_READY(c, t)
  OBVIOUS
<1>6. PICK E : E = [D EXCEPT ![t] = "READY"]
  OBVIOUS
<1>7. TASK_READY(j, t) = Restate(u, E) /\ u.TIME_SLICE_TASK = {} /\ E \in [Task -> State]
  BY <1>3, <1>4, <1>5, <1>6, RestateReady, SliceTasksKept, States
<1>8. c.TD_STATE[t] = D[t] /\ c.TD_STATE[t] # "READY" /\ t \notin c.ON_TIMEOUT_Q
  BY <1>2, <1>3 DEF ReadyStates, Shared
<1>9. KInv(u, {})
  BY <1>4, <1>5, <1>8, TaskReadyInv
<1>10. /\ u.TD_STATE = [c.TD_STATE EXCEPT ![t] = "READY"] /\ u.ACTIVE_PTR = c.ACTIVE_PTR
       /\ u.ON_TIMEOUT_Q = c.ON_TIMEOUT_Q /\ u.QUEUE = c.QUEUE /\ u.INFO = c.INFO
  BY <1>3, <1>5, TaskReadyFrame
<1>11. WaitInv(u)
  <2>1. c.TD_STATE[t] \notin WaitStates /\ "READY" \notin WaitStates /\ c.TD_STATE \in [Task -> State]
    BY <1>2, <1>3, <1>8, KernelFields DEF WaitStates, AuxStates, QueueStates
  <2>2. \A x \in Task : u.TD_STATE[x] \in WaitStates <=> c.TD_STATE[x] \in WaitStates
    BY <1>10, <2>1
  <2>3. WaitQueuesOK(u, {})
    BY <1>4, <1>10, <2>2 DEF WaitInv, WaitQueuesOK, WaitStates
  <2>4. \A x \in u.ON_TIMEOUT_Q : u.TD_STATE[x] \notin QueueStates
    BY <1>3, <1>4, <1>8, <1>10, <2>1, KernelFields DEF WaitInv
  <2> QED
    BY <2>3, <2>4 DEF WaitInv
<1>12. u.TD_STATE = ReadyStates(E, Enders(o, E))
  <2>1. t \notin Enders(o, D) /\ "READY" \in State /\ "READY" # "DYING"
    BY <1>2, States
  <2>2. [ReadyStates(D, Enders(o, D)) EXCEPT ![t] = "READY"] = ReadyStates(E, Enders(o, E))
    BY <1>3, <1>6, <2>1 DEF ReadyStates, Enders
  <2> QED
    BY <1>3, <1>10, <2>2
<1>13. PICK v : v = TASK_READY(j, t)
  OBVIOUS
<1>14. Settled(v, o) /\ Shared(u, v) /\ v.TD_STATE = E
  BY <1>7, <1>9, <1>11, <1>12, <1>13, SettledMade
<1> QED
  BY <1>2, <1>3, <1>6, <1>10, <1>13, <1>14 DEF Fields, Shared

\* The invariant depends on who is ready, not on the states themselves.
LEMMA ReadyFrame ==
    ASSUME NEW c, KInv(c, {}), NEW y \in Kernel,
           y.READY_Q = c.READY_Q, y.CURRENT_READY_Q = c.CURRENT_READY_Q,
           y.MY_QUEUE = c.MY_QUEUE, TimeoutQueueOK(y),
           \A t \in Task : IsReady(y, t) <=> IsReady(c, t)
    PROVE  KInv(y, {})
<1>1. ReadyExcept(y, {})
  BY DEF KInv, ReadyExcept
<1>2. HintOK(y) /\ IdleOK(y, {})
  BY KernelAssumption DEF KInv, HintOK, IdleOK
<1> QED
  BY <1>1, <1>2 DEF KInv

\* A task has left the wait queues and the timeout queue, and is not waiting.
LEMMA OffWait ==
    ASSUME NEW c, WaitInv(c), NEW y, NEW v \in Task, y.TD_STATE[v] \notin WaitStates,
           c.ON_TIMEOUT_Q \subseteq Task, y.ON_TIMEOUT_Q \subseteq c.ON_TIMEOUT_Q \ {v},
           \A t \in Task \ {v} : y.TD_STATE[t] = c.TD_STATE[t] /\ y.INFO[t] = c.INFO[t],
           \A s \in Queue : /\ NoDuplicates(y.QUEUE[s])
                            /\ Elems(y.QUEUE[s]) = Elems(c.QUEUE[s]) \ {v}
    PROVE  WaitInv(y)
<1>1. ASSUME NEW s \in Queue, NEW t \in Task
      PROVE  t \in Elems(y.QUEUE[s]) <=> y.TD_STATE[t] \in WaitStates /\ y.INFO[t] = s
  <2>1. t \in Elems(c.QUEUE[s]) <=> c.TD_STATE[t] \in WaitStates /\ c.INFO[t] = s
    BY DEF WaitInv, WaitQueuesOK, WaitStates
  <2> QED
    BY <2>1
<1>2. WaitQueuesOK(y, {})
  BY <1>1 DEF WaitQueuesOK, WaitStates
<1>3. \A t \in y.ON_TIMEOUT_Q : y.TD_STATE[t] \notin QueueStates
  BY DEF WaitInv
<1> QED
  BY <1>2, <1>3 DEF WaitInv

\* w: task v of kernel j has been taken off all queues, and is dying.
Gone(j, o, v, w) ==
    /\ w \in Kernel /\ w.TIME_SLICE_TASK = {}
    /\ w.READY_Q = IF Alive(j, o, v)
                   THEN [j.READY_Q EXCEPT ![j.MY_QUEUE[v]] = Unlink(@, v)] ELSE j.READY_Q
    /\ w.CURRENT_READY_Q = j.CURRENT_READY_Q /\ w.MY_QUEUE = j.MY_QUEUE
    /\ w.ON_TIMEOUT_Q = j.ON_TIMEOUT_Q \ {v} /\ TimeoutQueueOK(w)
    /\ w.TD_STATE = [j.TD_STATE EXCEPT ![v] = "DYING"]
    /\ w.INFO = j.INFO
    /\ \A s \in Queue : /\ NoDuplicates(w.QUEUE[s])
                        /\ Elems(w.QUEUE[s]) = Elems(j.QUEUE[s]) \ {v}

\* TimeoutQueueOK looks at the timeout queue only.
LEMMA TimeoutFrame ==
    ASSUME NEW c, NEW y, TimeoutQueueOK(c), y.TIMEOUT_QUEUE = c.TIMEOUT_QUEUE,
           y.TIMEOUT = c.TIMEOUT, y.ON_TIMEOUT_Q = c.ON_TIMEOUT_Q
    PROVE  TimeoutQueueOK(y)
BY DEF TimeoutQueueOK

\* That leaves the kernel in order.
LEMMA GoneKernel ==
    ASSUME NEW j, NEW o, Settled(j, o), NEW v \in Task, v # Idle, NEW w, Gone(j, o, v, w),
           NEW o2, o2[v].td # v,
           \A t \in Task \ {v} : t \in Enders(o2, j.TD_STATE) <=> t \in Enders(o, j.TD_STATE)
    PROVE  /\ Settled(w, o2)
           /\ /\ KernelOK(j, o) /\ v # j.ACTIVE_PTR /\ w.ACTIVE_PTR = j.ACTIVE_PTR
              /\ w.PREEMPTION_DISABLED = j.PREEMPTION_DISABLED
              => KernelOK(w, o2)
<1>1. PICK c : c = Shadow(j, o)
  OBVIOUS
<1>2. PICK y : y = Shadow(w, o2)
  OBVIOUS
<1>3. /\ KInv(c, {}) /\ WaitInv(c) /\ j \in Kernel /\ w \in Kernel
  BY <1>1 DEF Settled, Gone
<1>4. /\ Shared(c, j) /\ c \in Kernel /\ c.PREEMPTION_DISABLED = j.PREEMPTION_DISABLED
      /\ c.TD_STATE = ReadyStates(j.TD_STATE, Enders(o, j.TD_STATE))
      /\ \A t \in Task : IsReady(c, t) <=> Alive(j, o, t)
  BY <1>1, <1>3, ShadowFields
<1>5. /\ Shared(y, w) /\ y \in Kernel /\ y.PREEMPTION_DISABLED = w.PREEMPTION_DISABLED
      /\ y.TD_STATE = ReadyStates(w.TD_STATE, Enders(o2, w.TD_STATE))
      /\ \A t \in Task : IsReady(y, t) <=> Alive(w, o2, t)
  BY <1>2, <1>3, ShadowFields
<1>6. /\ j.TD_STATE \in [Task -> State] /\ w.TD_STATE = [j.TD_STATE EXCEPT ![v] = "DYING"]
      /\ j.ON_TIMEOUT_Q \subseteq Task /\ w.ON_TIMEOUT_Q = j.ON_TIMEOUT_Q \ {v}
  BY <1>3, KernelFields DEF Gone
<1>7. /\ v \notin Enders(o2, w.TD_STATE)
      /\ \A t \in Task \ {v} : t \in Enders(o2, w.TD_STATE) <=> t \in Enders(o, j.TD_STATE)
  <2>1. \A t \in Task \ {v} : w.TD_STATE[t] = j.TD_STATE[t]
    BY <1>6
  <2> QED
    BY <2>1 DEF Enders
<1>8. /\ ~Alive(w, o2, v) /\ \A t \in Task \ {v} : Alive(w, o2, t) <=> Alive(j, o, t)
  BY <1>6, <1>7 DEF Alive
<1>9. y.TD_STATE[v] = "DYING" /\ \A t \in Task \ {v} : y.TD_STATE[t] = c.TD_STATE[t]
  BY <1>4, <1>5, <1>6, <1>7 DEF ReadyStates
<1>10. WaitInv(y)
  <2>1. "DYING" \notin WaitStates
    BY DEF WaitStates, AuxStates, QueueStates
  <2>2. \A s \in Queue : /\ NoDuplicates(y.QUEUE[s])
                         /\ Elems(y.QUEUE[s]) = Elems(c.QUEUE[s]) \ {v}
    BY <1>4, <1>5 DEF Shared, Gone
  <2>3. y.INFO = c.INFO /\ c.ON_TIMEOUT_Q = j.ON_TIMEOUT_Q /\ y.ON_TIMEOUT_Q = w.ON_TIMEOUT_Q
    BY <1>4, <1>5 DEF Shared, Gone
  <2>4. \A t \in Task \ {v} : y.TD_STATE[t] = c.TD_STATE[t] /\ y.INFO[t] = c.INFO[t]
    BY <1>9, <2>3
  <2>5. y.TD_STATE[v] \notin WaitStates
    BY <1>9, <2>1
  <2>6. c.ON_TIMEOUT_Q \subseteq Task /\ y.ON_TIMEOUT_Q \subseteq c.ON_TIMEOUT_Q \ {v}
    BY <1>6, <2>3
  <2> QED
    BY <1>3, <2>2, <2>4, <2>5, <2>6, OffWait
<1>11. KInv(y, {})
  <2>1. TimeoutQueueOK(y)
    BY <1>5, TimeoutFrame DEF Gone, Shared
  <2>2. y.CURRENT_READY_Q = c.CURRENT_READY_Q /\ y.MY_QUEUE = c.MY_QUEUE
    BY <1>4, <1>5 DEF Gone, Shared
  <2>3. CASE Alive(j, o, v)
    <3>1. IsReady(c, v) /\ ~IsReady(y, v) /\ \A t \in Task \ {v} : IsReady(y, t) <=> IsReady(c, t)
      BY <1>4, <1>5, <1>8, <2>3
    <3>2. y.READY_Q = [c.READY_Q EXCEPT ![c.MY_QUEUE[v]] = Unlink(@, v)]
      BY <1>4, <1>5, <2>3 DEF Gone, Shared
    <3> QED
      BY <1>3, <1>5, <2>1, <2>2, <3>1, <3>2, SuspendInv
  <2>4. CASE ~Alive(j, o, v)
    <3>1. \A t \in Task : IsReady(y, t) <=> IsReady(c, t)
      BY <1>4, <1>5, <1>8, <2>4
    <3>2. y.READY_Q = c.READY_Q
      BY <1>4, <1>5, <2>4 DEF Gone, Shared
    <3> QED
      BY <1>3, <1>5, <2>1, <2>2, <3>1, <3>2, ReadyFrame
  <2> QED
    BY <2>3, <2>4
<1>12. Settled(w, o2)
  BY <1>2, <1>3, <1>10, <1>11 DEF Settled, Gone
<1>13. ASSUME KernelOK(j, o), v # j.ACTIVE_PTR, w.ACTIVE_PTR = j.ACTIVE_PTR,
              w.PREEMPTION_DISABLED = j.PREEMPTION_DISABLED
       PROVE  KernelOK(w, o2)
  <2>1. RunningOK(c) /\ c.ACTIVE_PTR \in Task
    BY <1>1, <1>4, <1>13, OrderIsSettled, KernelFields
  <2>2. /\ y.ACTIVE_PTR = c.ACTIVE_PTR /\ y.PREEMPTION_DISABLED = c.PREEMPTION_DISABLED
        /\ c.ACTIVE_PTR # v /\ y.MY_QUEUE = c.MY_QUEUE
    BY <1>4, <1>5, <1>13 DEF Shared, Gone
  <2>3. \A t \in Task : IsReady(y, t) <=> IsReady(c, t) /\ t # v
    BY <1>4, <1>5, <1>8
  <2>4. RunningOK(y)
    BY <2>1, <2>2, <2>3 DEF RunningOK
  <2> QED
    BY <1>2, <1>12, <2>4, OrderIsSettled
<1> QED
  BY <1>12, <1>13

\* w: the TD of v, a dead task, has been set up anew with STATE st.
Renewed(j, v, st, w) ==
    /\ w \in Kernel /\ w.TIME_SLICE_TASK = {}
    /\ w.READY_Q = j.READY_Q /\ w.CURRENT_READY_Q = j.CURRENT_READY_Q
    /\ w.ON_TIMEOUT_Q = j.ON_TIMEOUT_Q /\ w.TIMEOUT_QUEUE = j.TIMEOUT_QUEUE
    /\ w.TIMEOUT = j.TIMEOUT /\ w.QUEUE = j.QUEUE
    /\ w.MY_QUEUE = [j.MY_QUEUE EXCEPT ![v] = InitPriority[v]]
    /\ w.TD_STATE = [j.TD_STATE EXCEPT ![v] = st]
    /\ \A t \in Task \ {v} : w.INFO[t] = j.INFO[t]

\* That leaves the kernel in order.
LEMMA RenewKernel ==
    ASSUME NEW j, NEW o, Settled(j, o), NEW v \in Task, v # Idle, j.TD_STATE[v] = "DYING",
           o[v].td # v, v \notin j.ON_TIMEOUT_Q, NEW st \in {"BLOCKED", "DYING"}, NEW w,
           Renewed(j, v, st, w)
    PROVE  /\ Settled(w, o)
           /\ /\ KernelOK(j, o) /\ v # j.ACTIVE_PTR /\ w.ACTIVE_PTR = j.ACTIVE_PTR
              /\ w.PREEMPTION_DISABLED = j.PREEMPTION_DISABLED \ {v}
              => KernelOK(w, o)
<1>1. PICK c : c = Shadow(j, o)
  OBVIOUS
<1>2. PICK y : y = Shadow(w, o)
  OBVIOUS
<1>3. /\ KInv(c, {}) /\ WaitInv(c) /\ j \in Kernel /\ w \in Kernel
  BY <1>1 DEF Settled, Renewed
<1>4. /\ Shared(c, j) /\ c \in Kernel /\ c.PREEMPTION_DISABLED = j.PREEMPTION_DISABLED
      /\ c.TD_STATE = ReadyStates(j.TD_STATE, Enders(o, j.TD_STATE))
      /\ \A t \in Task : IsReady(c, t) <=> Alive(j, o, t)
  BY <1>1, <1>3, ShadowFields
<1>5. /\ Shared(y, w) /\ y \in Kernel /\ y.PREEMPTION_DISABLED = w.PREEMPTION_DISABLED
      /\ y.TD_STATE = ReadyStates(w.TD_STATE, Enders(o, w.TD_STATE))
      /\ \A t \in Task : IsReady(y, t) <=> Alive(w, o, t)
  BY <1>2, <1>3, ShadowFields
<1>6. /\ j.TD_STATE \in [Task -> State] /\ w.TD_STATE = [j.TD_STATE EXCEPT ![v] = st]
      /\ j.ON_TIMEOUT_Q \subseteq Task /\ w.ON_TIMEOUT_Q = j.ON_TIMEOUT_Q
  BY <1>3, KernelFields DEF Renewed
<1>7. /\ \A t \in Task \ {v} : w.TD_STATE[t] = j.TD_STATE[t]
      /\ w.TD_STATE[v] = st
  BY <1>6
<1>8. /\ v \notin Enders(o, w.TD_STATE) /\ v \notin Enders(o, j.TD_STATE)
      /\ \A t \in Task \ {v} : t \in Enders(o, w.TD_STATE) <=> t \in Enders(o, j.TD_STATE)
  BY <1>7 DEF Enders
<1>9. ~Alive(w, o, v) /\ ~Alive(j, o, v)
  BY <1>7, <1>8 DEF Alive
<1>10. \A t \in Task : IsReady(y, t) <=> IsReady(c, t)
  BY <1>4, <1>5, <1>6, <1>7, <1>8, <1>9 DEF Alive
<1>11. WaitInv(y)
  <2>1. "DYING" \notin WaitStates /\ "BLOCKED" \notin WaitStates
    BY DEF WaitStates, AuxStates, QueueStates
  <2>2. /\ y.INFO = w.INFO /\ c.INFO = j.INFO /\ y.QUEUE = c.QUEUE
        /\ y.ON_TIMEOUT_Q = c.ON_TIMEOUT_Q /\ c.ON_TIMEOUT_Q = j.ON_TIMEOUT_Q
    BY <1>4, <1>5 DEF Shared, Renewed
  <2>3. /\ \A t \in Task \ {v} : y.TD_STATE[t] = c.TD_STATE[t] /\ y.INFO[t] = c.INFO[t]
        /\ y.TD_STATE[v] = st /\ c.TD_STATE[v] = "DYING"
    BY <1>4, <1>5, <1>7, <1>8, <2>2 DEF ReadyStates, Renewed
  <2>4. \A s \in Queue : v \notin Elems(c.QUEUE[s]) /\ NoDuplicates(c.QUEUE[s])
    BY <1>3, <2>1, <2>3 DEF WaitInv, WaitQueuesOK, WaitStates
  <2>5. \A s \in Queue : /\ NoDuplicates(y.QUEUE[s])
                         /\ Elems(y.QUEUE[s]) = Elems(c.QUEUE[s]) \ {v}
    BY <2>2, <2>4
  <2>6. c.ON_TIMEOUT_Q \subseteq Task /\ y.ON_TIMEOUT_Q \subseteq c.ON_TIMEOUT_Q \ {v}
    BY <1>6, <2>2
  <2>7. y.TD_STATE[v] \notin WaitStates
    BY <2>1, <2>3
  <2> QED
    BY <1>3, <2>3, <2>5, <2>6, <2>7, OffWait
<1>12. y.MY_QUEUE = [c.MY_QUEUE EXCEPT ![v] = InitPriority[v]]
  BY <1>4, <1>5 DEF Shared, Renewed
<1>13. KInv(y, {})
  <2>1. PICK x : x = [c EXCEPT !.MY_QUEUE[v] = InitPriority[v]]
    OBVIOUS
  <2>2. InitPriority[v] \in Priority
    BY KernelAssumption DEF Priority, IDLE_PRIORITY
  <2>3. KInv(x, {}) /\ \A t \in Task : IsReady(x, t) <=> IsReady(c, t)
    BY <1>3, <1>4, <1>9, <2>1, <2>2, ChangePriorityInv
  <2>4. /\ x.READY_Q = c.READY_Q /\ x.CURRENT_READY_Q = c.CURRENT_READY_Q
        /\ x.MY_QUEUE = [c.MY_QUEUE EXCEPT ![v] = InitPriority[v]]
    BY <1>4, <2>1 DEF Kernel
  <2>5. TimeoutQueueOK(y)
    <3>1. /\ TimeoutQueueOK(c) /\ y.TIMEOUT_QUEUE = c.TIMEOUT_QUEUE
          /\ y.TIMEOUT = c.TIMEOUT /\ y.ON_TIMEOUT_Q = c.ON_TIMEOUT_Q
      BY <1>3, <1>4, <1>5 DEF KInv, Shared, Renewed
    <3> QED
      BY <3>1, TimeoutFrame
  <2>6. y.READY_Q = x.READY_Q /\ y.CURRENT_READY_Q = x.CURRENT_READY_Q
    BY <1>4, <1>5, <2>4 DEF Shared, Renewed
  <2> QED
    BY <1>5, <1>10, <1>12, <2>3, <2>4, <2>5, <2>6, ReadyFrame
<1>14. Settled(w, o)
  BY <1>2, <1>3, <1>11, <1>13 DEF Settled, Renewed
<1>15. ASSUME KernelOK(j, o), v # j.ACTIVE_PTR, w.ACTIVE_PTR = j.ACTIVE_PTR,
              w.PREEMPTION_DISABLED = j.PREEMPTION_DISABLED \ {v}
       PROVE  KernelOK(w, o)
  <2>1. RunningOK(c) /\ c.ACTIVE_PTR \in Task
    BY <1>1, <1>4, <1>15, OrderIsSettled, KernelFields
  <2>2. /\ y.ACTIVE_PTR = c.ACTIVE_PTR /\ c.ACTIVE_PTR # v
        /\ y.PREEMPTION_DISABLED = c.PREEMPTION_DISABLED \ {v}
    BY <1>4, <1>5, <1>15 DEF Shared, Renewed
  <2>3. \A t \in Task : IsReady(y, t) => t # v /\ y.MY_QUEUE[t] = c.MY_QUEUE[t]
    BY <1>4, <1>5, <1>9, <1>12, KernelFields
  <2>4. RunningOK(y)
    BY <1>10, <2>1, <2>2, <2>3 DEF RunningOK
  <2> QED
    BY <1>2, <1>14, <2>4, OrderIsSettled
<1> QED
  BY <1>14, <1>15

\* The active task gives the token, or an interrupt a semaphore's, to the first waiter.
LEMMA HandOverKernel ==
    ASSUME NEW j, NEW o, KernelOK(j, o), NEW s \in Queue, j.QUEUE[s] # <<>>, NEW v,
           \/ v = CHECK_RUN_SCHEDULER(HandedOver(j, s, NULL))
           \/ v = IsrReturn(HandedOver(j, s, NULL))
    PROVE  \E t \in Task :
              /\ j.TD_STATE[t] \in WaitStates /\ j.INFO[t] = s
              /\ KernelOK(v, o)
              /\ Fields(v, [j.TD_STATE EXCEPT ![t] = "READY"], [j.INFO EXCEPT ![t] = NULL],
                        j.ON_TIMEOUT_Q \ {t})
<1>1. PICK c : Shades(c, j, o) /\ Shared(c, j)
  BY HasShadow
<1>2. PICK D : D = j.TD_STATE
  OBVIOUS
<1>3. /\ Unscheduled(c) /\ c \in Kernel /\ c.TIME_SLICE_TASK = {} /\ D \in [Task -> State]
      /\ j = Restate(c, D) /\ c.TD_STATE = ReadyStates(D, Enders(o, D))
      /\ c.QUEUE[s] # <<>> /\ NULL \in Info
  BY <1>1, <1>2 DEF Shades, Shared, Info
<1>4. PICK u : u = HandedOver(c, s, NULL)
  OBVIOUS
<1>5. PICK t : t = Head(c.QUEUE[s])
  OBVIOUS
<1>6. Unscheduled(u) /\ FirstReadied(c, u, s, NULL)
  BY <1>3, <1>4, HandOverWait
<1>7. /\ t \in Task /\ c.TD_STATE[t] \in WaitStates /\ c.INFO[t] = s
      /\ u.TD_STATE = [x \in Task |-> IF x = t THEN "READY" ELSE c.TD_STATE[x]]
      /\ u.ON_TIMEOUT_Q = c.ON_TIMEOUT_Q \ {t} /\ u.ACTIVE_PTR = c.ACTIVE_PTR
      /\ u.INFO = [c.INFO EXCEPT ![t] = NULL]
  BY <1>5, <1>6 DEF FirstReadied, Readied
<1>8. D[t] = c.TD_STATE[t] /\ D[t] # "READY" /\ D[t] # "DYING"
  <2>1. "READY" \notin WaitStates /\ "DYING" \notin WaitStates
    BY DEF WaitStates, AuxStates, QueueStates
  <2> QED
    BY <1>3, <1>7, <2>1 DEF ReadyStates
<1>9. PICK E : E = ReadyStates(D, {t})
  OBVIOUS
<1>10. PICK i : i = HandedOver(j, s, NULL)
  OBVIOUS
<1>11. i = Restate(u, E)
  BY <1>3, <1>4, <1>5, <1>8, <1>9, <1>10, RestateHandOver
<1>12. E = [D EXCEPT ![t] = "READY"] /\ E \in [Task -> State]
  BY <1>3, <1>9, States DEF ReadyStates
<1>13. u.TIME_SLICE_TASK = {}
  <2>1. PICK c1 : c1 = [c EXCEPT !.QUEUE[s] = Tail(@)]
    OBVIOUS
  <2>2. c1 \in Kernel /\ c1.TIME_SLICE_TASK = {}
    BY <1>3, <2>1, TailElems, KernelFields DEF Kernel, Unscheduled, WaitInv, WaitQueuesOK
  <2>3. PICK c2 : c2 = TIME_DEQUEUE(c1, t)
    OBVIOUS
  <2>4. c2.TIME_SLICE_TASK = {} /\ DOMAIN c2 = DOMAIN c1
    BY <1>7, <2>2, <2>3, SliceTasksKept DEF TIME_DEQUEUE
  <2>5. u = TASK_READY([c2 EXCEPT !.INFO[t] = NULL], t)
    BY <1>4, <1>5, <2>1, <2>3 DEF HandedOver
  <2> QED
    BY <2>2, <2>4, <2>5 DEF TASK_READY, Kernel
<1>14. u.TD_STATE = ReadyStates(E, Enders(o, E))
  <2>1. \A x \in Task : x \in Enders(o, E) <=> x \in Enders(o, D)
    BY <1>3, <1>7, <1>8, <1>12 DEF Enders
  <2>2. \A x \in Task : c.TD_STATE[x] = IF x \in Enders(o, D) THEN "READY" ELSE D[x]
    BY <1>3 DEF ReadyStates
  <2>3. \A x \in Task : E[x] = IF x = t THEN "READY" ELSE D[x]
    BY <1>3, <1>12
  <2> QED
    BY <1>7, <2>1, <2>2, <2>3 DEF ReadyStates
<1>15. Settled(i, o) /\ Shared(u, i) /\ i.TD_STATE = E
  <2>1. KInv(u, {}) /\ WaitInv(u)
    BY <1>6 DEF Unscheduled
  <2>2. E \in [Task -> State]
    BY <1>12
  <2> QED
    BY <1>11, <1>13, <1>14, <2>1, <2>2, SettledMade, Zenon
<1>16. Alive(i, o, i.ACTIVE_PTR)
  <2>1. PICK y : y = Shadow(i, o)
    OBVIOUS
  <2>2. /\ i \in Kernel /\ Shared(y, i) /\ y.TD_STATE = ReadyStates(E, Enders(o, E))
        /\ \A x \in Task : IsReady(y, x) <=> Alive(i, o, x)
    BY <1>15, <2>1, ShadowFields DEF Settled
  <2>3. IsReady(u, u.ACTIVE_PTR) /\ i.ACTIVE_PTR \in Task
    BY <1>6, <2>2, KernelFields DEF Unscheduled
  <2>4. IsReady(y, i.ACTIVE_PTR)
    BY <1>14, <1>15, <2>2, <2>3 DEF IsReady, Shared
  <2> QED
    BY <2>2, <2>3, <2>4
<1>17. v = CHECK_RUN_SCHEDULER(i) \/ v = IsrReturn(i)
  BY <1>10
<1>18. KernelOK(v, o) /\ Fields(v, i.TD_STATE, i.INFO, i.ON_TIMEOUT_Q)
  BY <1>15, <1>16, <1>17, ScheduleKernel
<1>19. /\ i.INFO = [j.INFO EXCEPT ![t] = NULL] /\ i.ON_TIMEOUT_Q = j.ON_TIMEOUT_Q \ {t}
       /\ j.INFO[t] = s
  BY <1>1, <1>7, <1>15 DEF Shared
<1>20. Fields(v, [j.TD_STATE EXCEPT ![t] = "READY"], [j.INFO EXCEPT ![t] = NULL],
              j.ON_TIMEOUT_Q \ {t})
  BY <1>2, <1>12, <1>15, <1>18, <1>19 DEF Fields
<1> QED
  BY <1>2, <1>7, <1>8, <1>18, <1>19, <1>20

\* The timer interrupt.
LEMMA TickKernel ==
    ASSUME NEW j, NEW o, KernelOK(j, o), \A t \in j.ON_TIMEOUT_Q : j.TD_STATE[t] = "LWSEM_BLOCKED"
    PROVE  LET v == IsrReturn(time_notify_kernel(j))
           IN  \E S \in SUBSET j.ON_TIMEOUT_Q :
                  /\ KernelOK(v, o)
                  /\ Fields(v, ReadyStates(j.TD_STATE, S), j.INFO, j.ON_TIMEOUT_Q \ S)
<1>1. PICK c : Shades(c, j, o) /\ Shared(c, j)
  BY HasShadow
<1>2. PICK D : D = j.TD_STATE
  OBVIOUS
<1>3. /\ Unscheduled(c) /\ KInv(c, {}) /\ IsReady(c, c.ACTIVE_PTR) /\ c \in Kernel
      /\ c.TIME_SLICE_TASK = {} /\ D \in [Task -> State]
      /\ j = Restate(c, D) /\ c.TD_STATE = ReadyStates(D, Enders(o, D))
      /\ c.ON_TIMEOUT_Q = j.ON_TIMEOUT_Q /\ c.ON_TIMEOUT_Q \in SUBSET Task
  BY <1>1, <1>2, KernelFields DEF Shades, Shared, Unscheduled
<1>4. \A t \in c.ON_TIMEOUT_Q : D[t] = c.TD_STATE[t] /\ D[t] = "LWSEM_BLOCKED"
  BY <1>2, <1>3 DEF ReadyStates, Enders
<1>5. PICK u : u = IsrReturn(time_notify_kernel(c))
  OBVIOUS
<1>6. PICK v : v = IsrReturn(time_notify_kernel(j))
  OBVIOUS
<1>7. PICK S \in SUBSET c.ON_TIMEOUT_Q :
            /\ v = Restate(u, ReadyStates(D, S)) /\ u.TD_STATE = ReadyStates(c.TD_STATE, S)
            /\ u.TIME_SLICE_TASK = {}
  BY <1>3, <1>4, <1>5, <1>6, RestateTick
<1>8. Consistent(u) /\ \E R \in SUBSET c.ON_TIMEOUT_Q : TimedOut(c, u, R)
  BY <1>3, <1>5, TickWait
<1>9. PICK R \in SUBSET c.ON_TIMEOUT_Q : TimedOut(c, u, R)
  BY <1>8
<1>10. /\ u.TD_STATE = ReadyStates(c.TD_STATE, R) /\ u.ON_TIMEOUT_Q = c.ON_TIMEOUT_Q \ R
       /\ u.INFO = c.INFO
  BY <1>9 DEF TimedOut, Readied, ReadyStates
<1>11. S = R
  <2>1. \A t \in c.ON_TIMEOUT_Q : u.TD_STATE[t] = "READY" <=> t \in S
    BY <1>3, <1>4, <1>7 DEF ReadyStates
  <2>2. \A t \in c.ON_TIMEOUT_Q : u.TD_STATE[t] = "READY" <=> t \in R
    BY <1>3, <1>4, <1>10 DEF ReadyStates
  <2> QED
    BY <2>1, <2>2
<1>12. PICK E : E = ReadyStates(D, S)
  OBVIOUS
<1>13. E \in [Task -> State] /\ u.TD_STATE = ReadyStates(E, Enders(o, E))
  <2>1. E \in [Task -> State]
    BY <1>3, <1>12, States DEF ReadyStates
  <2>2. \A x \in Task : E[x] = IF x \in S THEN "READY" ELSE D[x]
    BY <1>12 DEF ReadyStates
  <2>3. \A x \in Task : x \in Enders(o, E) <=> x \in Enders(o, D)
    BY <1>3, <1>4, <2>2 DEF Enders
  <2>4. \A x \in Task : c.TD_STATE[x] = IF x \in Enders(o, D) THEN "READY" ELSE D[x]
    BY <1>3 DEF ReadyStates
  <2>5. u.TD_STATE = [x \in Task |-> IF x \in S THEN "READY" ELSE c.TD_STATE[x]]
    BY <1>7 DEF ReadyStates
  <2> QED
    BY <2>1, <2>2, <2>3, <2>4, <2>5 DEF ReadyStates
<1>14. KernelOK(v, o) /\ Shared(u, v) /\ v.TD_STATE = E
  BY <1>7, <1>8, <1>12, <1>13, ShadowMade
<1>15. v.INFO = j.INFO /\ v.ON_TIMEOUT_Q = j.ON_TIMEOUT_Q \ S
  BY <1>1, <1>10, <1>11, <1>14 DEF Shared
<1>16. Fields(v, ReadyStates(j.TD_STATE, S), j.INFO, j.ON_TIMEOUT_Q \ S)
  BY <1>2, <1>12, <1>14, <1>15 DEF Fields
<1> QED
  BY <1>3, <1>6, <1>14, <1>16

(***************************************************************************)
(* What is known of the calls, when one task goes on.                       *)
(***************************************************************************)
\* Call c of task v refers to no TD that the calls o of others make, restart or destroy.
Apart(o, v, c) ==
    \A u \in Task \ {v} : o[u].td = c.td /\ c.td # NULL =>
        /\ ~Creates(c) /\ ~Restarts(c) /\ ~Creates(o[u]) /\ ~Restarts(o[u])
        /\ ~(Disposes(c) /\ Disposes(o[u]))

\* The other tasks that make, have stopped or destroy v allow it to have STATE st.
Allowed(o, v, st) ==
    \A u \in Task \ {v} : o[u].td = v =>
        /\ Creates(o[u]) => st = "BLOCKED"
        /\ Stopped(o[u]) \/ Disposes(o[u]) => st = "DYING"

\* Call c is one there is.
LEMMA ShapeTD ==
    ASSUME NEW c, Shape(c), Creates(c) \/ Restarts(c) \/ Disposes(c)
    PROVE  c.td \in Task
BY DEF Shape, Creates, Restarts, Disposes, NoCall

\* Task v goes on to call c and STATE st, and nothing that is known of it is against it.
Moves(o, L, F, D, I, T, v, c, st, o2, D2, I2, T2) ==
    /\ o \in [Task -> Calls] /\ D \in [Task -> State] /\ v \in Task /\ st \in State
    /\ o2 = [o EXCEPT ![v] = c] /\ D2 = [D EXCEPT ![v] = st]
    /\ \A t \in Task \ {v} : I2[t] = I[t] /\ (t \in T2 <=> t \in T)
    /\ Shape(c) /\ RefersOK(c, L, F, D2) /\ TaskOK(v, c, D2, I2, T2)
    /\ MemoryOK(v, c, L, F, D2) /\ Apart(o, v, c) /\ Allowed(o, v, st)

\* Then the same is known of all tasks.
LEMMA OneTask ==
    ASSUME NEW o, NEW L, NEW F, NEW D, NEW I, NEW T, CallsOK(o, L, F, D, I, T),
           NEW v, NEW c, NEW st, NEW o2, NEW D2, NEW I2, NEW T2,
           Moves(o, L, F, D, I, T, v, c, st, o2, D2, I2, T2)
    PROVE  CallsOK(o2, L, F, D2, I2, T2)
<1> USE DEF Moves
<1>1. o2[v] = c /\ D2[v] = st /\ \A t \in Task \ {v} : o2[t] = o[t] /\ D2[t] = D[t]
  OBVIOUS
<1>2. ASSUME NEW t \in Task \ {v}
      PROVE  /\ Shape(o[t]) /\ RefersOK(o[t], L, F, D2)
             /\ TaskOK(t, o[t], D2, I2, T2) /\ MemoryOK(t, o[t], L, F, D2)
  <2>1. /\ Shape(o[t]) /\ RefersOK(o[t], L, F, D)
        /\ TaskOK(t, o[t], D, I, T) /\ MemoryOK(t, o[t], L, F, D)
    BY DEF CallsOK
  <2>2. TaskOK(t, o[t], D2, I2, T2) /\ MemoryOK(t, o[t], L, F, D2)
    BY <1>1, <2>1 DEF TaskOK, MemoryOK
  <2>3. RefersOK(o[t], L, F, D2)
    <3>1. CASE o[t].td = v
      <4>1. /\ Creates(o[t]) => st = "BLOCKED"
            /\ Stopped(o[t]) \/ Disposes(o[t]) => st = "DYING"
        BY <3>1 DEF Allowed
      <4> QED
        BY <1>1, <2>1, <3>1, <4>1 DEF RefersOK
    <3>2. CASE o[t].td # v
      <4>1. Creates(o[t]) \/ Stopped(o[t]) \/ Disposes(o[t]) => D2[o[t].td] = D[o[t].td]
        BY <1>1, <2>1, <3>2, ShapeTD DEF Stopped
      <4> QED
        BY <2>1, <4>1 DEF RefersOK
    <3> QED
      BY <3>1, <3>2
  <2> QED
    BY <2>1, <2>2, <2>3
<1>3. Alone(o2)
  <2> SUFFICES ASSUME NEW t \in Task, NEW u \in Task, t # u, o2[t].td = o2[u].td,
                      o2[t].td # NULL
               PROVE  /\ ~Creates(o2[t]) /\ ~Restarts(o2[t])
                      /\ ~(Disposes(o2[t]) /\ Disposes(o2[u]))
    BY DEF Alone
  <2>1. CASE t = v
    BY <1>1, <2>1 DEF Apart
  <2>2. CASE u = v
    BY <1>1, <2>2 DEF Apart
  <2>3. CASE t # v /\ u # v
    BY <1>1, <2>3 DEF CallsOK, Alone
  <2> QED
    BY <2>1, <2>2, <2>3
<1> QED
  BY <1>1, <1>2, <1>3 DEF CallsOK

\* Delays end.
LEMMA DelaysEnd ==
    ASSUME NEW o, NEW L, NEW F, NEW D \in [Task -> State], NEW I, NEW T \in SUBSET Task,
           CallsOK(o, L, F, D, I, T), NEW S \in SUBSET T
    PROVE  /\ CallsOK(o, L, F, ReadyStates(D, S), I, T \ S)
           /\ \A t \in S : o[t] = NoCall
<1> DEFINE E == ReadyStates(D, S)
<1>1. \A t \in Task : E[t] = IF t \in S THEN "READY" ELSE D[t]
  BY DEF ReadyStates
<1>2. ASSUME NEW t \in Task
      PROVE  /\ Shape(o[t]) /\ RefersOK(o[t], L, F, D)
             /\ TaskOK(t, o[t], D, I, T) /\ MemoryOK(t, o[t], L, F, D)
  BY DEF CallsOK
<1>3. \A t \in S : D[t] = "LWSEM_BLOCKED" /\ o[t] = NoCall
  BY <1>2 DEF TaskOK
<1> HIDE DEF E
<1>4. ASSUME NEW t \in Task
      PROVE  /\ Shape(o[t]) /\ RefersOK(o[t], L, F, E)
             /\ TaskOK(t, o[t], E, I, T \ S) /\ MemoryOK(t, o[t], L, F, E)
  <2>1. RefersOK(o[t], L, F, E)
    <3>1. Creates(o[t]) \/ Stopped(o[t]) \/ Disposes(o[t]) => o[t].td \in Task
      BY <1>2, ShapeTD DEF Stopped
    <3> QED
      BY <1>1, <1>2, <1>3, <3>1 DEF RefersOK
  <2>2. TaskOK(t, o[t], E, I, T \ S)
    BY <1>1, <1>2, <1>3 DEF TaskOK
  <2>3. MemoryOK(t, o[t], L, F, E)
    BY <1>1, <1>2, <1>3 DEF MemoryOK
  <2> QED
    BY <1>2, <2>1, <2>2, <2>3
<1> QED
  BY <1>3, <1>4 DEF CallsOK, E

\* A freed TD is put on the list.
LEMMA Listed ==
    ASSUME NEW o, NEW L, NEW F, NEW D, NEW I, NEW T, CallsOK(o, L, F, D, I, T),
           NEW u \in Task, u \in F, \A t \in Task : o[t].td # u
    PROVE  CallsOK(o, L \cup {u}, F \ {u}, D, I, T)
<1>1. ASSUME NEW t \in Task
      PROVE  /\ Shape(o[t]) /\ RefersOK(o[t], L \cup {u}, F \ {u}, D)
             /\ TaskOK(t, o[t], D, I, T) /\ MemoryOK(t, o[t], L \cup {u}, F \ {u}, D)
  <2>1. /\ Shape(o[t]) /\ RefersOK(o[t], L, F, D)
        /\ TaskOK(t, o[t], D, I, T) /\ MemoryOK(t, o[t], L, F, D)
    BY DEF CallsOK
  <2>2. RefersOK(o[t], L \cup {u}, F \ {u}, D)
    BY <2>1 DEF RefersOK
  <2>3. MemoryOK(t, o[t], L \cup {u}, F \ {u}, D)
    BY <2>1 DEF MemoryOK
  <2> QED
    BY <2>1, <2>2, <2>3
<1> QED
  BY <1>1 DEF CallsOK

\* The destroyer takes its victim off the list.
LEMMA Delisted ==
    ASSUME NEW o \in [Task -> Calls], NEW L, NEW F, NEW D, NEW I, NEW T,
           CallsOK(o, L, F, D, I, T), NEW a \in Task, o[a].at = "cleanup",
           D[a] # "LWSEM_BLOCKED",
           NEW o2, o2 = [o EXCEPT ![a].at = "post", ![a].then = "free"]
    PROVE  CallsOK(o2, L \ {o[a].td}, F, D, I, T)
<1> DEFINE v == o[a].td
           c == [o[a] EXCEPT !.at = "post", !.then = "free"]
<1>1. /\ \A t \in Task \ {a} : o2[t] = o[t]
      /\ o2[a] = c /\ c.at = "post" /\ c.then = "free" /\ c.td = v
  BY DEF Calls
<1>2. ASSUME NEW t \in Task
      PROVE  /\ Shape(o[t]) /\ RefersOK(o[t], L, F, D)
             /\ TaskOK(t, o[t], D, I, T) /\ MemoryOK(t, o[t], L, F, D)
  BY DEF CallsOK
<1> HIDE DEF c
<1>3. v \in Task \ {Idle} /\ D[v] = "DYING" /\ v \notin F /\ Disposes(o[a]) /\ o[a].then = "none"
  BY <1>2 DEF Shape, RefersOK, Disposes, NoCall
<1>4. NULL \notin Task
  BY TaskAssumption
<1>5. \A t \in Task \ {a} : o[t].td = v => ~Creates(o[t]) /\ ~Restarts(o[t]) /\ ~Disposes(o[t])
  BY <1>3, <1>4 DEF CallsOK, Alone
<1>6. ASSUME NEW t \in Task \ {a}
      PROVE  /\ Shape(o[t]) /\ RefersOK(o[t], L \ {v}, F, D)
             /\ TaskOK(t, o[t], D, I, T) /\ MemoryOK(t, o[t], L \ {v}, F, D)
  <2>1. RefersOK(o[t], L \ {v}, F, D)
    BY <1>2, <1>5 DEF RefersOK
  <2>2. MemoryOK(t, o[t], L \ {v}, F, D)
    BY <1>2, <1>3 DEF MemoryOK
  <2> QED
    BY <1>2, <2>1, <2>2
<1>7. ~Creates(c) /\ ~Restarts(c) /\ ~Stopped(c) /\ Disposes(c)
  BY <1>1 DEF Creates, Restarts, Stopped, Disposes
<1>8. /\ Shape(c) /\ RefersOK(c, L \ {v}, F, D)
      /\ TaskOK(a, c, D, I, T) /\ MemoryOK(a, c, L \ {v}, F, D)
  <2>1. Shape(c)
    BY <1>1, <1>3 DEF Shape
  <2>2. RefersOK(c, L \ {v}, F, D)
    BY <1>1, <1>3, <1>7 DEF RefersOK
  <2>3. o[a] # NoCall
    BY DEF NoCall
  <2>4. TaskOK(a, c, D, I, T)
    BY <1>1, <1>2, <1>7, <2>3 DEF TaskOK
  <2>5. MemoryOK(a, c, L \ {v}, F, D)
    BY <1>2, <1>3, <2>3 DEF MemoryOK
  <2> QED
    BY <2>1, <2>2, <2>4, <2>5
<1>9. Alone(o2)
  <2> SUFFICES ASSUME NEW t \in Task, NEW u \in Task, t # u, o2[t].td = o2[u].td,
                      o2[t].td # NULL
               PROVE  /\ ~Creates(o2[t]) /\ ~Restarts(o2[t])
                      /\ ~(Disposes(o2[t]) /\ Disposes(o2[u]))
    BY DEF Alone
  <2>1. CASE t = a
    BY <1>1, <1>5, <1>7, <2>1
  <2>2. CASE u = a
    BY <1>1, <1>5, <1>7, <2>2
  <2>3. CASE t # a /\ u # a
    BY <1>1, <2>3 DEF CallsOK, Alone
  <2> QED
    BY <2>1, <2>2, <2>3
<1> QED
  BY <1>1, <1>6, <1>8, <1>9 DEF CallsOK

\* The memory of v, on no list and in no call, is given back.
LEMMA Disposed ==
    ASSUME NEW o, NEW L, NEW F, NEW D, NEW I, NEW T, CallsOK(o, L, F, D, I, T),
           NEW v \in Task, v \notin L, o[v] = NoCall,
           \A u \in Task : o[u].td = v => ~Disposes(o[u])
    PROVE  CallsOK(o, L, F \cup {v}, D, I, T)
<1>1. ASSUME NEW t \in Task
      PROVE  /\ Shape(o[t]) /\ RefersOK(o[t], L, F \cup {v}, D)
             /\ TaskOK(t, o[t], D, I, T) /\ MemoryOK(t, o[t], L, F \cup {v}, D)
  <2>1. /\ Shape(o[t]) /\ RefersOK(o[t], L, F, D)
        /\ TaskOK(t, o[t], D, I, T) /\ MemoryOK(t, o[t], L, F, D)
    BY DEF CallsOK
  <2>2. RefersOK(o[t], L, F \cup {v}, D)
    BY <2>1 DEF RefersOK
  <2>3. MemoryOK(t, o[t], L, F \cup {v}, D)
    BY <2>1 DEF MemoryOK
  <2> QED
    BY <2>1, <2>2, <2>3
<1> QED
  BY <1>1 DEF CallsOK

(***************************************************************************)
(* The list of the TDs and the numbers of the tasks.                        *)
(***************************************************************************)
\* _QUEUE_UNLINK moves the elements behind t up by one place.
LEMMA UnlinkPlaces ==
    ASSUME NEW q \in Seq(Task), NoDuplicates(q), NEW i \in 1 .. Len(q)
    PROVE  LET r == Unlink(q, q[i])
           IN  /\ Len(r) = Len(q) - 1 /\ r \in Seq(Task)
               /\ \A m \in 1 .. Len(r) : r[m] = IF m < i THEN q[m] ELSE q[m + 1]
<1> DEFINE t == q[i]
           N == Len(q)
           J == {j \in 1 .. N : q[j] \in Elems(q) \ {t}}
           r == Unlink(q, t)
           R(j) == Cardinality({x \in J : x <= j})
<1>1. N \in Nat /\ i \in Nat /\ 1 <= i /\ i <= N
  OBVIOUS
<1>2. J = (1 .. N) \ {i}
  BY DEF NoDuplicates, Elems
<1>3. Cardinality(J) = N - 1
  <2>1. IsFiniteSet(1 .. N) /\ Cardinality(1 .. N) = N
    BY <1>1, FS_Interval
  <2> QED
    BY <1>1, <1>2, <2>1, FS_RemoveElement, ZenonT(60)
<1>4. r = [m \in 1 .. Cardinality(J) |-> q[CHOOSE j \in J : R(j) = m]]
  BY DEF Unlink, Keep
<1>5. r \in Seq(Task)
  BY UnlinkElems
<1> HIDE DEF J, r, R
<1>6. Len(r) = N - 1
  BY <1>1, <1>3, <1>4, <1>5
<1>7. ASSUME NEW j \in J
      PROVE  R(j) = IF j < i THEN j ELSE j - 1
  <2>1. j \in Nat /\ 1 <= j /\ j <= N /\ j # i
    BY <1>1, <1>2
  <2>2. IsFiniteSet(1 .. j) /\ Cardinality(1 .. j) = j
    BY <2>1, FS_Interval
  <2>3. {x \in J : x <= j} = (1 .. j) \ {i}
    BY <1>1, <1>2, <2>1
  <2>4. Cardinality((1 .. j) \ {i}) = IF i \in 1 .. j THEN j - 1 ELSE j
    BY <2>2, FS_RemoveElement
  <2>5. i \in 1 .. j <=> ~(j < i)
    BY <1>1, <2>1
  <2>6. R(j) = Cardinality((1 .. j) \ {i})
    BY <2>3 DEF R
  <2> QED
    BY <2>4, <2>5, <2>6
<1>8. ASSUME NEW m \in 1 .. (N - 1)
      PROVE  r[m] = IF m < i THEN q[m] ELSE q[m + 1]
  <2> DEFINE b == IF m < i THEN m ELSE m + 1
  <2>1. b \in J
    BY <1>1, <1>2
  <2>2. \A j \in J : R(j) = m <=> j = b
    BY <1>1, <1>2, <1>7
  <2>3. (CHOOSE j \in J : R(j) = m) = b
    BY <2>1, <2>2
  <2>4. r[m] = q[CHOOSE j \in J : R(j) = m]
    BY <1>1, <1>3, <1>4
  <2> QED
    BY <2>3, <2>4
<1> QED
  BY <1>5, <1>6, <1>8 DEF r

\* The numbers tell the TDs on the list apart.
LEMMA NumbersDiffer ==
    ASSUME NEW q \in Seq(Task), NEW f \in [Task -> Nat], NEW n, NEW p, NumbersOK(q, f, n, p)
    PROVE  NoDuplicates(q)
<1> SUFFICES ASSUME NEW i \in 1 .. Len(q), NEW j \in 1 .. Len(q), q[i] = q[j], i # j
             PROVE  FALSE
  BY DEF NoDuplicates
<1>1. i < j \/ j < i
  OBVIOUS
<1>2. f[q[i]] < f[q[j]] \/ f[q[j]] < f[q[i]]
  BY <1>1 DEF NumbersOK
<1> QED
  BY <1>2

\* q2 is q without its i-th TD; the others keep the numbers of f in f2.
ClosedUp(q, f, i, q2, f2) ==
    /\ q2 \in Seq(Task) /\ Len(q2) = Len(q) - 1 /\ f2 \in [Task -> Nat]
    /\ Elems(q2) = Elems(q) \ {q[i]}
    /\ \A m \in 1 .. Len(q2) :
          /\ m < i => m \in 1 .. Len(q) /\ q2[m] = q[m] /\ f2[q2[m]] = f[q[m]]
          /\ ~(m < i) => /\ m + 1 \in 1 .. Len(q) /\ q2[m] = q[m + 1]
                         /\ f2[q2[m]] = f[q[m + 1]]

\* The numbers along the list when the i-th TD is taken out of it.
LEMMA TakenOut ==
    ASSUME NEW q \in Seq(Task), NEW f \in [Task -> Nat], NEW i \in 1 .. Len(q),
           NoDuplicates(q), NEW q2, q2 = Unlink(q, q[i]), NEW f2, f2 = [f EXCEPT ![q[i]] = 0]
    PROVE  ClosedUp(q, f, i, q2, f2)
<1>1. /\ q2 \in Seq(Task) /\ Len(q2) = Len(q) - 1
      /\ \A m \in 1 .. Len(q2) : q2[m] = IF m < i THEN q[m] ELSE q[m + 1]
  BY UnlinkPlaces
<1>2. Elems(q2) = Elems(q) \ {q[i]}
  BY UnlinkElems
<1>3. f2 \in [Task -> Nat] /\ \A t \in Task : t # q[i] => f2[t] = f[t]
  OBVIOUS
<1>4. \A x \in 1 .. Len(q) : q[x] \in Task /\ (x # i => q[x] # q[i])
  BY DEF NoDuplicates
<1>5. Len(q) \in Nat /\ i \in Nat
  OBVIOUS
<1>6. ASSUME NEW m \in 1 .. Len(q2)
      PROVE  /\ m < i => m \in 1 .. Len(q) /\ q2[m] = q[m] /\ f2[q2[m]] = f[q[m]]
             /\ ~(m < i) => /\ m + 1 \in 1 .. Len(q) /\ q2[m] = q[m + 1]
                            /\ f2[q2[m]] = f[q[m + 1]]
  <2>1. m \in Nat /\ 1 <= m /\ m <= Len(q) - 1
    BY <1>1, <1>5
  <2>2. CASE m < i
    <3>1. m \in 1 .. Len(q) /\ m # i /\ q2[m] = q[m]
      BY <1>1, <1>5, <2>1, <2>2
    <3>2. q[m] \in Task /\ q[m] # q[i]
      BY <1>4, <3>1
    <3> QED
      BY <1>3, <2>2, <3>1, <3>2
  <2>3. CASE ~(m < i)
    <3>1. m + 1 \in 1 .. Len(q) /\ m + 1 # i
      BY <1>5, <2>1, <2>3
    <3>3. q2[m] = q[m + 1]
      BY <1>1, <2>3
    <3>2. q[m + 1] \in Task /\ q[m + 1] # q[i]
      BY <1>4, <3>1
    <3> QED
      BY <1>3, <2>3, <3>1, <3>2, <3>3
  <2> QED
    BY <2>2, <2>3
<1> QED
  BY <1>1, <1>2, <1>3, <1>6 DEF ClosedUp

\* A task leaves the list.
LEMMA NumberFreed ==
    ASSUME NEW q \in Seq(Task), NEW f \in [Task -> Nat], NEW n \in Nat \ {0},
           NEW p \in Task \cup {NULL}, NumbersOK(q, f, n, p), NEW v \in Elems(q)
    PROVE  LET i  == CHOOSE m \in 1 .. Len(q) : q[m] = v
               q2 == Unlink(q, v)
               f2 == [f EXCEPT ![v] = 0]
               n2 == IF Len(q) = 1 THEN 1 ELSE IF n > f[v] THEN f[v] ELSE n
               p2 == IF Len(q) = 1 THEN NULL
                     ELSE IF n > f[v] THEN IF i = 1 THEN NULL ELSE q[i - 1] ELSE p
           IN  /\ NumbersOK(q2, f2, n2, p2) /\ Elems(q2) = Elems(q) \ {v}
               /\ q2 \in Seq(Task) /\ f2 \in [Task -> Nat] /\ n2 \in Nat \ {0}
               /\ p2 \in Task \cup {NULL}
<1> DEFINE i  == CHOOSE m \in 1 .. Len(q) : q[m] = v
           q2 == Unlink(q, v)
           f2 == [f EXCEPT ![v] = 0]
           n2 == IF Len(q) = 1 THEN 1 ELSE IF n > f[v] THEN f[v] ELSE n
           p2 == IF Len(q) = 1 THEN NULL
                 ELSE IF n > f[v] THEN IF i = 1 THEN NULL ELSE q[i - 1] ELSE p
<1>1. i \in 1 .. Len(q) /\ q[i] = v /\ NoDuplicates(q)
  <2>1. \E m \in 1 .. Len(q) : q[m] = v
    BY DEF Elems
  <2> QED
    BY <2>1, NumbersDiffer
<1> HIDE DEF i, q2, f2
<1>2. /\ q2 \in Seq(Task) /\ Len(q2) = Len(q) - 1 /\ f2 \in [Task -> Nat]
      /\ Elems(q2) = Elems(q) \ {v}
      /\ \A m \in 1 .. Len(q2) :
            /\ m < i => m \in 1 .. Len(q) /\ q2[m] = q[m] /\ f2[q2[m]] = f[q[m]]
            /\ ~(m < i) => /\ m + 1 \in 1 .. Len(q) /\ q2[m] = q[m + 1]
                           /\ f2[q2[m]] = f[q[m + 1]]
  <2>1. q2 = Unlink(q, q[i]) /\ f2 = [f EXCEPT ![q[i]] = 0]
    BY <1>1 DEF q2, f2
  <2>2. ClosedUp(q, f, i, q2, f2)
    BY <1>1, <2>1, TakenOut
  <2> QED
    BY <1>1, <2>2 DEF ClosedUp
<1>3. Len(q) \in Nat /\ Len(q2) \in Nat /\ i \in Nat /\ 1 <= i /\ i <= Len(q)
  BY <1>1, <1>2
<1>4. /\ \A x, y \in 1 .. Len(q) : x < y => f[q[x]] < f[q[y]]
      /\ \A x \in 1 .. Len(q) : IF x < n THEN f[q[x]] = x ELSE f[q[x]] > n
      /\ n - 1 <= Len(q) /\ p = IF n = 1 THEN NULL ELSE q[n - 1]
      /\ \A x \in 1 .. Len(q) : q[x] \in Task /\ f[q[x]] \in Nat
  BY DEF NumbersOK
<1>5. ASSUME NEW x \in 1 .. Len(q2), NEW y \in 1 .. Len(q2), x < y
      PROVE  f2[q2[x]] < f2[q2[y]]
  <2>1. CASE y < i
    <3>1. x < i
      BY <1>3, <1>5, <2>1
    <3> QED
      BY <1>2, <1>4, <1>5, <2>1, <3>1
  <2>2. CASE ~(y < i) /\ x < i
    <3>1. x \in 1 .. Len(q) /\ y + 1 \in 1 .. Len(q) /\ x < y + 1
      BY <1>2, <1>5, <2>2
    <3> QED
      BY <1>2, <1>4, <2>2, <3>1
  <2>3. CASE ~(y < i) /\ ~(x < i)
    <3>1. x + 1 \in 1 .. Len(q) /\ y + 1 \in 1 .. Len(q) /\ x + 1 < y + 1
      BY <1>2, <1>5, <2>3
    <3> QED
      BY <1>2, <1>4, <2>3, <3>1
  <2> QED
    BY <2>1, <2>2, <2>3
<1>6. NumbersOK(q2, f2, n2, p2) /\ n2 \in Nat \ {0} /\ p2 \in Task \cup {NULL}
  <2>1. CASE Len(q) = 1
    <3>1. n2 = 1 /\ p2 = NULL /\ Len(q2) = 0
      BY <1>2, <2>1
    <3> HIDE DEF n2, p2
    <3> QED
      BY <3>1 DEF NumbersOK
  <2>2. CASE Len(q) # 1 /\ n > f[v]
    <3>1. i < n /\ f[v] = i
      BY <1>1, <1>3, <1>4, <2>2
    <3>2. n2 = i /\ p2 = IF i = 1 THEN NULL ELSE q[i - 1]
      BY <2>2, <3>1
    <3> HIDE DEF n2, p2
    <3>3. ASSUME NEW m \in 1 .. Len(q2)
          PROVE  IF m < i THEN f2[q2[m]] = m ELSE f2[q2[m]] > i
      <4>1. CASE m < i
        <5>1. m \in 1 .. Len(q) /\ f2[q2[m]] = f[q[m]]
          BY <1>2, <4>1
        <5>2. m < n
          BY <1>3, <3>1, <4>1
        <5> QED
          BY <1>4, <4>1, <5>1, <5>2
      <4>2. CASE ~(m < i)
        <5>1. m + 1 \in 1 .. Len(q) /\ f2[q2[m]] = f[q[m + 1]]
          BY <1>2, <4>2
        <5>2. i < m + 1
          BY <1>3, <4>2
        <5>3. f[q[i]] < f[q[m + 1]]
          BY <1>1, <1>4, <5>1, <5>2
        <5>4. f2[q2[m]] > i
          BY <1>1, <1>4, <3>1, <5>1, <5>3
        <5> QED
          BY <4>2, <5>4
      <4> QED
        BY <4>1, <4>2
    <3>4. i # 1 => /\ i - 1 \in 1 .. Len(q2) /\ i - 1 \in 1 .. Len(q) /\ i - 1 < i
      BY <1>2, <1>3
    <3>5. i # 1 => q2[i - 1] = q[i - 1] /\ q[i - 1] \in Task
      BY <1>2, <1>4, <3>4
    <3>6. n2 - 1 <= Len(q2) /\ n2 \in Nat \ {0}
      BY <1>2, <1>3, <3>2
    <3>7. p2 = IF n2 = 1 THEN NULL ELSE q2[n2 - 1]
      BY <3>2, <3>5
    <3> QED
      BY <1>5, <3>2, <3>3, <3>5, <3>6, <3>7 DEF NumbersOK
  <2>3. CASE Len(q) # 1 /\ ~(n > f[v])
    <3>1. ~(i < n) /\ n2 = n /\ p2 = p
      BY <1>1, <1>3, <1>4, <2>3
    <3> HIDE DEF n2, p2
    <3>2. ASSUME NEW m \in 1 .. Len(q2)
          PROVE  IF m < n THEN f2[q2[m]] = m ELSE f2[q2[m]] > n
      <4>1. CASE m < i
        <5>1. m \in 1 .. Len(q) /\ f2[q2[m]] = f[q[m]]
          BY <1>2, <4>1
        <5> QED
          BY <1>4, <5>1
      <4>2. CASE ~(m < i)
        <5>1. m + 1 \in 1 .. Len(q) /\ f2[q2[m]] = f[q[m + 1]]
          BY <1>2, <4>2
        <5>2. ~(m + 1 < n) /\ ~(m < n)
          BY <1>3, <3>1, <4>2
        <5> QED
          BY <1>4, <5>1, <5>2
      <4> QED
        BY <4>1, <4>2
    <3>3. n # 1 => n - 1 \in 1 .. Len(q2) /\ n - 1 < i
      BY <1>2, <1>3, <3>1
    <3>4. n # 1 => q2[n - 1] = q[n - 1]
      BY <1>2, <3>3
    <3>5. p2 = IF n = 1 THEN NULL ELSE q2[n - 1]
      BY <1>4, <3>1, <3>4
    <3>6. n - 1 <= Len(q2)
      BY <1>2, <1>3, <3>1
    <3> QED
      BY <1>5, <3>1, <3>2, <3>5, <3>6 DEF NumbersOK
  <2> QED
    BY <2>1, <2>2, <2>3
<1> HIDE DEF n2, p2
<1> QED
  BY <1>2, <1>6 DEF n2, p2, i, q2, f2

\* The place of a TD behind the one that p names.
PlaceFor(q, p) == IF p = NULL THEN 1 ELSE 1 + CHOOSE i \in 1 .. Len(q) : q[i] = p

\* The end of the run of numbers n, n + 1, ... that begins at pos.
RunEnd(q, f, n, pos) ==
    CHOOSE j \in pos .. Len(q) : /\ \A i \in pos .. j : f[q[i]] = n + (i - pos)
                                 /\ j < Len(q) => f[q[j + 1]] # n + (j + 1 - pos)

\* A new task gets the next number and its place, and the next number is found.
LEMMA NumberGiven ==
    ASSUME NEW q \in Seq(Task), NEW f \in [Task -> Nat], NEW n \in Nat \ {0},
           NEW p \in Task \cup {NULL}, NumbersOK(q, f, n, p), NEW u \in Task, u \notin Elems(q)
    PROVE  LET pos  == PlaceFor(q, p)
               q2   == QUEUE_INSERT(q, pos, u)
               f2   == [f EXCEPT ![u] = n]
               last == RunEnd(q2, f2, n, pos)
               n2   == n + (last - pos) + 1
               p2   == q2[last]
           IN  /\ NumbersOK(q2, f2, n2, p2) /\ Elems(q2) = Elems(q) \cup {u}
               /\ q2 \in Seq(Task) /\ f2 \in [Task -> Nat] /\ n2 \in Nat \ {0} /\ p2 \in Task
<1> DEFINE pos  == PlaceFor(q, p)
           q2   == QUEUE_INSERT(q, pos, u)
           f2   == [f EXCEPT ![u] = n]
           P(j) == /\ \A i \in pos .. j : f2[q2[i]] = n + (i - pos)
                   /\ j < Len(q2) => f2[q2[j + 1]] # n + (j + 1 - pos)
           last == RunEnd(q2, f2, n, pos)
           M    == {j \in n .. Len(q2) : j < Len(q2) => f2[q2[j + 1]] # j + 1}
<1>1. /\ \A x, y \in 1 .. Len(q) : x < y => f[q[x]] < f[q[y]]
      /\ \A x \in 1 .. Len(q) : IF x < n THEN f[q[x]] = x ELSE f[q[x]] > n
      /\ n - 1 <= Len(q) /\ p = IF n = 1 THEN NULL ELSE q[n - 1]
      /\ \A x \in 1 .. Len(q) : q[x] \in Task /\ f[q[x]] \in Nat /\ q[x] # u
      /\ Len(q) \in Nat /\ n \in Nat /\ 1 <= n
  BY DEF NumbersOK, Elems
<1>2. NoDuplicates(q) /\ NULL \notin Task
  BY NumbersDiffer, TaskAssumption
<1>3. pos = n
  <2>1. CASE n = 1
    BY <1>1, <2>1 DEF PlaceFor
  <2>2. CASE n # 1
    <3>1. n - 1 \in 1 .. Len(q) /\ q[n - 1] = p /\ p # NULL
      BY <1>1, <1>2, <2>2
    <3>2. \A x \in 1 .. Len(q) : q[x] = p <=> x = n - 1
      BY <1>2, <3>1 DEF NoDuplicates
    <3>3. (CHOOSE i \in 1 .. Len(q) : q[i] = p) = n - 1
      BY <3>1, <3>2
    <3> QED
      BY <1>1, <3>1, <3>3, SMTT(40) DEF PlaceFor
  <2> QED
    BY <2>1, <2>2
<1>4. q2 = [j \in 1 .. (Len(q) + 1) |-> IF j < n THEN q[j] ELSE IF j = n THEN u ELSE q[j - 1]]
  BY <1>3 DEF QUEUE_INSERT
<1>5. f2 \in [Task -> Nat] /\ f2[u] = n /\ \A t \in Task : t # u => f2[t] = f[t]
  BY <1>1
<1> HIDE DEF q2, f2, pos
<1>6. /\ \A x \in 1 .. (Len(q) + 1) :
            q2[x] = IF x < n THEN q[x] ELSE IF x = n THEN u ELSE q[x - 1]
      /\ \A x \in 1 .. (Len(q) + 1) : q2[x] \in Task
  BY <1>1, <1>4
<1>7. q2 \in Seq(Task) /\ Len(q2) = Len(q) + 1
  <2>1. q2 \in [1 .. (Len(q) + 1) -> Task]
    BY <1>4, <1>6
  <2> QED
    BY <1>1, <2>1
<1>8. ASSUME NEW x \in 1 .. Len(q2)
      PROVE  /\ x < n => x \in 1 .. Len(q) /\ f2[q2[x]] = x
             /\ x = n => f2[q2[x]] = n
             /\ x > n => /\ x - 1 \in 1 .. Len(q) /\ f2[q2[x]] = f[q[x - 1]]
                         /\ f2[q2[x]] > n
             /\ f2[q2[x]] \in Nat
  <2>1. CASE x < n
    <3>1. x \in 1 .. Len(q) /\ q2[x] = q[x]
      BY <1>1, <1>6, <1>7, <2>1
    <3>2. q[x] \in Task /\ q[x] # u /\ f[q[x]] = x
      BY <1>1, <2>1, <3>1
    <3> QED
      BY <1>1, <1>5, <2>1, <3>1, <3>2, SMTT(40)
  <2>2. CASE x = n
    <3>1. q2[x] = u
      BY <1>1, <1>6, <1>7, <2>2
    <3> QED
      BY <1>1, <1>5, <2>2, <3>1
  <2>3. CASE x > n
    <3>1. x - 1 \in 1 .. Len(q) /\ ~(x - 1 < n) /\ q2[x] = q[x - 1]
      BY <1>1, <1>6, <1>7, <2>3, SMTT(40)
    <3>2. q[x - 1] \in Task /\ q[x - 1] # u /\ f[q[x - 1]] > n /\ f[q[x - 1]] \in Nat
      BY <1>1, <3>1
    <3> QED
      BY <1>1, <1>5, <2>3, <3>1, <3>2
  <2> QED
    BY <1>1, <1>7, <2>1, <2>2, <2>3
<1>9. ASSUME NEW x \in 1 .. Len(q2), NEW y \in 1 .. Len(q2), x < y
      PROVE  f2[q2[x]] < f2[q2[y]]
  <2>1. CASE x <= n
    BY <1>1, <1>8, <1>9, <2>1, SMTT(40)
  <2>2. CASE x > n
    <3>1. y > n
      BY <1>1, <1>9, <2>2
    <3>2. x - 1 \in 1 .. Len(q) /\ y - 1 \in 1 .. Len(q) /\ x - 1 < y - 1
      BY <1>8, <1>9, <2>2, <3>1
    <3>3. f[q[x - 1]] < f[q[y - 1]]
      BY <1>1, <3>2
    <3> QED
      BY <1>8, <2>2, <3>1, <3>3
  <2> QED
    BY <1>1, <2>1, <2>2
<1>10. last \in n .. Len(q2) /\ P(last)
  <2>1. Len(q2) \in Nat /\ Len(q2) \in M /\ M \in SUBSET Nat /\ n <= Len(q2)
    BY <1>1, <1>7
  <2>2. PICK m \in M : \A j \in M : m <= j
    BY <2>1, LeastNatural
  <2>3. m \in n .. Len(q2) /\ (m < Len(q2) => f2[q2[m + 1]] # m + 1)
    BY <2>2
  <2>4. ASSUME NEW i \in n .. m
        PROVE  f2[q2[i]] = i
    <3>1. CASE i = n
      BY <1>1, <1>8, <2>1, <3>1
    <3>2. CASE i # n
      <4>1. i - 1 \in n .. Len(q2) /\ i - 1 < Len(q2) /\ ~(m <= i - 1) /\ (i - 1) + 1 = i
        BY <1>1, <2>1, <2>3, <3>2
      <4>2. i - 1 \notin M
        BY <2>2, <4>1
      <4> QED
        BY <4>1, <4>2
    <3> QED
      BY <3>1, <3>2
  <2>5. P(m)
    <3>1. \A i \in n .. m : n + (i - n) = i
      BY <1>1
    <3>2. n + (m + 1 - n) = m + 1
      BY <1>1, <2>3
    <3> QED
      BY <1>3, <2>3, <2>4, <3>1, <3>2
  <2>6. last = CHOOSE j \in pos .. Len(q2) : P(j)
    BY DEF RunEnd
  <2> HIDE DEF P, last
  <2>7. \E j \in pos .. Len(q2) : P(j)
    BY <1>3, <2>3, <2>5
  <2>8. last \in pos .. Len(q2) /\ P(last)
    BY <2>6, <2>7
  <2> QED
    BY <1>3, <2>8
<1> HIDE DEF last
<1>11. /\ last \in Nat /\ n <= last /\ last <= Len(q2) /\ last \in 1 .. Len(q2)
       /\ \A i \in n .. last : f2[q2[i]] = i
       /\ last < Len(q2) => f2[q2[last + 1]] # last + 1
       /\ n + (last - pos) + 1 = last + 1
  <2>1. last \in Nat /\ n <= last /\ last <= Len(q2) /\ last \in 1 .. Len(q2)
    BY <1>1, <1>7, <1>10
  <2>2. \A i \in n .. last : n + (i - n) = i
    BY <1>1
  <2>3. n + (last + 1 - n) = last + 1 /\ n + (last - n) + 1 = last + 1
    BY <1>1, <2>1
  <2> QED
    BY <1>3, <1>10, <2>1, <2>2, <2>3
<1> HIDE DEF P, M
<1>12. \A x \in 1 .. Len(q2) : IF x < last + 1 THEN f2[q2[x]] = x ELSE f2[q2[x]] > last + 1
  <2> SUFFICES ASSUME NEW x \in 1 .. Len(q2)
               PROVE  IF x < last + 1 THEN f2[q2[x]] = x ELSE f2[q2[x]] > last + 1
    OBVIOUS
  <2>1. CASE x < last + 1
    BY <1>1, <1>8, <1>11, <2>1
  <2>2. CASE ~(x < last + 1)
    <3>1. last + 1 \in 1 .. Len(q2) /\ last < Len(q2) /\ last < last + 1
      BY <1>11, <2>2
    <3>2. f2[q2[last]] = last /\ f2[q2[last]] < f2[q2[last + 1]]
      BY <1>9, <1>11, <3>1
    <3>3. f2[q2[last + 1]] \in Nat /\ f2[q2[last + 1]] > last + 1
      BY <1>8, <1>11, <3>1, <3>2
    <3>4. x = last + 1 \/ f2[q2[last + 1]] < f2[q2[x]]
      BY <1>9, <1>11, <2>2, <3>1
    <3> QED
      BY <1>8, <1>11, <2>2, <3>3, <3>4
  <2> QED
    BY <2>1, <2>2
<1>13. NumbersOK(q2, f2, last + 1, q2[last])
  <2>1. (last + 1) - 1 = last /\ last + 1 # 1
    BY <1>1, <1>11
  <2> QED
    BY <1>9, <1>11, <1>12, <2>1 DEF NumbersOK
<1>14. Elems(q2) = Elems(q) \cup {u}
  <2>1. ASSUME NEW x \in 1 .. Len(q2) PROVE q2[x] \in Elems(q) \cup {u}
    BY <1>1, <1>6, <1>7 DEF Elems
  <2>2. ASSUME NEW x \in 1 .. Len(q) PROVE q[x] \in Elems(q2)
    <3>1. CASE x < n
      <4>1. x \in 1 .. Len(q2) /\ q2[x] = q[x]
        BY <1>1, <1>6, <1>7, <3>1, SMTT(40)
      <4> QED
        BY <4>1 DEF Elems
    <3>2. CASE ~(x < n)
      <4>1. x + 1 \in 1 .. Len(q2) /\ ~(x + 1 < n) /\ x + 1 # n /\ (x + 1) - 1 = x
        BY <1>1, <1>7, <3>2
      <4>2. q2[x + 1] = q[x]
        BY <1>6, <1>7, <4>1
      <4> QED
        BY <4>1, <4>2 DEF Elems
    <3> QED
      BY <3>1, <3>2
  <2>3. u \in Elems(q2)
    BY <1>1, <1>6, <1>7 DEF Elems
  <2> QED
    BY <2>1, <2>2, <2>3 DEF Elems
<1>15. q2[last] \in Task /\ last + 1 \in Nat \ {0}
  BY <1>6, <1>7, <1>11
<1> QED
  BY <1>5, <1>7, <1>11, <1>13, <1>14, <1>15 DEF q2, f2, pos, last, P

\* What NumbersOK says of the numbers.
LEMMA NumbersFit ==
    ASSUME NEW q \in Seq(Task), NEW f \in [Task -> Nat], NEW n \in Nat \ {0}, NEW p,
           NumbersOK(q, f, n, p)
    PROVE  {f[t] : t \in Elems(q)} \cap (1 .. n) = 1 .. (n - 1)
<1>1. /\ \A x \in 1 .. Len(q) : IF x < n THEN f[q[x]] = x ELSE f[q[x]] > n
      /\ n - 1 <= Len(q) /\ Len(q) \in Nat
  BY DEF NumbersOK
<1>2. ASSUME NEW t \in Elems(q), f[t] \in 1 .. n PROVE f[t] \in 1 .. (n - 1)
  <2>1. PICK x \in 1 .. Len(q) : t = q[x]
    BY DEF Elems
  <2> QED
    BY <1>1, <1>2, <2>1
<1>3. ASSUME NEW x \in 1 .. (n - 1) PROVE \E t \in Elems(q) : f[t] = x
  <2>1. x \in 1 .. Len(q) /\ x < n
    BY <1>1
  <2> QED
    BY <1>1, <2>1 DEF Elems
<1> QED
  BY <1>2, <1>3

(***************************************************************************)
(* Every step keeps the invariant.                                          *)
(***************************************************************************)
\* What the invariant says of task t.
Known(t) ==
    /\ Shape(op[t]) /\ RefersOK(op[t], Elems(TD_LIST), freed, k.TD_STATE)
    /\ TaskOK(t, op[t], k.TD_STATE, k.INFO, k.ON_TIMEOUT_Q)
    /\ MemoryOK(t, op[t], Elems(TD_LIST), freed, k.TD_STATE)

\* What it says of the active task and of all the others.
LEMMA Now ==
    ASSUME Inv
    PROVE  /\ k \in Kernel /\ td \in Task /\ op \in [Task -> Calls]
           /\ k.TD_STATE \in [Task -> State] /\ k.INFO \in [Task -> Info]
           /\ k.ON_TIMEOUT_Q \in SUBSET Task /\ td \notin k.ON_TIMEOUT_Q
           /\ \/ k.TD_STATE[td] = "READY"
              \/ /\ k.TD_STATE[td] = "DYING" /\ op[td].td = td
                 /\ Disposes(op[td]) \/ Stopped(op[td])
           /\ \A t \in Task : Known(t)
           /\ \A t \in Task, s \in Queue :
                 t \in Elems(k.QUEUE[s]) <=> k.TD_STATE[t] \in WaitStates /\ k.INFO[t] = s
           /\ KernelOK(k, op) /\ Alone(op)
<1>1. /\ KernelOK(k, op) /\ Alone(op) /\ op \in [Task -> Calls]
      /\ \A t \in Task : Known(t)
  BY DEF Inv, CallsOK, Known, TypeOK
<1>2. /\ k \in Kernel /\ td \in Task /\ k.TD_STATE \in [Task -> State]
      /\ k.INFO \in [Task -> Info] /\ k.ON_TIMEOUT_Q \in SUBSET Task
      /\ td \notin k.ON_TIMEOUT_Q
      /\ k.TD_STATE[td] = "READY" \/ td \in Enders(op, k.TD_STATE)
      /\ \A t \in Task, s \in Queue :
            t \in Elems(k.QUEUE[s]) <=> k.TD_STATE[t] \in WaitStates /\ k.INFO[t] = s
  BY <1>1, KernelFacts DEF td
<1>3. td \in Enders(op, k.TD_STATE) =>
         /\ k.TD_STATE[td] = "DYING" /\ op[td].td = td
         /\ Disposes(op[td]) \/ Stopped(op[td])
  <2> SUFFICES ASSUME td \in Enders(op, k.TD_STATE)
               PROVE  /\ k.TD_STATE[td] = "DYING" /\ op[td].td = td
                      /\ Disposes(op[td]) \/ Stopped(op[td])
    OBVIOUS
  <2>1. k.TD_STATE[td] = "DYING" /\ op[td].td = td
    BY DEF Enders
  <2>2. NoCall.td = NULL /\ NULL \notin Task
    BY TaskAssumption DEF NoCall
  <2>3. op[td] # NoCall
    BY <1>2, <2>1, <2>2
  <2> QED
    BY <1>1, <1>2, <2>1, <2>3 DEF Known, TaskOK
<1> QED
  BY <1>1, <1>2, <1>3

\* The parts of the invariant that most steps are about.
LEMMA Assemble ==
    ASSUME Inv, UNCHANGED lists, freed' \in SUBSET Task, created' \in Nat,
           op' \in [Task -> Calls], KernelOK(k', op'),
           CallsOK(op', Elems(TD_LIST), freed', k'.TD_STATE, k'.INFO, k'.ON_TIMEOUT_Q),
           TokenOK(VALUE', op', k'.TD_STATE, k'.INFO)
    PROVE  Inv'
<1>1. VALUE' \in Nat
  BY DEF TokenOK
<1>2. k' \in Kernel
  BY DEF KernelOK
<1>3. /\ TD_LIST' = TD_LIST /\ TASK_ID' = TASK_ID /\ TASK_NUMBER' = TASK_NUMBER
      /\ INSERT_TD_PTR' = INSERT_TD_PTR
  BY DEF lists
<1>4. TypeOK'
  BY <1>1, <1>2, <1>3 DEF Inv, TypeOK
<1>5. NumbersOK(TD_LIST, TASK_ID, TASK_NUMBER, INSERT_TD_PTR)'
  BY <1>3 DEF Inv, NumbersOK
<1>6. Elems(TD_LIST)' = Elems(TD_LIST)
  BY <1>3 DEF Elems
<1> QED
  BY <1>3, <1>4, <1>5, <1>6 DEF Inv

\* The token stays where it is.
LEMMA TokenKept ==
    ASSUME NEW v, NEW o, NEW D, NEW I, TokenOK(v, o, D, I), NEW o2, NEW D2, NEW I2,
           \A t \in Task : Has(o2[t], D2[t], I2[t]) <=> Has(o[t], D[t], I[t])
    PROVE  TokenOK(v, o2, D2, I2)
<1>1. Having(o2, D2, I2) = Having(o, D, I)
  BY DEF Having
<1> QED
  BY <1>1 DEF TokenOK

\* The task that has the token is the only one, and there is none left.
LEMMA TokenTaken ==
    ASSUME NEW v, NEW o, NEW D, NEW I, TokenOK(v, o, D, I), NEW a \in Task,
           Has(o[a], D[a], I[a])
    PROVE  v = 0 /\ \A t \in Task : Has(o[t], D[t], I[t]) <=> t = a
<1>1. a \in Having(o, D, I)
  BY DEF Having
<1>2. PICK h \in Task : v = 0 /\ Having(o, D, I) = {h}
  BY <1>1 DEF TokenOK
<1>3. h = a
  BY <1>1, <1>2
<1> QED
  BY <1>2, <1>3 DEF Having

\* The one token, free or with a.
LEMMA TokenMade ==
    ASSUME NEW o, NEW D, NEW I
    PROVE  /\ \A a \in Task : (\A t \in Task : Has(o[t], D[t], I[t]) <=> t = a)
                 => TokenOK(0, o, D, I)
           /\ (\A t \in Task : ~Has(o[t], D[t], I[t])) => TokenOK(1, o, D, I)
<1>1. ASSUME NEW a \in Task, \A t \in Task : Has(o[t], D[t], I[t]) <=> t = a
      PROVE  TokenOK(0, o, D, I)
  <2>1. Having(o, D, I) = {a}
    BY <1>1 DEF Having
  <2> QED
    BY <2>1 DEF TokenOK
<1>2. ASSUME \A t \in Task : ~Has(o[t], D[t], I[t])
      PROVE  TokenOK(1, o, D, I)
  <2>1. Having(o, D, I) = {}
    BY <1>2 DEF Having
  <2> QED
    BY <2>1 DEF TokenOK
<1> QED
  BY <1>1, <1>2

\* Who is destroying himself when the calls of one task, ready, change.
LEMMA EndersKept ==
    ASSUME NEW o \in [Task -> Calls], NEW D, NEW a \in Task, NEW c,
           D[a] # "DYING" \/ (o[a].td = a <=> c.td = a)
    PROVE  Enders([o EXCEPT ![a] = c], D) = Enders(o, D)
BY DEF Enders

\* Nobody makes, restarts or destroys a task that is ready or waits.
LEMMA LivingAllowed ==
    ASSUME Inv, NEW v \in Task, k.TD_STATE[v] \in {"READY", "LWSEM_BLOCKED"}, NEW st
    PROVE  Allowed(op, v, st)
<1>1. \A u \in Task : RefersOK(op[u], Elems(TD_LIST), freed, k.TD_STATE)
  BY Now DEF Known
<1> QED
  BY <1>1 DEF Allowed, RefersOK

\* The active task blocks on s.
LEMMA BlockStep ==
    ASSUME Inv, td # Idle, k.TD_STATE[td] = "READY", NEW s \in Queue, NEW timed \in BOOLEAN,
           NEW n \in Int, k' = Block(s, timed, n), NEW o2,
           \A t \in Task \ {td} : t \in Enders(o2, k.TD_STATE) <=> t \in Enders(op, k.TD_STATE)
    PROVE  /\ KernelOK(k', o2)
           /\ Fields(k', [k.TD_STATE EXCEPT ![td] = "LWSEM_BLOCKED"],
                     [k.INFO EXCEPT ![td] = s],
                     IF timed THEN k.ON_TIMEOUT_Q \cup {td} ELSE k.ON_TIMEOUT_Q)
<1>1. PICK i : i = Waiting(k, td, s, "LWSEM_BLOCKED", Append(k.QUEUE[s], td))
  OBVIOUS
<1>2. k' = IF timed THEN time_delay_internal(i, td, n) ELSE Dispatch(UnlinkReady(i, td))
  BY <1>1 DEF Block, Waiting
<1>3. KernelOK(k, op) /\ td \in Task /\ td = k.ACTIVE_PTR
  BY Now DEF td
<1> HIDE DEF td
<1> QED
  BY <1>1, <1>2, <1>3, BlockKernel, ZenonT(60)

\* The active task asks for TASK_CREATE_LWSEM and goes on to call c, with or without
\* waiting for it.
LEMMA SerializeStep ==
    ASSUME Inv, td # Idle, k.TD_STATE[td] = "READY", Serialize,
           op[td].at \notin {"build", "victim", "cleanup", "post"},
           NEW c \in Calls, c.at \in {"build", "victim"}, Shape(c),
           Restarts(c) => c.td \in Elems(TD_LIST), Apart(op, td, c),
           op' = [op EXCEPT ![td] = c], UNCHANGED <<lists, freed>>, created' \in Nat
    PROVE  Inv'
<1> DEFINE D == k.TD_STATE
           L == Elems(TD_LIST)
<1>1. /\ k \in Kernel /\ td \in Task /\ op \in [Task -> Calls] /\ D \in [Task -> State]
      /\ td \notin k.ON_TIMEOUT_Q /\ KernelOK(k, op) /\ Known(td) /\ k.INFO \in [Task -> Info]
      /\ freed \in SUBSET Task
  BY Now DEF Inv, TypeOK
<1> HIDE DEF td
<1>2. ~Creates(c) /\ ~Stopped(c) /\ ~Disposes(c) /\ c # NoCall
  BY DEF Creates, Stopped, Disposes, Shape, Restarts, NoCall
<1>3. \A E : RefersOK(c, L, freed, E)
  BY <1>2 DEF RefersOK
<1>4. Allowed(op, td, "READY") /\ Allowed(op, td, "LWSEM_BLOCKED")
  BY <1>1, LivingAllowed
<1>5. MemoryOK(td, op[td], L, freed, D) /\ td \in L /\ td \notin freed
  BY <1>1 DEF Known, MemoryOK
<1>6. CallsOK(op, L, freed, D, k.INFO, k.ON_TIMEOUT_Q) /\ TokenOK(VALUE, op, D, k.INFO)
  BY DEF Inv
<1>7. Enders(op', D) = Enders(op, D)
  BY <1>1, EndersKept, ZenonT(60)
<1>8. op' \in [Task -> Calls] /\ op'[td] = c /\ \A t \in Task \ {td} : op'[t] = op[t]
  BY <1>1
<1>9. CASE VALUE <= 0
  <2>1. TASK_CREATE_LWSEM \in Queue /\ 0 \in Int /\ FALSE \in BOOLEAN
    BY TaskAssumption
  <2>2. k' = Block(TASK_CREATE_LWSEM, FALSE, 0) /\ VALUE' = VALUE
    BY <1>9 DEF Serialize
  <2>3. /\ KernelOK(k', op')
        /\ Fields(k', [D EXCEPT ![td] = "LWSEM_BLOCKED"],
                  [k.INFO EXCEPT ![td] = TASK_CREATE_LWSEM], k.ON_TIMEOUT_Q)
    BY <1>7, <2>1, <2>2, BlockStep
  <2> DEFINE D2 == k'.TD_STATE
             I2 == k'.INFO
  <2>4. /\ D2 = [D EXCEPT ![td] = "LWSEM_BLOCKED"] /\ k'.ON_TIMEOUT_Q = k.ON_TIMEOUT_Q
        /\ I2 = [k.INFO EXCEPT ![td] = TASK_CREATE_LWSEM] /\ "LWSEM_BLOCKED" \in State
    BY <2>3 DEF Fields, State, AuxStates
  <2>5. /\ D2[td] = "LWSEM_BLOCKED" /\ I2[td] = TASK_CREATE_LWSEM
        /\ \A t \in Task \ {td} : D2[t] = D[t] /\ I2[t] = k.INFO[t]
    BY <1>1, <2>4
  <2> HIDE DEF D2, I2, L
  <2>6. TaskOK(td, c, D2, I2, k.ON_TIMEOUT_Q) /\ MemoryOK(td, c, L, freed, D2)
    BY <1>1, <1>5, <2>5 DEF TaskOK, MemoryOK
  <2>7. CallsOK(op', L, freed, D2, I2, k.ON_TIMEOUT_Q)
    <3>1. D2 = [D EXCEPT ![td] = "LWSEM_BLOCKED"] /\ "LWSEM_BLOCKED" \in State
      BY <2>4
    <3>2. \A t \in Task \ {td} : I2[t] = k.INFO[t]
      BY <2>5
    <3>3. RefersOK(c, L, freed, D2)
      BY <1>3
    <3>4. Moves(op, L, freed, D, k.INFO, k.ON_TIMEOUT_Q, td, c, "LWSEM_BLOCKED",
                op', D2, I2, k.ON_TIMEOUT_Q)
      BY <1>1, <1>4, <2>6, <3>1, <3>2, <3>3 DEF Moves
    <3> QED
      BY <1>6, <3>4, OneTask
  <2>8. TokenOK(VALUE', op', D2, I2)
    <3>1. ~Has(op[td], D[td], k.INFO[td]) /\ ~Has(op'[td], D2[td], I2[td])
      BY <2>5 DEF Has
    <3>2. \A t \in Task : Has(op'[t], D2[t], I2[t]) <=> Has(op[t], D[t], k.INFO[t])
      BY <1>8, <2>5, <3>1
    <3> QED
      BY <1>6, <2>2, <3>2, TokenKept
  <2> QED
    BY <1>1, <1>8, <2>3, <2>4, <2>7, <2>8, Assemble DEF D2, I2, L
<1>10. CASE ~(VALUE <= 0)
  <2>1. VALUE' = VALUE - 1 /\ k' = k
    BY <1>10 DEF Serialize
  <2>2. VALUE = 1 /\ Having(op, D, k.INFO) = {}
    BY <1>6, <1>10 DEF TokenOK
  <2>3. KernelOK(k', op')
    BY <1>1, <1>7, <2>1, CallsChange
  <2>4. TaskOK(td, c, D, k.INFO, k.ON_TIMEOUT_Q) /\ MemoryOK(td, c, L, freed, D)
    BY <1>1, <1>5 DEF TaskOK, MemoryOK
  <2>5. D = [D EXCEPT ![td] = "READY"] /\ "READY" \in State
    BY <1>1, States
  <2> HIDE DEF D, L
  <2>6. CallsOK(op', L, freed, D, k.INFO, k.ON_TIMEOUT_Q)
    <3>1. Moves(op, L, freed, D, k.INFO, k.ON_TIMEOUT_Q, td, c, "READY",
                op', D, k.INFO, k.ON_TIMEOUT_Q)
      BY <1>1, <1>3, <1>4, <2>4, <2>5 DEF Moves
    <3> QED
      BY <1>6, <3>1, OneTask
  <2>7. TokenOK(VALUE', op', D, k.INFO)
    <3>1. Has(op'[td], D[td], k.INFO[td])
      BY <1>8 DEF Has, D
    <3>2. \A t \in Task : Has(op'[t], D[t], k.INFO[t]) <=> t = td
      BY <1>1, <1>8, <2>2, <3>1 DEF Having
    <3>3. VALUE' = 0
      BY <2>1, <2>2
    <3> QED
      BY <1>1, <3>2, <3>3, TokenMade
  <2> QED
    BY <1>1, <1>8, <2>1, <2>3, <2>6, <2>7, Assemble DEF D, L
<1> QED
  BY <1>9, <1>10

\* _task_create and _task_create_blocked begin.
LEMMA CreateStep ==
    ASSUME Inv, NEW then \in {"ready", "blocked"}, task_create(then)
    PROVE  Inv'
<1> DEFINE c == [NoCall EXCEPT !.at = "build", !.then = then]
<1>1. td # Idle /\ op[td] = NoCall /\ Serialize /\ UNCHANGED <<lists, freed>>
  BY DEF task_create, Free
<1>2. c \in Calls /\ c.at = "build" /\ c.td = NULL /\ c.then = then
  BY DEF Calls, NoCall
<1>3. Shape(c) /\ ~Restarts(c) /\ Apart(op, td, c)
  BY <1>2 DEF Shape, Restarts, Apart
<1>4. op' = [op EXCEPT ![td] = c] /\ created' \in Nat
  BY DEF task_create, Inv, TypeOK
<1>5. /\ op[td].at \notin {"build", "victim", "cleanup", "post"}
      /\ ~Disposes(op[td]) /\ ~Stopped(op[td])
  BY <1>1 DEF NoCall, Disposes, Stopped, Restarts
<1>6. k.TD_STATE[td] = "READY"
  BY <1>5, Now
<1> HIDE DEF c, td
<1> QED
  BY <1>1, <1>2, <1>3, <1>4, <1>5, <1>6, SerializeStep

\* _task_destroy and _task_restart ask for TASK_CREATE_LWSEM.
LEMMA DestroyWaitStep ==
    ASSUME Inv, DestroyWait
    PROVE  Inv'
<1> DEFINE c == [op[td] EXCEPT !.at = "victim"]
<1>1. op[td].at = "wait" /\ Serialize /\ UNCHANGED <<lists, freed, created>>
  BY DEF DestroyWait, At
<1>2. td \in Task /\ op \in [Task -> Calls] /\ Known(td) /\ Alone(op)
  BY Now
<1>3. c \in Calls /\ c.at = "victim" /\ c.td = op[td].td /\ c.then = op[td].then
  BY <1>2 DEF Calls
<1>4. op' = [op EXCEPT ![td] = c] /\ created' \in Nat
  BY <1>1, <1>2 DEF DestroyWait, Goto, Inv, TypeOK
<1>5. /\ op[td].td \in Task \ {Idle} /\ (op[td].then = "none" \/ Restarts(op[td]))
      /\ op[td] # NoCall
  BY <1>1, <1>2 DEF Known, Shape, NoCall
<1>6. ~Disposes(op[td]) /\ ~Stopped(op[td])
  BY <1>1, <1>5 DEF Disposes, Stopped, Restarts
<1>7. k.TD_STATE[td] = "READY" /\ td # Idle
  BY <1>2, <1>5, <1>6, Now DEF Known, TaskOK
<1> HIDE DEF td
<1>8. Restarts(c) <=> Restarts(op[td])
  BY <1>3 DEF Restarts
<1>9. Shape(c) /\ ~Creates(c) /\ ~Disposes(c)
  <2> HIDE DEF c
  <2> QED
    BY <1>3, <1>5, <1>8 DEF Shape, Creates, Disposes, Restarts
<1>10. Restarts(c) => c.td \in Elems(TD_LIST)
  BY <1>2, <1>3, <1>8 DEF Known, RefersOK
<1>11. Apart(op, td, c)
  <2> HIDE DEF c
  <2> SUFFICES ASSUME NEW u \in Task \ {td}, op[u].td = c.td, c.td # NULL
               PROVE  ~Restarts(c) /\ ~Creates(op[u]) /\ ~Restarts(op[u])
    BY <1>9 DEF Apart
  <2> QED
    BY <1>2, <1>3, <1>8 DEF Alone
<1> HIDE DEF c
<1> QED
  BY <1>1, <1>3, <1>4, <1>7, <1>9, <1>10, <1>11, SerializeStep

\* What may be said of the active task when its call becomes c.
LEMMA ActiveCall ==
    ASSUME Inv, NEW c,
           \/ k.TD_STATE[td] = "READY" /\ td # Idle
           \/ c = NoCall
           \/ td # Idle /\ c.td = td /\ (Disposes(c) \/ Stopped(c))
    PROVE  /\ TaskOK(td, c, k.TD_STATE, k.INFO, k.ON_TIMEOUT_Q)
           /\ MemoryOK(td, c, Elems(TD_LIST), freed, k.TD_STATE)
           /\ td \notin freed
<1>1. /\ td \in Task /\ td \notin k.ON_TIMEOUT_Q /\ Known(td)
      /\ \/ k.TD_STATE[td] = "READY"
         \/ k.TD_STATE[td] = "DYING" /\ op[td].td = td
  BY Now
<1> HIDE DEF td
<1>2. TaskOK(td, c, k.TD_STATE, k.INFO, k.ON_TIMEOUT_Q)
  BY <1>1 DEF TaskOK
<1>3. td \notin freed
  <2>1. NoCall.td # td
    BY <1>1, TaskAssumption DEF NoCall
  <2> QED
    BY <1>1, <2>1 DEF Known, MemoryOK
<1>4. MemoryOK(td, c, Elems(TD_LIST), freed, k.TD_STATE)
  BY <1>1, <1>3 DEF Known, MemoryOK
<1> QED
  BY <1>2, <1>3, <1>4

\* The active task goes on to call c.
LEMMA ActiveMoves ==
    ASSUME Inv, NEW c \in Calls, NEW o2, o2 = [op EXCEPT ![td] = c],
           Shape(c), RefersOK(c, Elems(TD_LIST), freed, k.TD_STATE), Apart(op, td, c),
           \/ k.TD_STATE[td] = "READY" /\ td # Idle
           \/ c = NoCall
           \/ td # Idle /\ c.td = td /\ (Disposes(c) \/ Stopped(c))
    PROVE  /\ o2 \in [Task -> Calls] /\ o2[td] = c /\ \A t \in Task \ {td} : o2[t] = op[t]
           /\ CallsOK(o2, Elems(TD_LIST), freed, k.TD_STATE, k.INFO, k.ON_TIMEOUT_Q)
           /\ k.TD_STATE[td] # "DYING" \/ (op[td].td = td <=> c.td = td) => KernelOK(k, o2)
<1> DEFINE D == k.TD_STATE
           L == Elems(TD_LIST)
<1>1. /\ k \in Kernel /\ td \in Task /\ op \in [Task -> Calls] /\ D \in [Task -> State]
      /\ KernelOK(k, op) /\ Known(td)
  BY Now, Zenon
<1>2. D[td] = "READY" \/ D[td] = "DYING"
  BY Now
<1>3. TaskOK(td, c, D, k.INFO, k.ON_TIMEOUT_Q) /\ MemoryOK(td, c, L, freed, D)
  BY ActiveCall
<1>4. CallsOK(op, L, freed, D, k.INFO, k.ON_TIMEOUT_Q)
  BY DEF Inv
<1> HIDE DEF td
<1>5. o2 \in [Task -> Calls] /\ o2[td] = c /\ \A t \in Task \ {td} : o2[t] = op[t]
  BY <1>1
<1>6. D[td] # "DYING" \/ (op[td].td = td <=> c.td = td) => KernelOK(k, o2)
  <2> SUFFICES ASSUME D[td] # "DYING" \/ (op[td].td = td <=> c.td = td)
               PROVE  KernelOK(k, o2)
    OBVIOUS
  <2>1. Enders(o2, D) = Enders(op, D)
    BY <1>1, EndersKept
  <2> QED
    BY <1>1, <2>1, CallsChange
<1>7. Allowed(op, td, D[td])
  <2>1. \A u \in Task : RefersOK(op[u], L, freed, D)
    BY Now DEF Known
  <2> QED
    BY <1>1, <1>2, <2>1 DEF Allowed, RefersOK
<1>8. D = [D EXCEPT ![td] = D[td]] /\ D[td] \in State
  BY <1>1
<1>9. Moves(op, L, freed, D, k.INFO, k.ON_TIMEOUT_Q, td, c, D[td],
            o2, D, k.INFO, k.ON_TIMEOUT_Q)
  BY <1>1, <1>3, <1>7, <1>8 DEF Moves
<1>10. CallsOK(o2, L, freed, D, k.INFO, k.ON_TIMEOUT_Q)
  BY <1>4, <1>9, OneTask
<1> QED
  BY <1>5, <1>6, <1>10

\* Only the call of the active task changes.
LEMMA CallStep ==
    ASSUME Inv, UNCHANGED <<k, VALUE, lists, freed, created>>, NEW c \in Calls,
           op' = [op EXCEPT ![td] = c],
           k.TD_STATE[td] = "READY" \/ (op[td].td = td <=> c.td = td),
           Shape(c), RefersOK(c, Elems(TD_LIST), freed, k.TD_STATE), Apart(op, td, c),
           \/ k.TD_STATE[td] = "READY" /\ td # Idle
           \/ c = NoCall
           \/ td # Idle /\ c.td = td /\ (Disposes(c) \/ Stopped(c)),
           Has(c, k.TD_STATE[td], k.INFO[td]) <=> Has(op[td], k.TD_STATE[td], k.INFO[td])
    PROVE  Inv'
<1>1. freed' \in SUBSET Task /\ created' \in Nat
  BY DEF Inv, TypeOK
<1>2. /\ op' \in [Task -> Calls] /\ op'[td] = c /\ \A t \in Task \ {td} : op'[t] = op[t]
      /\ CallsOK(op', Elems(TD_LIST), freed, k.TD_STATE, k.INFO, k.ON_TIMEOUT_Q)
      /\ k.TD_STATE[td] # "DYING" \/ (op[td].td = td <=> c.td = td) => KernelOK(k, op')
  BY ActiveMoves
<1>3. TokenOK(VALUE, op, k.TD_STATE, k.INFO)
  BY DEF Inv
<1> HIDE DEF td
<1>4. KernelOK(k', op')
  BY <1>2
<1>5. TokenOK(VALUE', op', k'.TD_STATE, k'.INFO)
  <2>1. \A t \in Task :
           Has(op'[t], k.TD_STATE[t], k.INFO[t]) <=> Has(op[t], k.TD_STATE[t], k.INFO[t])
    BY <1>2
  <2> QED
    BY <1>3, <2>1, TokenKept, ZenonT(60)
<1> QED
  BY <1>1, <1>2, <1>4, <1>5, Assemble

\* The active task is in the middle of a call.
LEMMA AtFacts ==
    ASSUME Inv, NEW at, op[td].at = at, at # "none"
    PROVE  /\ td # Idle /\ op[td] # NoCall /\ td \in Task /\ op \in [Task -> Calls]
           /\ at \in {"build", "wait", "victim", "ready", "blocked"} => k.TD_STATE[td] = "READY"
           /\ at = "post" /\ op[td].then \in {"none", "ready", "blocked"} => k.TD_STATE[td] = "READY"
           /\ k.TD_STATE[td] # "LWSEM_BLOCKED"
           /\ Shape(op[td]) /\ RefersOK(op[td], Elems(TD_LIST), freed, k.TD_STATE)
<1>1. /\ td \in Task /\ op \in [Task -> Calls] /\ Known(td)
      /\ \/ k.TD_STATE[td] = "READY"
         \/ k.TD_STATE[td] = "DYING" /\ (Disposes(op[td]) \/ Stopped(op[td]))
  BY Now
<1>2. op[td] # NoCall /\ td # Idle
  BY <1>1 DEF Known, TaskOK, NoCall
<1>3. Shape(op[td]) /\ RefersOK(op[td], Elems(TD_LIST), freed, k.TD_STATE)
  BY <1>1 DEF Known
<1>4. /\ at \in {"build", "wait", "victim", "ready", "blocked"} => ~Disposes(op[td]) /\ ~Stopped(op[td])
      /\ at = "post" /\ op[td].then \in {"none", "ready", "blocked"} => ~Disposes(op[td]) /\ ~Stopped(op[td])
  BY <1>2, <1>3 DEF Shape, Disposes, Stopped, Restarts
<1> QED
  BY <1>1, <1>2, <1>3, <1>4

\* The task is free to make a call.
LEMMA FreeFacts ==
    ASSUME Inv, Free
    PROVE  /\ td # Idle /\ op[td] = NoCall /\ td \in Task /\ op \in [Task -> Calls]
           /\ k.TD_STATE[td] = "READY" /\ NoCall.td = NULL /\ NULL \notin Task
           /\ op[td].at = "none"
<1>1. ~Disposes(NoCall) /\ ~Stopped(NoCall) /\ NoCall.td = NULL /\ NoCall.at = "none"
  BY DEF Disposes, Stopped, Restarts, NoCall
<1> QED
  BY <1>1, Now, TaskAssumption DEF Free

\* No memory for a new TD.
LEMMA BuildFailsStep ==
    ASSUME Inv, BuildFails
    PROVE  Inv'
<1> DEFINE c == [NoCall EXCEPT !.at = "post"]
<1>1. op[td].at = "build" /\ op' = [op EXCEPT ![td] = c] /\ UNCHANGED <<k, VALUE, lists, freed, created>>
  BY DEF BuildFails, At
<1>2. /\ c \in Calls /\ c.at = "post" /\ c.td = NULL /\ c.then = "none"
  BY DEF Calls, NoCall
<1>3. td # Idle /\ td \in Task /\ k.TD_STATE[td] = "READY"
  BY <1>1, AtFacts
<1> HIDE DEF c, td
<1>4. ~Creates(c) /\ ~Restarts(c) /\ ~Stopped(c) /\ ~Disposes(c)
  BY <1>2 DEF Creates, Restarts, Stopped, Disposes
<1>5. Shape(c) /\ RefersOK(c, Elems(TD_LIST), freed, k.TD_STATE) /\ Apart(op, td, c)
  BY <1>2, <1>4 DEF Shape, RefersOK, Apart
<1>6. Has(c, k.TD_STATE[td], k.INFO[td]) <=> Has(op[td], k.TD_STATE[td], k.INFO[td])
  BY <1>1, <1>2 DEF Has
<1> QED
  BY <1>1, <1>2, <1>3, <1>5, <1>6, CallStep

\* The task that was created blocked stays so.
LEMMA NewTaskBlockedStep ==
    ASSUME Inv, NewTaskBlocked
    PROVE  Inv'
<1>1. /\ op[td].at = "blocked" /\ op' = [op EXCEPT ![td] = NoCall]
      /\ k' = [k EXCEPT !.TD_STATE[op[td].td] = "BLOCKED"]
      /\ UNCHANGED <<VALUE, lists, freed, created>>
  BY DEF NewTaskBlocked, At, Leave
<1>2. /\ td # Idle /\ td \in Task /\ k.TD_STATE[td] = "READY"
      /\ Shape(op[td]) /\ RefersOK(op[td], Elems(TD_LIST), freed, k.TD_STATE)
  BY <1>1, AtFacts
<1>3. op[td].td \in Task /\ k.TD_STATE[op[td].td] = "BLOCKED"
  BY <1>1, <1>2 DEF Shape, RefersOK, Creates, NoCall
<1>4. k' = k
  BY <1>1, <1>3, Now DEF Kernel
<1>5. /\ NoCall \in Calls /\ NoCall.at = "none" /\ NoCall.td = NULL /\ Shape(NoCall)
      /\ ~Creates(NoCall) /\ ~Restarts(NoCall) /\ ~Stopped(NoCall) /\ ~Disposes(NoCall)
  BY DEF NoCall, Calls, Shape, Creates, Restarts, Stopped, Disposes
<1> HIDE DEF td
<1>6. RefersOK(NoCall, Elems(TD_LIST), freed, k.TD_STATE) /\ Apart(op, td, NoCall)
  BY <1>5 DEF RefersOK, Apart
<1>7. Has(NoCall, k.TD_STATE[td], k.INFO[td]) <=> Has(op[td], k.TD_STATE[td], k.INFO[td])
  BY <1>1, <1>5 DEF Has
<1> QED
  BY <1>1, <1>2, <1>4, <1>5, <1>6, <1>7, CallStep

\* _task_destroy begins.
LEMMA DestroyStep ==
    ASSUME Inv, NEW v \in Task, task_destroy(v)
    PROVE  Inv'
<1> DEFINE c == [NoCall EXCEPT !.at = "wait", !.td = v]
<1>1. /\ Free /\ v \in Named /\ ~Restarting(v)
      /\ op' = [op EXCEPT ![td] = c] /\ UNCHANGED <<k, VALUE, lists, freed, created>>
  BY DEF task_destroy
<1>2. c \in Calls /\ c.at = "wait" /\ c.td = v /\ c.then = "none"
  BY DEF Calls, NoCall
<1>3. td # Idle /\ td \in Task /\ k.TD_STATE[td] = "READY" /\ op[td].at = "none" /\ op \in [Task -> Calls]
  BY <1>1, FreeFacts
<1> HIDE DEF c, td
<1>4. ~Creates(c) /\ ~Restarts(c) /\ ~Stopped(c) /\ ~Disposes(c)
  BY <1>2 DEF Creates, Restarts, Stopped, Disposes
<1>5. v # Idle /\ \A u \in Task : op[u].td = v => ~Creates(op[u]) /\ ~Restarts(op[u])
  BY <1>1 DEF Named, Restarting, Creates, Restarts
<1>6. Shape(c) /\ RefersOK(c, Elems(TD_LIST), freed, k.TD_STATE) /\ Apart(op, td, c)
  BY <1>2, <1>4, <1>5 DEF Shape, RefersOK, Apart
<1>7. Has(c, k.TD_STATE[td], k.INFO[td]) <=> Has(op[td], k.TD_STATE[td], k.INFO[td])
  BY <1>2, <1>3 DEF Has
<1> QED
  BY <1>1, <1>2, <1>3, <1>6, <1>7, CallStep

\* _task_restart begins.
LEMMA RestartBegins ==
    ASSUME Inv, NEW v \in Task, NEW then \in {"restart", "restart_blocked"}, task_restart(v, then)
    PROVE  Inv'
<1> DEFINE c == [at |-> "wait", td |-> v, then |-> then]
<1>1. /\ Free /\ v \in Named /\ \A t \in Task : op[t].td # v
      /\ op' = [op EXCEPT ![td] = c] /\ UNCHANGED <<k, VALUE, lists, freed, created>>
  BY DEF task_restart
<1>2. c \in Calls /\ c.at = "wait" /\ c.td = v /\ c.then = then
  BY DEF Calls
<1>3. td # Idle /\ td \in Task /\ k.TD_STATE[td] = "READY" /\ op[td].at = "none"
  BY <1>1, FreeFacts
<1> HIDE DEF c, td
<1>4. ~Creates(c) /\ Restarts(c) /\ ~Stopped(c) /\ ~Disposes(c)
  BY <1>2 DEF Creates, Restarts, Stopped, Disposes
<1>5. v # Idle /\ v \in Elems(TD_LIST)
  BY <1>1 DEF Named
<1>6. Shape(c) /\ RefersOK(c, Elems(TD_LIST), freed, k.TD_STATE) /\ Apart(op, td, c)
  BY <1>1, <1>2, <1>4, <1>5 DEF Shape, RefersOK, Apart
<1>7. Has(c, k.TD_STATE[td], k.INFO[td]) <=> Has(op[td], k.TD_STATE[td], k.INFO[td])
  BY <1>2, <1>3 DEF Has
<1> QED
  BY <1>1, <1>2, <1>3, <1>6, <1>7, CallStep

\* What NoCall says: nothing.
LEMMA NoCallFacts ==
    /\ NoCall \in Calls /\ NoCall.at = "none" /\ NoCall.td = NULL /\ NoCall.td \notin Task
    /\ Shape(NoCall)
    /\ ~Creates(NoCall) /\ ~Restarts(NoCall) /\ ~Stopped(NoCall) /\ ~Disposes(NoCall)
    /\ \A L, F, D : RefersOK(NoCall, L, F, D)
    /\ \A o, v : Apart(o, v, NoCall)
    /\ \A st, i : ~Has(NoCall, st, i)
<1>1. /\ NoCall \in Calls /\ NoCall.at = "none" /\ NoCall.td = NULL /\ NoCall.td \notin Task
      /\ NoCall.then = "none"
  BY TaskAssumption DEF NoCall, Calls
<1>2. /\ ~Creates(NoCall) /\ ~Restarts(NoCall) /\ ~Stopped(NoCall) /\ ~Disposes(NoCall)
  BY <1>1 DEF Creates, Restarts, Stopped, Disposes
<1>3. Shape(NoCall)
  BY DEF Shape
<1>4. \A L, F, D : RefersOK(NoCall, L, F, D)
  BY <1>2 DEF RefersOK
<1>5. \A o, v : Apart(o, v, NoCall)
  BY <1>1 DEF Apart
<1>6. \A st, i : ~Has(NoCall, st, i)
  BY <1>1 DEF Has
<1> QED
  BY <1>1, <1>2, <1>3, <1>4, <1>5, <1>6

\* _TASK_READY, then the scheduler.
LEMMA ReadyScheduled ==
    ASSUME NEW j, NEW o, Settled(j, o), Alive(j, o, j.ACTIVE_PTR), NEW t \in Task,
           j.TD_STATE[t] \in {"BLOCKED", "DYING"}, t \notin Enders(o, j.TD_STATE),
           t \notin j.ON_TIMEOUT_Q
    PROVE  LET v == CHECK_RUN_SCHEDULER(TASK_READY(j, t))
           IN  /\ KernelOK(v, o)
               /\ Fields(v, [j.TD_STATE EXCEPT ![t] = "READY"], j.INFO, j.ON_TIMEOUT_Q)
<1>1. PICK i : i = TASK_READY(j, t)
  OBVIOUS
<1>2. /\ Settled(i, o) /\ i.ACTIVE_PTR = j.ACTIVE_PTR
      /\ Fields(i, [j.TD_STATE EXCEPT ![t] = "READY"], j.INFO, j.ON_TIMEOUT_Q)
  BY <1>1, ReadyKernel
<1>3. j.TD_STATE \in [Task -> State] /\ j.ACTIVE_PTR \in Task
  BY KernelFields DEF Settled
<1>4. Alive(i, o, i.ACTIVE_PTR)
  <2>1. PICK a \in Task : a = j.ACTIVE_PTR
    BY <1>3
  <2>2. a # t
    BY <2>1 DEF Alive
  <2>3. i.TD_STATE[a] = j.TD_STATE[a] /\ i.ON_TIMEOUT_Q = j.ON_TIMEOUT_Q
    BY <1>2, <1>3, <2>2 DEF Fields
  <2> QED
    BY <1>2, <2>1, <2>3 DEF Alive, Enders
<1>5. PICK v : v = CHECK_RUN_SCHEDULER(i)
  OBVIOUS
<1>6. KernelOK(v, o) /\ Fields(v, i.TD_STATE, i.INFO, i.ON_TIMEOUT_Q)
  BY <1>2, <1>4, <1>5, ScheduleKernel
<1>7. Fields(v, [j.TD_STATE EXCEPT ![t] = "READY"], j.INFO, j.ON_TIMEOUT_Q)
  BY <1>2, <1>6 DEF Fields
<1> QED
  BY <1>1, <1>5, <1>6, <1>7

\* A task in no call, which nobody makes, has stopped or destroys, is made ready or is
\* set up anew.
LEMMA Revived ==
    ASSUME NEW o \in [Task -> Calls], NEW L, NEW F, NEW D \in [Task -> State], NEW I, NEW T,
           CallsOK(o, L, F, D, I, T), NEW t \in Task,
           o[t] = NoCall, t \in L, t \notin T, NEW st \in {"READY", "BLOCKED"},
           \A u \in Task \ {t} : o[u].td = t =>
              ~Creates(o[u]) /\ ~Stopped(o[u]) /\ ~Disposes(o[u]),
           NEW D2, D2 = [D EXCEPT ![t] = st], NEW I2, \A u \in Task \ {t} : I2[u] = I[u]
    PROVE  CallsOK(o, L, F, D2, I2, T)
<1>1. o = [o EXCEPT ![t] = NoCall] /\ D2[t] = st /\ st \in State
  BY States
<1>2. MemoryOK(t, o[t], L, F, D)
  BY DEF CallsOK
<1>3. TaskOK(t, NoCall, D2, I2, T) /\ MemoryOK(t, NoCall, L, F, D2)
  BY <1>1, <1>2 DEF TaskOK, MemoryOK
<1>4. Allowed(o, t, st)
  BY DEF Allowed
<1>5. Moves(o, L, F, D, I, T, t, NoCall, st, o, D2, I2, T)
  BY <1>1, <1>3, <1>4, NoCallFacts DEF Moves
<1> QED
  BY <1>5, OneTask

\* A task that waits is made ready; its call goes on.
LEMMA Woken ==
    ASSUME NEW o \in [Task -> Calls], NEW L, NEW F, NEW D \in [Task -> State], NEW I, NEW T,
           CallsOK(o, L, F, D, I, T), NEW t \in Task, D[t] = "LWSEM_BLOCKED",
           NEW D2, D2 = [D EXCEPT ![t] = "READY"],
           NEW I2, \A u \in Task \ {t} : I2[u] = I[u]
    PROVE  CallsOK(o, L, F, D2, I2, T \ {t})
<1>1. /\ o = [o EXCEPT ![t] = o[t]] /\ D2[t] = "READY" /\ "READY" \in State
      /\ \A u \in Task \ {t} : D2[u] = D[u]
  BY States
<1>2. /\ Shape(o[t]) /\ RefersOK(o[t], L, F, D) /\ TaskOK(t, o[t], D, I, T)
      /\ MemoryOK(t, o[t], L, F, D) /\ Alone(o) /\ \A u \in Task : RefersOK(o[u], L, F, D)
  BY DEF CallsOK
<1>3. ~Creates(o[t]) /\ ~Stopped(o[t]) /\ ~Disposes(o[t])
  <2>1. o[t] = NoCall \/ o[t].at \in {"build", "victim"}
    BY <1>2 DEF TaskOK
  <2>2. CASE o[t] = NoCall
    BY <2>2, NoCallFacts
  <2>3. CASE o[t].at \in {"build", "victim"}
    BY <1>2, <2>3 DEF Shape, Creates, Stopped, Disposes, Restarts, NoCall
  <2> QED
    BY <2>1, <2>2, <2>3
<1>4. RefersOK(o[t], L, F, D2)
  BY <1>2, <1>3 DEF RefersOK
<1>5. TaskOK(t, o[t], D2, I2, T \ {t}) /\ MemoryOK(t, o[t], L, F, D2)
  BY <1>1, <1>2 DEF TaskOK, MemoryOK
<1>6. Allowed(o, t, "READY")
  BY <1>2 DEF Allowed, RefersOK
<1>7. Apart(o, t, o[t])
  BY <1>2 DEF Apart, Alone
<1>8. Moves(o, L, F, D, I, T, t, o[t], "READY", o, D2, I2, T \ {t})
  BY <1>1, <1>2, <1>4, <1>5, <1>6, <1>7 DEF Moves
<1> QED
  BY <1>8, OneTask

\* _task_ready
LEMMA TaskReadyStep ==
    ASSUME Inv, NEW t \in Task, task_ready(t)
    PROVE  Inv'
<1> DEFINE D == k.TD_STATE
           L == Elems(TD_LIST)
<1>1. /\ Free /\ t \in Named /\ D[t] = "BLOCKED"
      /\ k' = CHECK_RUN_SCHEDULER(TASK_READY(k, t))
      /\ UNCHANGED <<VALUE, lists, freed, op, created>>
  BY DEF task_ready
<1>2. Known(t) /\ D \in [Task -> State] /\ op \in [Task -> Calls] /\ KernelOK(k, op)
  BY Now, Zenon
<1>3. op[t] = NoCall /\ t \notin k.ON_TIMEOUT_Q /\ t \in L
  BY <1>1, <1>2 DEF Known, TaskOK, MemoryOK
<1>4. Settled(k, op) /\ Alive(k, op, k.ACTIVE_PTR) /\ t \notin Enders(op, D)
  BY <1>1, <1>2, OrderIsSettled DEF Enders
<1>5. KernelOK(k', op) /\ Fields(k', [D EXCEPT ![t] = "READY"], k.INFO, k.ON_TIMEOUT_Q)
  BY <1>1, <1>3, <1>4, ReadyScheduled
<1>6. \A u \in Task \ {t} : op[u].td = t =>
         ~Creates(op[u]) /\ ~Stopped(op[u]) /\ ~Disposes(op[u])
  <2>1. \A u \in Task : RefersOK(op[u], L, freed, D)
    BY Now DEF Known
  <2>2. \A u \in Task : op[u].td = t => ~Creates(op[u])
    BY <1>1 DEF Named, Creates
  <2> QED
    BY <1>1, <2>1, <2>2 DEF RefersOK
<1>7. CallsOK(op, L, freed, D, k.INFO, k.ON_TIMEOUT_Q) /\ TokenOK(VALUE, op, D, k.INFO)
  BY DEF Inv
<1>8. PICK D2 : D2 = [D EXCEPT ![t] = "READY"]
  OBVIOUS
<1>9. CallsOK(op, L, freed, D2, k.INFO, k.ON_TIMEOUT_Q)
  BY <1>2, <1>3, <1>6, <1>7, <1>8, Revived
<1>10. TokenOK(VALUE, op, D2, k.INFO)
  <2>1. ASSUME NEW u \in Task
        PROVE  Has(op[u], D2[u], k.INFO[u]) <=> Has(op[u], D[u], k.INFO[u])
    <3>1. CASE u = t
      BY <1>3, <3>1, NoCallFacts
    <3>2. CASE u # t
      BY <1>2, <1>8, <3>2
    <3> QED
      BY <3>1, <3>2
  <2> QED
    BY <1>7, <2>1, TokenKept
<1>11. k'.TD_STATE = D2 /\ k'.INFO = k.INFO /\ k'.ON_TIMEOUT_Q = k.ON_TIMEOUT_Q
  BY <1>5, <1>8 DEF Fields
<1>12. freed' \in SUBSET Task /\ created' \in Nat
  BY <1>1 DEF Inv, TypeOK
<1> HIDE DEF L
<1> QED
  BY <1>1, <1>2, <1>5, <1>9, <1>10, <1>11, <1>12, Assemble DEF L

\* The end of _task_create: the new task is made ready.
LEMMA ReadyNewTaskStep ==
    ASSUME Inv, ReadyNewTask
    PROVE  Inv'
<1> DEFINE D == k.TD_STATE
           L == Elems(TD_LIST)
           t == op[td].td
<1>1. /\ op[td].at = "ready" /\ k' = CHECK_RUN_SCHEDULER(TASK_READY(k, t))
      /\ op' = [op EXCEPT ![td] = NoCall] /\ UNCHANGED <<VALUE, lists, freed, created>>
  BY DEF ReadyNewTask, At, Leave
<1>2. /\ td # Idle /\ td \in Task /\ D[td] = "READY" /\ Shape(op[td])
      /\ RefersOK(op[td], L, freed, D)
  BY <1>1, AtFacts
<1>3. Creates(op[td]) /\ t \in Task
  BY <1>1, <1>2 DEF Shape, Creates, NoCall
<1>4. D[t] = "BLOCKED" /\ t \in L /\ t # td
  BY <1>2, <1>3 DEF RefersOK
<1>5. Known(t) /\ D \in [Task -> State] /\ op \in [Task -> Calls] /\ KernelOK(k, op) /\ Alone(op)
  BY <1>3, Now, Zenon
<1>6. op[t] = NoCall /\ t \notin k.ON_TIMEOUT_Q
  BY <1>4, <1>5 DEF Known, TaskOK
<1>7. /\ op' \in [Task -> Calls] /\ op'[td] = NoCall /\ \A u \in Task \ {td} : op'[u] = op[u]
      /\ CallsOK(op', L, freed, D, k.INFO, k.ON_TIMEOUT_Q)
      /\ KernelOK(k, op')
  BY <1>1, <1>2, ActiveMoves, NoCallFacts, ZenonT(60)
<1> HIDE DEF td, t
<1>8. Settled(k, op') /\ Alive(k, op', k.ACTIVE_PTR) /\ t \notin Enders(op', D)
  BY <1>4, <1>7, OrderIsSettled DEF Enders
<1>9. KernelOK(k', op') /\ Fields(k', [D EXCEPT ![t] = "READY"], k.INFO, k.ON_TIMEOUT_Q)
  BY <1>1, <1>3, <1>4, <1>6, <1>8, ReadyScheduled
<1>10. \A u \in Task : op'[u].td # t
  <2>1. ASSUME NEW u \in Task, u # td, op[u].td = t PROVE FALSE
    <3>1. op[td].td = t /\ t # NULL
      BY <1>3, TaskAssumption DEF t
    <3> QED
      BY <1>2, <1>3, <1>5, <2>1, <3>1 DEF Alone
  <2> QED
    BY <1>3, <1>7, <2>1, NoCallFacts
<1>11. PICK D2 : D2 = [D EXCEPT ![t] = "READY"]
  OBVIOUS
<1>12. op'[t] = NoCall
  BY <1>3, <1>4, <1>6, <1>7
<1>13. CallsOK(op', L, freed, D2, k.INFO, k.ON_TIMEOUT_Q)
  BY <1>3, <1>4, <1>5, <1>6, <1>7, <1>10, <1>11, <1>12, Revived
<1>14. TokenOK(VALUE, op', D2, k.INFO)
  <2>1. ASSUME NEW u \in Task
        PROVE  Has(op'[u], D2[u], k.INFO[u]) <=> Has(op[u], D[u], k.INFO[u])
    <3>1. CASE u = t
      BY <1>6, <1>12, <3>1, NoCallFacts
    <3>2. CASE u = td
      BY <1>1, <1>7, <3>2, NoCallFacts DEF Has
    <3>3. CASE u # t /\ u # td
      BY <1>5, <1>7, <1>11, <3>3
    <3> QED
      BY <3>1, <3>2, <3>3
  <2>2. TokenOK(VALUE, op, D, k.INFO)
    BY DEF Inv
  <2> QED
    BY <2>1, <2>2, TokenKept
<1>15. k'.TD_STATE = D2 /\ k'.INFO = k.INFO /\ k'.ON_TIMEOUT_Q = k.ON_TIMEOUT_Q
  BY <1>9, <1>11 DEF Fields
<1>16. freed' \in SUBSET Task /\ created' \in Nat
  BY <1>1 DEF Inv, TypeOK
<1> HIDE DEF L
<1> QED
  BY <1>1, <1>7, <1>9, <1>13, <1>14, <1>15, <1>16, Assemble DEF L

\* A task waits for a semaphore of the application.
LEMMA WaitStep ==
    ASSUME Inv, NEW s \in Sem, NEW timed \in BOOLEAN, NEW n \in Int, lwsem_wait(s, timed, n)
    PROVE  Inv'
<1> DEFINE D == k.TD_STATE
           L == Elems(TD_LIST)
           T == k.ON_TIMEOUT_Q
<1>1. /\ Free /\ k' = Block(s, timed, n) /\ UNCHANGED <<VALUE, lists, freed, op, created>>
      /\ s \in Queue /\ s # TASK_CREATE_LWSEM
  BY DEF lwsem_wait, Sem
<1>2. td # Idle /\ op[td] = NoCall /\ td \in Task /\ D[td] = "READY"
  BY <1>1, FreeFacts
<1>3. D \in [Task -> State] /\ op \in [Task -> Calls] /\ k.INFO \in [Task -> Info] /\ Known(td)
  BY <1>2, Now, Zenon
<1>4. PICK D2, I2, T2 : /\ D2 = [D EXCEPT ![td] = "LWSEM_BLOCKED"]
                        /\ I2 = [k.INFO EXCEPT ![td] = s]
                        /\ T2 = IF timed THEN T \cup {td} ELSE T
  OBVIOUS
<1>5. KernelOK(k', op) /\ Fields(k', D2, I2, T2)
  BY <1>1, <1>2, <1>4, BlockStep
<1>6. Allowed(op, td, "LWSEM_BLOCKED")
  BY <1>2, LivingAllowed
<1>7. CallsOK(op, L, freed, D, k.INFO, T) /\ TokenOK(VALUE, op, D, k.INFO)
  BY DEF Inv
<1> HIDE DEF td
<1>8. /\ D2[td] = "LWSEM_BLOCKED" /\ I2[td] = s /\ "LWSEM_BLOCKED" \in State
      /\ \A t \in Task \ {td} : D2[t] = D[t] /\ I2[t] = k.INFO[t] /\ (t \in T2 <=> t \in T)
  BY <1>2, <1>3, <1>4 DEF State, AuxStates
<1>9. TaskOK(td, NoCall, D2, I2, T2) /\ MemoryOK(td, NoCall, L, freed, D2)
  BY <1>1, <1>2, <1>3, <1>8 DEF TaskOK, MemoryOK, Known
<1>10. op = [op EXCEPT ![td] = NoCall]
  BY <1>2, <1>3
<1>11. Moves(op, L, freed, D, k.INFO, T, td, NoCall, "LWSEM_BLOCKED", op, D2, I2, T2)
  BY <1>2, <1>3, <1>4, <1>6, <1>8, <1>9, <1>10, NoCallFacts DEF Moves
<1>12. CallsOK(op, L, freed, D2, I2, T2)
  BY <1>7, <1>11, OneTask
<1>13. TokenOK(VALUE, op, D2, I2)
  <2>1. ASSUME NEW u \in Task
        PROVE  Has(op[u], D2[u], I2[u]) <=> Has(op[u], D[u], k.INFO[u])
    <3>1. CASE u = td
      BY <1>2, <3>1, NoCallFacts
    <3>2. CASE u # td
      BY <1>8, <3>2
    <3> QED
      BY <3>1, <3>2
  <2> QED
    BY <1>7, <2>1, TokenKept
<1>14. k'.TD_STATE = D2 /\ k'.INFO = I2 /\ k'.ON_TIMEOUT_Q = T2
  BY <1>5 DEF Fields
<1>15. freed' \in SUBSET Task /\ created' \in Nat
  BY <1>1 DEF Inv, TypeOK
<1> HIDE DEF L
<1> QED
  BY <1>1, <1>3, <1>5, <1>12, <1>13, <1>14, <1>15, Assemble DEF L

\* An interrupt posts a semaphore of the application.
LEMMA IsrPostStep ==
    ASSUME Inv, NEW s \in Sem, IsrPost(s)
    PROVE  Inv'
<1> DEFINE D == k.TD_STATE
           L == Elems(TD_LIST)
           T == k.ON_TIMEOUT_Q
<1>1. /\ k.QUEUE[s] # <<>> /\ k' = IsrReturn(HandOver(s))
      /\ UNCHANGED <<VALUE, lists, freed, op, created>>
      /\ s \in Queue /\ s # TASK_CREATE_LWSEM
  BY DEF IsrPost, Sem
<1>2. /\ D \in [Task -> State] /\ op \in [Task -> Calls] /\ k.INFO \in [Task -> Info]
      /\ KernelOK(k, op)
  BY Now, Zenon
<1>3. k' = IsrReturn(HandedOver(k, s, NULL))
  BY <1>1 DEF HandOver, HandedOver
<1>4. PICK t \in Task :
         /\ D[t] \in WaitStates /\ k.INFO[t] = s /\ KernelOK(k', op)
         /\ Fields(k', [D EXCEPT ![t] = "READY"], [k.INFO EXCEPT ![t] = NULL], T \ {t})
  <2>1. PICK v : v = k'
    OBVIOUS
  <2>2. v = IsrReturn(HandedOver(k, s, NULL))
    BY <1>3, <2>1
  <2>3. \E t \in Task :
           /\ D[t] \in WaitStates /\ k.INFO[t] = s /\ KernelOK(v, op)
           /\ Fields(v, [D EXCEPT ![t] = "READY"], [k.INFO EXCEPT ![t] = NULL], T \ {t})
    BY <1>1, <1>2, <2>2, HandOverKernel
  <2> QED
    BY <2>1, <2>3
<1>5. D[t] = "LWSEM_BLOCKED" /\ op[t] = NoCall
  <2>1. Known(t)
    BY Now
  <2>2. D[t] = "LWSEM_BLOCKED"
    BY <1>4, <2>1 DEF Known, TaskOK, WaitStates, AuxStates, QueueStates
  <2> QED
    BY <1>1, <1>4, <2>1, <2>2 DEF Known, TaskOK
<1>6. PICK D2, I2 : D2 = [D EXCEPT ![t] = "READY"] /\ I2 = [k.INFO EXCEPT ![t] = NULL]
  OBVIOUS
<1>7. \A u \in Task \ {t} : D2[u] = D[u] /\ I2[u] = k.INFO[u]
  BY <1>2, <1>6
<1>8. CallsOK(op, L, freed, D, k.INFO, T) /\ TokenOK(VALUE, op, D, k.INFO)
  BY DEF Inv
<1>9. CallsOK(op, L, freed, D2, I2, T \ {t})
  BY <1>2, <1>5, <1>6, <1>7, <1>8, Woken
<1>10. TokenOK(VALUE, op, D2, I2)
  <2>1. ASSUME NEW u \in Task
        PROVE  Has(op[u], D2[u], I2[u]) <=> Has(op[u], D[u], k.INFO[u])
    <3>1. CASE u = t
      BY <1>5, <3>1, NoCallFacts
    <3>2. CASE u # t
      BY <1>7, <3>2
    <3> QED
      BY <3>1, <3>2
  <2> QED
    BY <1>8, <2>1, TokenKept
<1>11. k'.TD_STATE = D2 /\ k'.INFO = I2 /\ k'.ON_TIMEOUT_Q = T \ {t}
  BY <1>4, <1>6 DEF Fields
<1>12. freed' \in SUBSET Task /\ created' \in Nat
  BY <1>1 DEF Inv, TypeOK
<1> HIDE DEF L
<1> QED
  BY <1>1, <1>2, <1>4, <1>9, <1>10, <1>11, <1>12, Assemble DEF L

\* The timer interrupt.
LEMMA TickStep ==
    ASSUME Inv, Tick
    PROVE  Inv'
<1> DEFINE D == k.TD_STATE
           L == Elems(TD_LIST)
           T == k.ON_TIMEOUT_Q
<1>1. k' = IsrReturn(time_notify_kernel(k)) /\ UNCHANGED <<VALUE, lists, freed, op, created>>
  BY DEF Tick
<1>2. /\ D \in [Task -> State] /\ op \in [Task -> Calls] /\ KernelOK(k, op)
      /\ T \in SUBSET Task
  BY Now, Zenon
<1>3. \A t \in T : D[t] = "LWSEM_BLOCKED"
  <2>1. \A t \in Task : Known(t)
    BY Now
  <2> QED
    BY <1>2, <2>1 DEF Known, TaskOK
<1>4. PICK S \in SUBSET T : KernelOK(k', op) /\ Fields(k', ReadyStates(D, S), k.INFO, T \ S)
  <2>1. PICK v : v = IsrReturn(time_notify_kernel(k))
    OBVIOUS
  <2>2. \E S \in SUBSET T : KernelOK(v, op) /\ Fields(v, ReadyStates(D, S), k.INFO, T \ S)
    BY <1>2, <1>3, <2>1, TickKernel
  <2> QED
    BY <1>1, <2>1, <2>2
<1>5. PICK D2 : D2 = ReadyStates(D, S)
  OBVIOUS
<1>6. CallsOK(op, L, freed, D, k.INFO, T) /\ TokenOK(VALUE, op, D, k.INFO)
  BY DEF Inv
<1>7. CallsOK(op, L, freed, D2, k.INFO, T \ S) /\ \A t \in S : op[t] = NoCall
  <2> HIDE DEF D, L, T
  <2>1. CallsOK(op, L, freed, ReadyStates(D, S), k.INFO, T \ S) /\ \A t \in S : op[t] = NoCall
    BY <1>2, <1>6, DelaysEnd
  <2> QED
    BY <1>5, <2>1
<1>8. TokenOK(VALUE, op, D2, k.INFO)
  <2>1. ASSUME NEW u \in Task
        PROVE  Has(op[u], D2[u], k.INFO[u]) <=> Has(op[u], D[u], k.INFO[u])
    <3>1. CASE u \in S
      BY <1>7, <3>1, NoCallFacts
    <3>2. CASE u \notin S
      BY <1>5, <3>2 DEF ReadyStates
    <3> QED
      BY <3>1, <3>2
  <2> QED
    BY <1>6, <2>1, TokenKept
<1>9. k'.TD_STATE = D2 /\ k'.INFO = k.INFO /\ k'.ON_TIMEOUT_Q = T \ S
  BY <1>4, <1>5 DEF Fields
<1>10. freed' \in SUBSET Task /\ created' \in Nat
  BY <1>1 DEF Inv, TypeOK
<1> HIDE DEF L
<1> QED
  BY <1>1, <1>2, <1>4, <1>7, <1>8, <1>9, <1>10, Assemble DEF L

\* What follows _lwsem_post in the call of the active task.
LEMMA AfterPost ==
    ASSUME Inv, op[td].at = "post", NEW c,
           c = IF op[td].then = "none" THEN NoCall ELSE [op[td] EXCEPT !.at = op[td].then]
    PROVE  /\ c \in Calls /\ Shape(c) /\ RefersOK(c, Elems(TD_LIST), freed, k.TD_STATE)
           /\ Apart(op, td, c) /\ \A st, i : ~Has(c, st, i)
           /\ \/ k.TD_STATE[td] = "READY" /\ td # Idle
              \/ c = NoCall
              \/ td # Idle /\ c.td = td /\ (Disposes(c) \/ Stopped(c))
           /\ k.TD_STATE[td] # "DYING" \/ (op[td].td = td <=> c.td = td)
<1> DEFINE D == k.TD_STATE
           L == Elems(TD_LIST)
<1>1. /\ td # Idle /\ td \in Task /\ op \in [Task -> Calls] /\ Shape(op[td])
      /\ RefersOK(op[td], L, freed, D)
      /\ op[td].then = "none" => D[td] = "READY"
  BY AtFacts
<1>2. Alone(op)
  BY Now
<1>3. /\ \/ D[td] = "READY"
         \/ /\ D[td] = "DYING" /\ op[td].td = td
            /\ Disposes(op[td]) \/ Stopped(op[td])
  BY Now
<1>4. PICK b : b = op[td]
  OBVIOUS
<1> HIDE DEF td, D, L
<1>5. CASE b.then = "none"
  <2>1. c = NoCall /\ D[td] = "READY"
    BY <1>1, <1>4, <1>5
  <2> QED
    BY <1>1, <2>1, NoCallFacts DEF D, L
<1>6. CASE b.then # "none"
  <2>1. b \in Calls /\ b.at = "post" /\ b.td \in Task \ {Idle}
    BY <1>1, <1>4, <1>6 DEF Shape, NoCall
  <2>2. c = [b EXCEPT !.at = b.then]
    BY <1>4, <1>6
  <2>3. c.at = b.then /\ c.td = b.td /\ c.then = b.then /\ c \in Calls
    BY <1>6, <2>1, <2>2 DEF Calls
  <2>4. b.then \in {"ready", "blocked", "free", "restart", "restart_blocked"}
    BY <1>6, <2>1 DEF Calls
  <2>5. /\ Creates(c) <=> Creates(b)
        /\ Restarts(c) <=> Restarts(b)
        /\ Stopped(c) <=> Stopped(b)
        /\ Disposes(c) <=> Disposes(b)
        /\ \A st, i : ~Has(c, st, i)
    BY <2>1, <2>3, <2>4 DEF Creates, Restarts, Stopped, Disposes, Has
  <2>6. Shape(c)
    BY <2>1, <2>3, <2>4 DEF Shape
  <2>7. RefersOK(c, L, freed, D)
    <3>1. c.at # "cleanup" /\ b.at # "cleanup"
      BY <2>1, <2>3, <2>4
    <3> QED
      BY <1>1, <1>4, <2>3, <2>5, <3>1 DEF RefersOK
  <2>8. Apart(op, td, c)
    BY <1>1, <1>2, <1>4, <2>3, <2>5 DEF Apart, Alone
  <2>9. c.td = td <=> op[td].td = td
    BY <1>4, <2>3
  <2>10. D[td] = "READY" \/ (c.td = td /\ (Disposes(c) \/ Stopped(c)))
    BY <1>3, <1>4, <2>5, <2>9
  <2> QED
    BY <1>1, <2>3, <2>5, <2>6, <2>7, <2>8, <2>9, <2>10 DEF D, L
<1> QED
  BY <1>5, <1>6

\* The active task posts TASK_CREATE_LWSEM.
LEMMA PostStep ==
    ASSUME Inv, Post
    PROVE  Inv'
<1> DEFINE D == k.TD_STATE
           L == Elems(TD_LIST)
           T == k.ON_TIMEOUT_Q
           Q == TASK_CREATE_LWSEM
<1>1. /\ op[td].at = "post" /\ UNCHANGED <<lists, freed, created>>
      /\ IF k.QUEUE[Q] # <<>>
         THEN k' = CHECK_RUN_SCHEDULER(HandOver(Q)) /\ UNCHANGED VALUE
         ELSE VALUE' = VALUE + 1 /\ UNCHANGED k
  BY DEF Post, At
<1>2. PICK c : c = IF op[td].then = "none" THEN NoCall
                   ELSE [op[td] EXCEPT !.at = op[td].then]
  OBVIOUS
<1>3. /\ td \in Task /\ k.TD_STATE[td] # "LWSEM_BLOCKED" /\ op \in [Task -> Calls]
  BY <1>1, AtFacts
<1>4. op' = [op EXCEPT ![td] = c]
  BY <1>2, <1>3 DEF Post, Leave, Goto
<1>5. /\ c \in Calls /\ Shape(c) /\ RefersOK(c, L, freed, D)
      /\ Apart(op, td, c)
      /\ \/ k.TD_STATE[td] = "READY" /\ td # Idle
         \/ c = NoCall
         \/ td # Idle /\ c.td = td /\ (Disposes(c) \/ Stopped(c))
      /\ k.TD_STATE[td] # "DYING" \/ (op[td].td = td <=> c.td = td)
  BY <1>1, <1>2, AfterPost
<1>6. \A st, i : ~Has(c, st, i)
  BY <1>1, <1>2, AfterPost
<1>7. /\ op' \in [Task -> Calls] /\ op'[td] = c /\ \A t \in Task \ {td} : op'[t] = op[t]
      /\ CallsOK(op', L, freed, D, k.INFO, T) /\ KernelOK(k, op')
  BY <1>4, <1>5, ActiveMoves
<1>8. VALUE = 0 /\ \A t \in Task : Has(op[t], D[t], k.INFO[t]) <=> t = td
  <2>1. TokenOK(VALUE, op, D, k.INFO)
    BY DEF Inv
  <2>2. Has(op[td], D[td], k.INFO[td])
    BY <1>1, <1>3 DEF Has
  <2> QED
    BY <1>3, <2>1, <2>2, TokenTaken
<1>9. \A t \in Task : ~Has(op'[t], D[t], k.INFO[t])
  BY <1>3, <1>6, <1>7, <1>8
<1>10. freed' \in SUBSET Task /\ created' \in Nat
  BY <1>1 DEF Inv, TypeOK
<1>11. CASE k.QUEUE[Q] # <<>>
  <2>1. k' = CHECK_RUN_SCHEDULER(HandedOver(k, Q, NULL)) /\ VALUE' = VALUE
    BY <1>1, <1>11 DEF HandOver, HandedOver
  <2>2. PICK t \in Task :
           /\ D[t] \in WaitStates /\ k.INFO[t] = Q /\ KernelOK(k', op')
           /\ Fields(k', [D EXCEPT ![t] = "READY"], [k.INFO EXCEPT ![t] = NULL], T \ {t})
    <3>1. PICK v, o : v = CHECK_RUN_SCHEDULER(HandedOver(k, Q, NULL)) /\ o = op'
      OBVIOUS
    <3>2. KernelOK(k, o) /\ Q \in Queue
      BY <1>7, <3>1, TaskAssumption
    <3>3. \E t \in Task :
             /\ D[t] \in WaitStates /\ k.INFO[t] = Q /\ KernelOK(v, o)
             /\ Fields(v, [D EXCEPT ![t] = "READY"], [k.INFO EXCEPT ![t] = NULL], T \ {t})
      BY <1>11, <3>1, <3>2, HandOverKernel
    <3> QED
      BY <2>1, <3>1, <3>3
  <2>3. Known(t) /\ D \in [Task -> State] /\ k.INFO \in [Task -> Info]
    BY Now, Zenon
  <2>4. D[t] = "LWSEM_BLOCKED"
    BY <2>2, <2>3 DEF Known, TaskOK, WaitStates, AuxStates, QueueStates
  <2>5. op[t].at \in {"build", "victim"} /\ t # td
    BY <1>3, <2>2, <2>3, <2>4 DEF Known, TaskOK
  <2>6. PICK D2, I2 : D2 = [D EXCEPT ![t] = "READY"] /\ I2 = [k.INFO EXCEPT ![t] = NULL]
    OBVIOUS
  <2>7. D2[t] = "READY" /\ \A u \in Task \ {t} : D2[u] = D[u] /\ I2[u] = k.INFO[u]
    BY <2>3, <2>6
  <2>8. CallsOK(op', L, freed, D2, I2, T \ {t})
    BY <1>7, <2>3, <2>4, <2>6, <2>7, Woken
  <2>9. TokenOK(0, op', D2, I2)
    <3>1. Has(op'[t], D2[t], I2[t])
      BY <1>7, <2>5, <2>7 DEF Has
    <3>2. \A u \in Task : Has(op'[u], D2[u], I2[u]) <=> u = t
      BY <1>9, <2>7, <3>1
    <3> QED
      BY <3>2, TokenMade
  <2>10. k'.TD_STATE = D2 /\ k'.INFO = I2 /\ k'.ON_TIMEOUT_Q = T \ {t} /\ VALUE' = 0
    BY <1>8, <2>1, <2>2, <2>6 DEF Fields
  <2> HIDE DEF L, td
  <2> QED
    BY <1>1, <1>7, <1>10, <2>2, <2>8, <2>9, <2>10, Assemble DEF L
<1>12. CASE k.QUEUE[Q] = <<>>
  <2>1. k' = k /\ VALUE' = 1
    BY <1>1, <1>8, <1>12
  <2>2. TokenOK(1, op', D, k.INFO)
    BY <1>9, TokenMade
  <2> HIDE DEF L, td
  <2> QED
    BY <1>1, <1>7, <1>10, <2>1, <2>2, Assemble DEF L
<1> QED
  BY <1>11, <1>12

\* The queues and the timeout queue of a kernel in order.
LEMMA OrderFacts ==
    ASSUME NEW j, NEW o, KernelOK(j, o)
    PROVE  /\ j \in Kernel /\ j.TIME_SLICE_TASK = {} /\ TimeoutQueueOK(j)
           /\ \A s \in Queue : NoDuplicates(j.QUEUE[s])
<1>1. PICK c : Shades(c, j, o) /\ Shared(c, j)
  BY HasShadow
<1>2. TimeoutQueueOK(c) /\ WaitQueuesOK(c, {})
  BY <1>1 DEF Shades, Consistent, KInv, WaitInv
<1>3. TimeoutQueueOK(j)
  BY <1>1, <1>2, TimeoutFrame DEF Shared
<1>4. \A s \in Queue : NoDuplicates(j.QUEUE[s])
  BY <1>1, <1>2 DEF Shared, WaitQueuesOK
<1> QED
  BY <1>3, <1>4 DEF KernelOK

\* _TIME_DEQUEUE of a task that waits, as far as the timeout queue is concerned.
LEMMA DequeueKernel ==
    ASSUME NEW j, NEW o, KernelOK(j, o), NEW v \in Task, j.TD_STATE[v] = "LWSEM_BLOCKED"
    PROVE  LET w == TIME_DEQUEUE(j, v)
           IN  /\ w \in Kernel /\ TimeoutQueueOK(w) /\ w.ON_TIMEOUT_Q = j.ON_TIMEOUT_Q \ {v}
               /\ w.TIME_SLICE_TASK = {} /\ w.READY_Q = j.READY_Q
               /\ w.CURRENT_READY_Q = j.CURRENT_READY_Q /\ w.MY_QUEUE = j.MY_QUEUE
               /\ w.TD_STATE = j.TD_STATE /\ w.INFO = j.INFO /\ w.QUEUE = j.QUEUE
               /\ w.ACTIVE_PTR = j.ACTIVE_PTR
               /\ w.PREEMPTION_DISABLED = j.PREEMPTION_DISABLED
<1> DEFINE w == TIME_DEQUEUE(j, v)
<1>1. PICK c : Shades(c, j, o) /\ Shared(c, j)
  BY HasShadow
<1>2. PICK D : D = j.TD_STATE
  OBVIOUS
<1>3. /\ KInv(c, {}) /\ c \in Kernel /\ D \in [Task -> State] /\ j = Restate(c, D)
      /\ c.TD_STATE = ReadyStates(D, Enders(o, D)) /\ j.TIME_SLICE_TASK = {} /\ j \in Kernel
  BY <1>1, <1>2 DEF Shades, Unscheduled, KernelOK
<1>4. c.TD_STATE[v] # "READY" /\ D[v] # "READY"
  BY <1>2, <1>3 DEF ReadyStates, Enders
<1>5. PICK y : y = TIME_DEQUEUE(c, v)
  OBVIOUS
<1>6. w = Restate(y, D)
  BY <1>3, <1>4, <1>5, RestateDequeue
<1>7. KInv(y, {}) /\ y \in Kernel /\ TimeoutQueueOK(y)
  BY <1>3, <1>5, TimeDequeueInv DEF KInv
<1>8. w \in Kernel /\ TimeoutQueueOK(w)
  <2>1. PICK x : x = Restate(y, D)
    OBVIOUS
  <2>2. /\ x \in Kernel /\ x.TIMEOUT_QUEUE = y.TIMEOUT_QUEUE /\ x.TIMEOUT = y.TIMEOUT
        /\ x.ON_TIMEOUT_Q = y.ON_TIMEOUT_Q
    BY <1>3, <1>7, <2>1, RestateFields
  <2> QED
    BY <1>6, <1>7, <2>1, <2>2, TimeoutFrame
<1>9. /\ w.TD_STATE = j.TD_STATE /\ w.ON_TIMEOUT_Q = j.ON_TIMEOUT_Q \ {v}
      /\ w.ACTIVE_PTR = j.ACTIVE_PTR /\ w.QUEUE = j.QUEUE /\ w.INFO = j.INFO
      /\ w.MY_QUEUE = j.MY_QUEUE
  BY <1>2, <1>3, <1>4, TimeDequeueFrame
<1>10. w.TIME_SLICE_TASK = {}
  BY <1>3, SliceTasksKept
<1>11. /\ w.READY_Q = j.READY_Q /\ w.CURRENT_READY_Q = j.CURRENT_READY_Q
       /\ w.PREEMPTION_DISABLED = j.PREEMPTION_DISABLED
  BY <1>3 DEF TIME_DEQUEUE, Kernel
<1> QED
  BY <1>8, <1>9, <1>10, <1>11

\* w: v is dying and on no wait queue; all else is as in j.
OffQueue(j, v, w) ==
    /\ w \in Kernel /\ w.TD_STATE = [j.TD_STATE EXCEPT ![v] = "DYING"]
    /\ \A s \in Queue : /\ NoDuplicates(w.QUEUE[s])
                        /\ Elems(w.QUEUE[s]) = Elems(j.QUEUE[s]) \ {v}
    /\ w.READY_Q = j.READY_Q /\ w.CURRENT_READY_Q = j.CURRENT_READY_Q
    /\ w.MY_QUEUE = j.MY_QUEUE /\ w.ON_TIMEOUT_Q = j.ON_TIMEOUT_Q
    /\ w.TIMEOUT_QUEUE = j.TIMEOUT_QUEUE /\ w.TIMEOUT = j.TIMEOUT
    /\ w.INFO = j.INFO /\ w.TIME_SLICE_TASK = j.TIME_SLICE_TASK
    /\ w.ACTIVE_PTR = j.ACTIVE_PTR
    /\ w.PREEMPTION_DISABLED = j.PREEMPTION_DISABLED

\* v leaves the queue that its INFO names.
LEMMA LeftQueue ==
    ASSUME NEW j \in Kernel, NEW v \in Task,
           \A s \in Queue : NoDuplicates(j.QUEUE[s]) /\ (v \in Elems(j.QUEUE[s]) => j.INFO[v] = s),
           NEW w, w = [LeaveQueue(j, v) EXCEPT !.TD_STATE[v] = "DYING"]
    PROVE  OffQueue(j, v, w)
<1> DEFINE W == [j.QUEUE EXCEPT ![j.INFO[v]] = Unlink(j.QUEUE[j.INFO[v]], v)]
           E == [j.TD_STATE EXCEPT ![v] = "DYING"]
<1>1. j.QUEUE \in [Queue -> Seq(Task)] /\ j.TD_STATE \in [Task -> State]
  BY KernelFields
<1>2. \A s \in Queue : /\ Unlink(j.QUEUE[s], v) \in Seq(Task)
                       /\ Elems(Unlink(j.QUEUE[s], v)) = Elems(j.QUEUE[s]) \ {v}
                       /\ NoDuplicates(Unlink(j.QUEUE[s], v))
  BY <1>1, UnlinkElems
<1>3. \A s \in Queue : W[s] = IF s = j.INFO[v] THEN Unlink(j.QUEUE[s], v) ELSE j.QUEUE[s]
  BY <1>1
<1>4. \A s \in Queue : NoDuplicates(W[s]) /\ Elems(W[s]) = Elems(j.QUEUE[s]) \ {v}
  <2> SUFFICES ASSUME NEW s \in Queue
               PROVE  NoDuplicates(W[s]) /\ Elems(W[s]) = Elems(j.QUEUE[s]) \ {v}
    OBVIOUS
  <2>1. CASE s = j.INFO[v]
    BY <1>2, <1>3, <2>1
  <2>2. CASE s # j.INFO[v]
    BY <1>3, <2>2
  <2> QED
    BY <2>1, <2>2
<1>5. W \in [Queue -> Seq(Task)]
  BY <1>1, <1>2
<1>6. E \in [Task -> State]
  BY <1>1 DEF State
<1>7. w = [j EXCEPT !.QUEUE = W, !.TD_STATE = E]
  BY DEF LeaveQueue, Kernel
<1> HIDE DEF W, E
<1>8. /\ w \in Kernel /\ w.TD_STATE = E /\ w.QUEUE = W
      /\ w.READY_Q = j.READY_Q /\ w.CURRENT_READY_Q = j.CURRENT_READY_Q
      /\ w.MY_QUEUE = j.MY_QUEUE /\ w.ON_TIMEOUT_Q = j.ON_TIMEOUT_Q
      /\ w.TIMEOUT_QUEUE = j.TIMEOUT_QUEUE /\ w.TIMEOUT = j.TIMEOUT
      /\ w.INFO = j.INFO /\ w.TIME_SLICE_TASK = j.TIME_SLICE_TASK
      /\ w.ACTIVE_PTR = j.ACTIVE_PTR
      /\ w.PREEMPTION_DISABLED = j.PREEMPTION_DISABLED
  BY <1>5, <1>6, <1>7, ZenonT(60) DEF Kernel
<1> QED
  BY <1>4, <1>8 DEF E, OffQueue

\* What the victim leaves behind.
Left(j, o, v, w) ==
    /\ Gone(j, o, v, w) /\ w.ACTIVE_PTR = j.ACTIVE_PTR
    /\ w.PREEMPTION_DISABLED = j.PREEMPTION_DISABLED

\* A task that counts as ready is taken off its ready queue.
LEMMA ReadyTakenOff ==
    ASSUME NEW j, NEW o, KernelOK(j, o), NEW v \in Task, Alive(j, o, v),
           NEW w, w = [UnlinkReady(j, v) EXCEPT !.TD_STATE[v] = "DYING"]
    PROVE  Left(j, o, v, w)
<1> DEFINE R == [j.READY_Q EXCEPT ![j.MY_QUEUE[v]] = Unlink(j.READY_Q[j.MY_QUEUE[v]], v)]
           E == [j.TD_STATE EXCEPT ![v] = "DYING"]
<1>1. /\ j \in Kernel /\ j.TIME_SLICE_TASK = {} /\ TimeoutQueueOK(j)
      /\ \A s \in Queue : NoDuplicates(j.QUEUE[s])
  BY OrderFacts
<1>2. /\ j.READY_Q \in [Priority -> Seq(Task)] /\ j.MY_QUEUE \in [Task -> Priority]
      /\ j.TD_STATE \in [Task -> State] /\ j.ON_TIMEOUT_Q \in SUBSET Task
  BY <1>1, KernelFields
<1>3. R \in [Priority -> Seq(Task)] /\ E \in [Task -> State]
  BY <1>2, UnlinkElems DEF State
<1>4. w = [j EXCEPT !.READY_Q = R, !.TD_STATE = E]
  BY <1>1 DEF UnlinkReady, Kernel
<1>5. R = [j.READY_Q EXCEPT ![j.MY_QUEUE[v]] = Unlink(@, v)]
  OBVIOUS
<1>6. \A s \in Queue : Elems(j.QUEUE[s]) = Elems(j.QUEUE[s]) \ {v}
  <2>1. j.TD_STATE[v] \notin WaitStates
    BY DEF Alive, Enders, WaitStates, AuxStates, QueueStates
  <2>2. \A s \in Queue : v \in Elems(j.QUEUE[s]) => j.TD_STATE[v] \in WaitStates
    BY KernelFacts
  <2> QED
    BY <2>1, <2>2
<1>7. j.ON_TIMEOUT_Q = j.ON_TIMEOUT_Q \ {v}
  BY DEF Alive
<1> HIDE DEF R, E
<1>8. /\ w \in Kernel /\ w.TD_STATE = E /\ w.READY_Q = R /\ w.QUEUE = j.QUEUE
      /\ w.CURRENT_READY_Q = j.CURRENT_READY_Q
      /\ w.MY_QUEUE = j.MY_QUEUE /\ w.ON_TIMEOUT_Q = j.ON_TIMEOUT_Q
      /\ w.TIMEOUT_QUEUE = j.TIMEOUT_QUEUE /\ w.TIMEOUT = j.TIMEOUT
      /\ w.INFO = j.INFO /\ w.TIME_SLICE_TASK = j.TIME_SLICE_TASK
      /\ w.ACTIVE_PTR = j.ACTIVE_PTR
      /\ w.PREEMPTION_DISABLED = j.PREEMPTION_DISABLED
  BY <1>1, <1>3, <1>4 DEF Kernel
<1>9. TimeoutQueueOK(w)
  BY <1>1, <1>8, TimeoutFrame
<1>10. w.READY_Q = IF Alive(j, o, v)
                   THEN [j.READY_Q EXCEPT ![j.MY_QUEUE[v]] = Unlink(@, v)] ELSE j.READY_Q
  BY <1>5, <1>8
<1>11. w.TD_STATE = [j.TD_STATE EXCEPT ![v] = "DYING"]
  BY <1>8 DEF E
<1>12. \A s \in Queue : NoDuplicates(w.QUEUE[s]) /\ Elems(w.QUEUE[s]) = Elems(j.QUEUE[s]) \ {v}
  BY <1>1, <1>6, <1>8
<1> QED
  BY <1>1, <1>7, <1>8, <1>9, <1>10, <1>11, <1>12 DEF Left, Gone

\* So is a task that waits off its wait queue and the timeout queue.
LEMMA WaiterTakenOff ==
    ASSUME NEW j, NEW o, KernelOK(j, o), NEW v \in Task, j.TD_STATE[v] = "LWSEM_BLOCKED",
           NEW w, w = [LeaveQueue(TIME_DEQUEUE(j, v), v) EXCEPT !.TD_STATE[v] = "DYING"]
    PROVE  Left(j, o, v, w)
<1>1. /\ j \in Kernel /\ j.TIME_SLICE_TASK = {} /\ TimeoutQueueOK(j)
      /\ \A s \in Queue : NoDuplicates(j.QUEUE[s])
  BY OrderFacts
<1>2. PICK i : i = TIME_DEQUEUE(j, v)
  OBVIOUS
<1>3. /\ i \in Kernel /\ TimeoutQueueOK(i) /\ i.ON_TIMEOUT_Q = j.ON_TIMEOUT_Q \ {v}
      /\ i.TIME_SLICE_TASK = {} /\ i.READY_Q = j.READY_Q
      /\ i.CURRENT_READY_Q = j.CURRENT_READY_Q /\ i.MY_QUEUE = j.MY_QUEUE
      /\ i.TD_STATE = j.TD_STATE /\ i.INFO = j.INFO /\ i.QUEUE = j.QUEUE
      /\ i.ACTIVE_PTR = j.ACTIVE_PTR
      /\ i.PREEMPTION_DISABLED = j.PREEMPTION_DISABLED
  BY <1>2, DequeueKernel
<1>4. \A s \in Queue : NoDuplicates(i.QUEUE[s]) /\ (v \in Elems(i.QUEUE[s]) => i.INFO[v] = s)
  <2>1. \A s \in Queue : v \in Elems(j.QUEUE[s]) => j.INFO[v] = s
    BY KernelFacts
  <2> QED
    BY <1>1, <1>3, <2>1
<1>5. w = [LeaveQueue(i, v) EXCEPT !.TD_STATE[v] = "DYING"]
  BY <1>2
<1>6. OffQueue(i, v, w)
  BY <1>3, <1>4, <1>5, LeftQueue
<1>7. TimeoutQueueOK(w)
  BY <1>3, <1>6, TimeoutFrame DEF OffQueue
<1>8. ~Alive(j, o, v)
  BY DEF Alive, Enders
<1> QED
  <2>1. /\ w \in Kernel /\ w.TIME_SLICE_TASK = {} /\ w.READY_Q = j.READY_Q
        /\ w.CURRENT_READY_Q = j.CURRENT_READY_Q /\ w.MY_QUEUE = j.MY_QUEUE
        /\ w.ON_TIMEOUT_Q = j.ON_TIMEOUT_Q \ {v}
        /\ w.INFO = j.INFO /\ w.ACTIVE_PTR = j.ACTIVE_PTR
        /\ w.PREEMPTION_DISABLED = j.PREEMPTION_DISABLED
    BY <1>3, <1>6 DEF OffQueue
  <2>2. w.TD_STATE = [j.TD_STATE EXCEPT ![v] = "DYING"]
    BY <1>3, <1>6 DEF OffQueue
  <2>3. \A s \in Queue : /\ NoDuplicates(w.QUEUE[s])
                         /\ Elems(w.QUEUE[s]) = Elems(j.QUEUE[s]) \ {v}
    BY <1>3, <1>6 DEF OffQueue
  <2> QED
    BY <1>7, <1>8, <2>1, <2>2, <2>3 DEF Left, Gone

\* Whatever the victim is on, _task_destroy and _task_restart take it off.
LEMMA TakenOff ==
    ASSUME Inv, NEW v \in Task, v # td, v \notin Enders(op, k.TD_STATE),
           NEW w, w = [TakeOff(v) EXCEPT !.TD_STATE[v] = "DYING"]
    PROVE  Left(k, op, v, w)
<1> DEFINE D == k.TD_STATE
           T == k.ON_TIMEOUT_Q
<1>1. Known(v) /\ KernelOK(k, op) /\ k \in Kernel /\ T \in SUBSET Task /\ D \in [Task -> State]
  BY Now, Zenon
<1>2. /\ D[v] \in {"READY", "BLOCKED", "DYING", "LWSEM_BLOCKED"}
      /\ v \in T => D[v] = "LWSEM_BLOCKED"
  BY <1>1 DEF Known, TaskOK
<1>3. CASE D[v] = "READY"
  <2>1. v \notin T /\ D[v] \notin AuxStates
    BY <1>2, <1>3 DEF AuxStates
  <2>2. TakeOff(v) = UnlinkReady(k, v)
    BY <1>3, <2>1 DEF TakeOff, IsReady
  <2>3. Alive(k, op, v)
    BY <1>3, <2>1 DEF Alive
  <2> QED
    BY <1>1, <2>2, <2>3, ReadyTakenOff
<1>4. CASE D[v] = "LWSEM_BLOCKED"
  <2>1. D[v] \in AuxStates /\ D[v] \notin QueueStates
    BY <1>4 DEF AuxStates, QueueStates
  <2>2. v \notin T => TIME_DEQUEUE(k, v) = k
    BY DEF TIME_DEQUEUE
  <2>3. TakeOff(v) = LeaveQueue(TIME_DEQUEUE(k, v), v)
    BY <1>4, <2>1, <2>2 DEF TakeOff, IsReady
  <2> QED
    BY <1>1, <1>4, <2>3, WaiterTakenOff
<1>5. CASE D[v] \in {"BLOCKED", "DYING"}
  <2>1. v \notin T /\ D[v] \notin AuxStates /\ D[v] \notin QueueStates
    BY <1>2, <1>5 DEF AuxStates, QueueStates
  <2>2. TakeOff(v) = k
    BY <1>5, <2>1 DEF TakeOff, IsReady
  <2>3. [D EXCEPT ![v] = "DYING"] \in [Task -> State]
    BY <1>1 DEF State
  <2> DEFINE E == [D EXCEPT ![v] = "DYING"]
  <2>4. w = [k EXCEPT !.TD_STATE = E]
    BY <1>1, <2>2 DEF Kernel
  <2> HIDE DEF E
  <2>5. w = Restate(k, E)
    BY <2>4 DEF Restate
  <2>6. /\ w.TD_STATE = E /\ w \in Kernel
        /\ w.ACTIVE_PTR = k.ACTIVE_PTR /\ w.CURRENT_READY_Q = k.CURRENT_READY_Q
        /\ w.READY_Q = k.READY_Q /\ w.MY_QUEUE = k.MY_QUEUE
        /\ w.ON_TIMEOUT_Q = k.ON_TIMEOUT_Q /\ w.TIMEOUT_QUEUE = k.TIMEOUT_QUEUE
        /\ w.TIMEOUT = k.TIMEOUT /\ w.QUEUE = k.QUEUE /\ w.INFO = k.INFO
        /\ w.PREEMPTION_DISABLED = k.PREEMPTION_DISABLED
        /\ w.TIME_SLICE_TASK = k.TIME_SLICE_TASK
    <3>1. E \in [Task -> State]
      BY <2>3 DEF E
    <3>2. w \in Kernel
      BY <1>1, <2>5, <3>1, RestateFields
    <3> QED
      BY <1>1, <2>4, <3>2 DEF Kernel
  <2>7. k.TIME_SLICE_TASK = {} /\ TimeoutQueueOK(k) /\ \A s \in Queue : NoDuplicates(k.QUEUE[s])
    BY <1>1, OrderFacts
  <2>8. TimeoutQueueOK(w)
    BY <2>6, <2>7, TimeoutFrame
  <2>9. ~Alive(k, op, v) /\ T = T \ {v}
    BY <1>5, <2>1 DEF Alive
  <2>10. \A s \in Queue : v \notin Elems(k.QUEUE[s])
    BY <2>1, Now DEF WaitStates
  <2> QED
    <3>1. w.TD_STATE = [k.TD_STATE EXCEPT ![v] = "DYING"]
      BY <2>6 DEF E
    <3>2. \A s \in Queue : /\ NoDuplicates(w.QUEUE[s])
                           /\ Elems(w.QUEUE[s]) = Elems(k.QUEUE[s]) \ {v}
      BY <2>6, <2>7, <2>10
    <3>3. w.ON_TIMEOUT_Q = k.ON_TIMEOUT_Q \ {v} /\ w.TIME_SLICE_TASK = {}
      BY <2>6, <2>7, <2>9
    <3> QED
      BY <2>6, <2>8, <2>9, <3>1, <3>2, <3>3 DEF Left, Gone
<1> QED
  BY <1>2, <1>3, <1>4, <1>5

\* The active task, in call c from now on, stops task v: v may be so stopped.
Stops(v, c) ==
    /\ c \in Calls /\ c.td = v /\ c.at \in {"cleanup", "post"} /\ Shape(c)
    /\ ~Creates(c) /\ (Disposes(c) \/ Stopped(c)) /\ (Disposes(c) => c.at = "cleanup")
    /\ Apart(op, td, c)
    /\ v \in Task \ {Idle} /\ v \in Elems(TD_LIST) /\ v \notin freed
    /\ v # td => v \notin Enders(op, k.TD_STATE)
    /\ \A u \in Task \ {v} : op[u].td = v => ~Creates(op[u])

\* The calls when v is another task.
LEMMA OtherStopped ==
    ASSUME Inv, NEW v, NEW c, Stops(v, c), v # td, k.TD_STATE[td] = "READY", td # Idle,
           NEW D2, D2 = [k.TD_STATE EXCEPT ![v] = "DYING"],
           NEW o2, o2 = [t \in Task |-> IF t = td THEN c ELSE IF t = v THEN NoCall ELSE op[t]]
    PROVE  CallsOK(o2, Elems(TD_LIST), freed, D2, k.INFO, k.ON_TIMEOUT_Q \ {v})
<1> DEFINE D == k.TD_STATE
           L == Elems(TD_LIST)
           T == k.ON_TIMEOUT_Q
<1>1. /\ td \in Task /\ op \in [Task -> Calls] /\ D \in [Task -> State] /\ Known(td)
  BY Now, Zenon
<1>2. /\ c \in Calls /\ c.td = v /\ Shape(c) /\ ~Creates(c) /\ (Disposes(c) \/ Stopped(c))
      /\ Disposes(c) => c.at = "cleanup"
      /\ Apart(op, td, c) /\ v \in Task /\ v # Idle /\ v \in L /\ v \notin freed
      /\ \A u \in Task \ {v} : op[u].td = v => ~Creates(op[u])
  BY DEF Stops
<1>3. CallsOK(op, L, freed, D, k.INFO, T)
  BY DEF Inv
<1>4. Allowed(op, td, "READY")
  BY <1>1, LivingAllowed
<1> HIDE DEF td, D, L, T
<1>5. PICK o1 : o1 = [op EXCEPT ![v] = NoCall]
  OBVIOUS
<1>6. /\ o1 \in [Task -> Calls] /\ o1[v] = NoCall /\ \A u \in Task \ {v} : o1[u] = op[u]
  BY <1>1, <1>2, <1>5, NoCallFacts
<1>7. /\ D2 \in [Task -> State] /\ D2[v] = "DYING" /\ D2[td] = "READY" /\ "DYING" \in State
      /\ "READY" \in State
  BY <1>1, <1>2 DEF State, D
<1>8. CallsOK(o1, L, freed, D2, k.INFO, T \ {v})
  <2>1. TaskOK(v, NoCall, D2, k.INFO, T \ {v}) /\ MemoryOK(v, NoCall, L, freed, D2)
    BY <1>2, <1>7 DEF TaskOK, MemoryOK
  <2>2. Allowed(op, v, "DYING")
    BY <1>2 DEF Allowed
  <2>3. D2 = [D EXCEPT ![v] = "DYING"]
    BY DEF D
  <2>4. Moves(op, L, freed, D, k.INFO, T, v, NoCall, "DYING", o1, D2, k.INFO, T \ {v})
    BY <1>1, <1>2, <1>5, <1>7, <2>1, <2>2, <2>3, NoCallFacts DEF Moves
  <2> QED
    BY <1>3, <2>4, OneTask
<1>9. RefersOK(c, L, freed, D2)
  BY <1>2, <1>7 DEF RefersOK
<1>10. TaskOK(td, c, D2, k.INFO, T \ {v}) /\ MemoryOK(td, c, L, freed, D2)
  <2>1. td \in L /\ td \notin freed /\ td \notin T
    BY <1>1 DEF Known, MemoryOK, TaskOK, D, L, T
  <2> QED
    BY <1>7, <2>1 DEF TaskOK, MemoryOK
<1>11. Apart(o1, td, c)
  <2>1. \A u \in Task : o1[u].td = v => u # v
    BY <1>2, <1>6, NoCallFacts
  <2> QED
    BY <1>2, <1>6, <2>1 DEF Apart
<1>12. Allowed(o1, td, "READY")
  <2>1. \A u \in Task : o1[u].td = td => u # v
    BY <1>1, <1>6, NoCallFacts
  <2> QED
    BY <1>4, <1>6, <2>1 DEF Allowed
<1>13. o2 = [o1 EXCEPT ![td] = c] /\ D2 = [D2 EXCEPT ![td] = "READY"]
  <2>1. D2 = [D2 EXCEPT ![td] = "READY"]
    BY <1>1, <1>7
  <2>2. o2 = [o1 EXCEPT ![td] = c]
    BY <1>1, <1>2, <1>5, <1>6
  <2> QED
    BY <2>1, <2>2
<1>14. Moves(o1, L, freed, D2, k.INFO, T \ {v}, td, c, "READY", o2, D2, k.INFO, T \ {v})
  BY <1>1, <1>2, <1>6, <1>7, <1>9, <1>10, <1>11, <1>12, <1>13 DEF Moves
<1> QED
  BY <1>8, <1>14, OneTask DEF L, T

\* The calls when it is the active task itself.
LEMMA SelfStopped ==
    ASSUME Inv, NEW c, Stops(td, c), k.TD_STATE[td] = "READY",
           NEW D2, D2 = [k.TD_STATE EXCEPT ![td] = "DYING"],
           NEW o2, o2 = [op EXCEPT ![td] = c]
    PROVE  CallsOK(o2, Elems(TD_LIST), freed, D2, k.INFO, k.ON_TIMEOUT_Q)
<1> DEFINE D == k.TD_STATE
           L == Elems(TD_LIST)
           T == k.ON_TIMEOUT_Q
<1>1. /\ td \in Task /\ op \in [Task -> Calls] /\ D \in [Task -> State] /\ Known(td)
  BY Now, Zenon
<1>2. /\ c \in Calls /\ c.td = td /\ Shape(c) /\ ~Creates(c) /\ (Disposes(c) \/ Stopped(c))
      /\ Disposes(c) => c.at = "cleanup"
      /\ Apart(op, td, c) /\ td # Idle /\ td \in L /\ td \notin freed
  BY DEF Stops
<1>3. CallsOK(op, L, freed, D, k.INFO, T)
  BY DEF Inv
<1>4. Allowed(op, td, "DYING")
  BY <1>1, LivingAllowed
<1>5. td \notin T
  BY <1>1 DEF Known, TaskOK
<1> HIDE DEF td, D, L, T
<1>6. D2[td] = "DYING" /\ "DYING" \in State /\ D2 = [D EXCEPT ![td] = "DYING"]
  BY <1>1 DEF State, D
<1>7. RefersOK(c, L, freed, D2)
  BY <1>2, <1>6 DEF RefersOK
<1>8. TaskOK(td, c, D2, k.INFO, T) /\ MemoryOK(td, c, L, freed, D2)
  BY <1>2, <1>5, <1>6 DEF TaskOK, MemoryOK
<1>9. Moves(op, L, freed, D, k.INFO, T, td, c, "DYING", o2, D2, k.INFO, T)
  BY <1>1, <1>2, <1>4, <1>6, <1>7, <1>8 DEF Moves
<1> QED
  BY <1>3, <1>9, OneTask DEF L, T

\* A ready task begins to destroy itself: it counts as ready from now on.
LEMMA SelfEnds ==
    ASSUME NEW j, NEW o, KernelOK(j, o), NEW a \in Task, j.TD_STATE[a] = "READY", NEW o2,
           o2[a].td = a,
           \A t \in Task \ {a} : t \in Enders(o2, j.TD_STATE) <=> t \in Enders(o, j.TD_STATE),
           NEW D2, D2 = [j.TD_STATE EXCEPT ![a] = "DYING"], NEW w, w = Restate(j, D2)
    PROVE  KernelOK(w, o2) /\ Fields(w, D2, j.INFO, j.ON_TIMEOUT_Q)
<1>1. PICK c : Shades(c, j, o) /\ Shared(c, j)
  BY HasShadow
<1>2. PICK D : D = j.TD_STATE
  OBVIOUS
<1>3. /\ Consistent(c) /\ c \in Kernel /\ c.TIME_SLICE_TASK = {} /\ D \in [Task -> State]
      /\ j = Restate(c, D) /\ c.TD_STATE = ReadyStates(D, Enders(o, D))
  BY <1>1, <1>2 DEF Shades
<1>4. D2 \in [Task -> State] /\ D2[a] = "DYING" /\ \A t \in Task \ {a} : D2[t] = D[t]
  BY <1>2, <1>3 DEF State
<1>5. c.TD_STATE = ReadyStates(D2, Enders(o2, D2))
  <2>1. /\ a \in Enders(o2, D2)
        /\ \A t \in Task \ {a} : t \in Enders(o2, D2) <=> t \in Enders(o, D)
    BY <1>2, <1>4 DEF Enders
  <2> QED
    BY <1>2, <1>3, <1>4, <2>1, ZenonT(60) DEF ReadyStates
<1>6. w = Restate(c, D2)
  BY <1>3, RestateFields
<1>7. KernelOK(w, o2) /\ Shared(c, w) /\ w.TD_STATE = D2
  BY <1>3, <1>4, <1>5, <1>6, ShadowMade
<1> QED
  BY <1>1, <1>7 DEF Shared, Fields

\* The active task stops task v.
LEMMA VictimGone ==
    ASSUME Inv, op[td].at = "victim", NEW v, v = op[td].td, NEW c, Stops(v, c),
           k' = [TakeOff(v) EXCEPT !.TD_STATE[v] = "DYING"],
           op' = [t \in Task |-> IF t = td THEN c ELSE IF t = v THEN NoCall ELSE op[t]],
           UNCHANGED <<VALUE, lists, freed, created>>
    PROVE  Inv'
<1> DEFINE D == k.TD_STATE
           L == Elems(TD_LIST)
           T == k.ON_TIMEOUT_Q
<1>1. /\ td \in Task /\ op \in [Task -> Calls] /\ D \in [Task -> State]
      /\ KernelOK(k, op) /\ k \in Kernel /\ td \notin T
  BY Now, Zenon
<1>2. td # Idle /\ D[td] = "READY"
  BY AtFacts
<1>3. v \in Task /\ v # Idle /\ c \in Calls /\ c.td = v /\ c.at \in {"cleanup", "post"}
  BY DEF Stops
<1>4. freed' \in SUBSET Task /\ created' \in Nat
  BY DEF Inv, TypeOK
<1>5. VALUE = 0 /\ \A t \in Task : Has(op[t], D[t], k.INFO[t]) <=> t = td
  <2>1. TokenOK(VALUE, op, D, k.INFO)
    BY DEF Inv
  <2>2. Has(op[td], D[td], k.INFO[td])
    BY <1>2 DEF Has
  <2> QED
    BY <1>1, <2>1, <2>2, TokenTaken
<1>6. PICK D2 : D2 = [D EXCEPT ![v] = "DYING"]
  OBVIOUS
<1>7. /\ op' \in [Task -> Calls] /\ op'[td] = c
      /\ \A t \in Task : t # td /\ t = v => op'[t] = NoCall
      /\ \A t \in Task : t # td /\ t # v => op'[t] = op[t]
  BY <1>1, <1>3, NoCallFacts
<1>8. TokenOK(0, op', D2, k.INFO)
  <2>1. D2[td] # "LWSEM_BLOCKED" /\ \A t \in Task : t # v => D2[t] = D[t]
    BY <1>1, <1>2, <1>3, <1>6
  <2> HIDE DEF td, D
  <2>2. Has(op'[td], D2[td], k.INFO[td])
    BY <1>3, <1>7, <2>1 DEF Has
  <2>3. ASSUME NEW t \in Task, t # td PROVE ~Has(op'[t], D2[t], k.INFO[t])
    <3>1. CASE t = v
      BY <1>7, <2>3, <3>1, NoCallFacts
    <3>2. CASE t # v
      BY <1>5, <1>7, <2>1, <2>3, <3>2
    <3> QED
      BY <3>1, <3>2
  <2> QED
    BY <1>1, <2>2, <2>3, TokenMade
<1>9. /\ KernelOK(k', op') /\ CallsOK(op', L, freed, D2, k.INFO, k'.ON_TIMEOUT_Q)
      /\ k'.TD_STATE = D2 /\ k'.INFO = k.INFO
  <2>1. CASE v # td
    <3>1. v \notin Enders(op, D)
      BY <2>1 DEF Stops
    <3>2. Left(k, op, v, k')
      BY <1>3, <2>1, <3>1, TakenOff
    <3>3. /\ Gone(k, op, v, k') /\ k'.ACTIVE_PTR = k.ACTIVE_PTR
          /\ k'.PREEMPTION_DISABLED = k.PREEMPTION_DISABLED
          /\ k'.TD_STATE = D2 /\ k'.INFO = k.INFO /\ k'.ON_TIMEOUT_Q = T \ {v}
      BY <1>6, <3>2 DEF Left, Gone
    <3>4. CallsOK(op', L, freed, D2, k.INFO, T \ {v})
      BY <1>2, <1>6, <2>1, OtherStopped
    <3>5. op'[v].td # v
      BY <1>3, <1>7, <2>1, NoCallFacts
    <3>6. \A t \in Task \ {v} : t \in Enders(op', D) <=> t \in Enders(op, D)
      BY <1>2, <1>7 DEF Enders
    <3>7. Settled(k, op) /\ v # k.ACTIVE_PTR
      BY <1>1, <2>1, OrderIsSettled DEF td
    <3>8. KernelOK(k', op')
      <4>1. PICK w, o2 : w = k' /\ o2 = op'
        OBVIOUS
      <4>2. /\ Gone(k, op, v, w) /\ w.ACTIVE_PTR = k.ACTIVE_PTR /\ o2[v].td # v
            /\ w.PREEMPTION_DISABLED = k.PREEMPTION_DISABLED
            /\ \A t \in Task \ {v} : t \in Enders(o2, D) <=> t \in Enders(op, D)
        BY <3>3, <3>5, <3>6, <4>1
      <4>3. KernelOK(w, o2)
        BY <1>1, <1>3, <3>7, <4>2, GoneKernel
      <4> QED
        BY <4>1, <4>3
    <3> QED
      BY <3>3, <3>4, <3>8
  <2>2. CASE v = td
    <3>1. TakeOff(v) = k
      <4>1. IsReady(k, v) /\ D[v] \notin AuxStates
        BY <1>1, <1>2, <2>2 DEF IsReady, AuxStates
      <4> QED
        BY <2>2, <4>1 DEF TakeOff
    <3>2. k' = Restate(k, D2)
      BY <1>1, <1>6, <3>1 DEF Restate, Kernel
    <3>3. op'[v].td = v
      BY <1>3, <1>7, <2>2
    <3>4. \A t \in Task \ {v} : t \in Enders(op', D) <=> t \in Enders(op, D)
      BY <1>7, <2>2 DEF Enders
    <3>5. KernelOK(k', op') /\ Fields(k', D2, k.INFO, T)
      BY <1>1, <1>2, <1>3, <1>6, <2>2, <3>2, <3>3, <3>4, SelfEnds
    <3>6. op' = [op EXCEPT ![td] = c]
      BY <1>1, <2>2
    <3>7. CallsOK(op', L, freed, D2, k.INFO, T)
      BY <1>2, <1>6, <2>2, <3>6, SelfStopped
    <3> QED
      BY <3>5, <3>7 DEF Fields
  <2> QED
    BY <2>1, <2>2
<1> HIDE DEF L, td
<1> QED
  BY <1>4, <1>5, <1>7, <1>8, <1>9, Assemble DEF L

\* _task_destroy has TASK_CREATE_LWSEM, and looks at its victim.
LEMMA VictimStep ==
    ASSUME Inv, Victim
    PROVE  Inv'
<1> DEFINE D == k.TD_STATE
           L == Elems(TD_LIST)
           v == op[td].td
           b == op[td]
<1>1. op[td].at = "victim" /\ op[td].then = "none" /\ UNCHANGED <<VALUE, lists, freed, created>>
  BY DEF Victim, At
<1>2. /\ td # Idle /\ td \in Task /\ op \in [Task -> Calls] /\ D[td] = "READY" /\ Shape(op[td])
  BY <1>1, AtFacts
<1>3. v \in Task /\ v # Idle /\ b \in Calls
  BY <1>1, <1>2 DEF Shape, NoCall
<1>4. Alone(op) /\ Known(v) /\ \A u \in Task : RefersOK(op[u], L, freed, D)
  BY <1>3, Now DEF Known
<1>5. \A u \in Task \ {td} : op[u].td = v => ~Creates(op[u]) /\ ~Restarts(op[u])
  <2>1. v # NULL
    BY <1>3, TaskAssumption
  <2> QED
    BY <1>2, <1>4, <2>1 DEF Alone
<1>6. CASE D[v] = "DYING"
  <2> DEFINE c == [b EXCEPT !.at = "post"]
  <2>1. op' = [op EXCEPT ![td] = c] /\ k' = k
    BY <1>2, <1>6 DEF Victim, Goto
  <2>2. c \in Calls /\ c.at = "post" /\ c.td = v /\ c.then = "none"
    BY <1>1, <1>3 DEF Calls
  <2> HIDE DEF c, td, b, v
  <2>3. ~Creates(c) /\ ~Restarts(c) /\ ~Stopped(c) /\ ~Disposes(c)
    BY <2>2 DEF Creates, Restarts, Stopped, Disposes
  <2>4. Shape(c) /\ RefersOK(c, L, freed, D) /\ Apart(op, td, c)
    BY <1>5, <2>2, <2>3 DEF Shape, RefersOK, Apart
  <2>5. Has(c, D[td], k.INFO[td]) <=> Has(op[td], D[td], k.INFO[td])
    BY <1>1, <2>2 DEF Has
  <2> QED
    BY <1>1, <1>2, <2>1, <2>2, <2>4, <2>5, CallStep
<1>7. CASE D[v] # "DYING"
  <2> DEFINE c == [b EXCEPT !.at = "cleanup"]
  <2>1. /\ k' = [TakeOff(v) EXCEPT !.TD_STATE[v] = "DYING"]
        /\ op' = [t \in Task |-> IF t = td THEN [op[t] EXCEPT !.at = "cleanup"]
                                 ELSE IF t = v THEN NoCall ELSE op[t]]
    BY <1>7 DEF Victim
  <2>2. op' = [t \in Task |-> IF t = td THEN c ELSE IF t = v THEN NoCall ELSE op[t]]
    BY <2>1
  <2>3. c \in Calls /\ c.at = "cleanup" /\ c.td = v /\ c.then = "none"
    BY <1>1, <1>3 DEF Calls
  <2> HIDE DEF c
  <2>4. Stops(v, c)
    <3> HIDE DEF td, b, v, D, L
    <3>1. ~Creates(op[td])
      BY <1>1 DEF Creates
    <3>2. ~Creates(c) /\ ~Restarts(c) /\ ~Stopped(c) /\ Disposes(c)
      BY <2>3 DEF Creates, Restarts, Stopped, Disposes
    <3>3. v \in L /\ v \notin freed
      BY <1>4, <1>7 DEF Known, MemoryOK, D, L
    <3>4. Apart(op, td, c)
      <4>1. \A u \in Task : op[u].td = v => ~Disposes(op[u])
        BY <1>4, <1>7 DEF RefersOK
      <4> QED
        BY <1>5, <2>3, <3>2, <4>1 DEF Apart
    <3>5. \A u \in Task \ {v} : op[u].td = v => ~Creates(op[u])
      BY <1>5, <3>1
    <3>6. v \notin Enders(op, D) /\ Shape(c)
      BY <1>3, <1>7, <2>3 DEF Enders, Shape
    <3> QED
      BY <1>3, <2>3, <3>2, <3>3, <3>4, <3>5, <3>6 DEF Stops, D, L
  <2> QED
    BY <1>1, <2>1, <2>2, <2>4, VictimGone
<1> QED
  BY <1>6, <1>7

\* _task_restart has TASK_CREATE_LWSEM, and stops its victim.
LEMMA RestartVictimStep ==
    ASSUME Inv, RestartVictim
    PROVE  Inv'
<1> DEFINE D == k.TD_STATE
           L == Elems(TD_LIST)
           v == op[td].td
           b == op[td]
           c == [b EXCEPT !.at = "post"]
<1>1. /\ op[td].at = "victim" /\ op[td].then # "none"
      /\ UNCHANGED <<VALUE, lists, freed, created>>
      /\ k' = [TakeOff(v) EXCEPT !.TD_STATE[v] = "DYING"]
      /\ op' = [t \in Task |-> IF t = td THEN [op[t] EXCEPT !.at = "post"]
                               ELSE IF t = v THEN NoCall ELSE op[t]]
  BY DEF RestartVictim, At
<1>2. /\ td # Idle /\ td \in Task /\ op \in [Task -> Calls] /\ D[td] = "READY" /\ Shape(op[td])
      /\ RefersOK(op[td], L, freed, D)
  BY <1>1, AtFacts
<1>3. v \in Task /\ v # Idle /\ b \in Calls /\ Restarts(op[td]) /\ ~Creates(op[td])
  <2>1. Restarts(op[td]) /\ v \in Task /\ v # Idle
    BY <1>1, <1>2 DEF Shape, NoCall
  <2> QED
    BY <1>2, <2>1 DEF Restarts, Creates
<1>4. Alone(op) /\ Known(v)
  BY <1>3, Now
<1>5. \A u \in Task \ {td} : op[u].td # v
  <2>1. v # NULL
    BY <1>3, TaskAssumption
  <2> QED
    BY <1>2, <1>3, <1>4, <2>1 DEF Alone
<1>6. op' = [t \in Task |-> IF t = td THEN c ELSE IF t = v THEN NoCall ELSE op[t]]
  BY <1>1
<1>7. c \in Calls /\ c.at = "post" /\ c.td = v /\ c.then = b.then
  BY <1>3 DEF Calls
<1> HIDE DEF c
<1>8. Stops(v, c)
  <2> HIDE DEF td, v, D, L
  <2>1. b.then \in {"restart", "restart_blocked"}
    BY <1>3 DEF Restarts
  <2> HIDE DEF b
  <2>2. ~Creates(c) /\ Restarts(c) /\ Stopped(c) /\ ~Disposes(c)
    BY <1>7, <2>1 DEF Creates, Restarts, Stopped, Disposes
  <2>3. v \in L /\ v \notin freed
    BY <1>2, <1>3, <1>4 DEF Known, MemoryOK, RefersOK, L, v
  <2>4. Apart(op, td, c)
    BY <1>5, <1>7 DEF Apart
  <2>5. \A u \in Task \ {v} : op[u].td = v => ~Creates(op[u])
    BY <1>3, <1>5
  <2>6. v # td => v \notin Enders(op, D)
    BY <1>3, <1>5 DEF Enders
  <2>7. Shape(c)
    BY <1>3, <1>7, <2>1 DEF Shape
  <2> QED
    BY <1>3, <1>7, <2>2, <2>3, <2>4, <2>5, <2>6, <2>7 DEF Stops, D, L
<1> QED
  BY <1>1, <1>6, <1>8, VictimGone

\* The parts of the invariant, when the list changes.
LEMMA AssembleAll ==
    ASSUME Inv, freed' \in SUBSET Task, created' \in Nat, TD_LIST' \in Seq(Task),
           TASK_ID' \in [Task -> Nat], TASK_NUMBER' \in Nat \ {0},
           INSERT_TD_PTR' \in Task \cup {NULL},
           NumbersOK(TD_LIST', TASK_ID', TASK_NUMBER', INSERT_TD_PTR'),
           op' \in [Task -> Calls], KernelOK(k', op'),
           CallsOK(op', Elems(TD_LIST'), freed', k'.TD_STATE, k'.INFO, k'.ON_TIMEOUT_Q),
           TokenOK(VALUE', op', k'.TD_STATE, k'.INFO)
    PROVE  Inv'
<1>1. VALUE' \in Nat
  BY DEF TokenOK
<1>2. k' \in Kernel
  BY DEF KernelOK
<1>3. TypeOK'
  BY <1>1, <1>2 DEF TypeOK
<1> QED
  BY <1>3 DEF Inv

\* The destroyer gives back the number of its victim and takes it off the list.
LEMMA CleanupStep ==
    ASSUME Inv, Cleanup
    PROVE  Inv'
<1> DEFINE D == k.TD_STATE
           L == Elems(TD_LIST)
           v == op[td].td
<1>1. /\ op[td].at = "cleanup" /\ UNCHANGED <<k, VALUE, freed, created>>
      /\ op' = [op EXCEPT ![td].at = "post", ![td].then = "free"]
  BY DEF Cleanup, At
<1>2. /\ td \in Task /\ op \in [Task -> Calls] /\ D[td] # "LWSEM_BLOCKED" /\ Shape(op[td])
      /\ RefersOK(op[td], L, freed, D)
  BY <1>1, AtFacts
<1>3. Disposes(op[td]) /\ v \in L
  BY <1>1, <1>2 DEF Disposes, RefersOK
<1>4. /\ TD_LIST \in Seq(Task) /\ TASK_ID \in [Task -> Nat] /\ TASK_NUMBER \in Nat \ {0}
      /\ INSERT_TD_PTR \in Task \cup {NULL}
      /\ NumbersOK(TD_LIST, TASK_ID, TASK_NUMBER, INSERT_TD_PTR)
      /\ freed' \in SUBSET Task /\ created' \in Nat
  BY <1>1 DEF Inv, TypeOK
<1>5. CallsOK(op, L, freed, D, k.INFO, k.ON_TIMEOUT_Q) /\ TokenOK(VALUE, op, D, k.INFO)
      /\ KernelOK(k, op)
  BY DEF Inv
<1>6. /\ NumbersOK(TD_LIST', TASK_ID', TASK_NUMBER', INSERT_TD_PTR')
      /\ Elems(TD_LIST') = L \ {v} /\ TD_LIST' \in Seq(Task) /\ TASK_ID' \in [Task -> Nat]
      /\ TASK_NUMBER' \in Nat \ {0} /\ INSERT_TD_PTR' \in Task \cup {NULL}
  <2>1. PICK q, f, n, p, x : /\ q = TD_LIST /\ f = TASK_ID /\ n = TASK_NUMBER
                             /\ p = INSERT_TD_PTR /\ x = v
    OBVIOUS
  <2> DEFINE i  == CHOOSE m \in 1 .. Len(q) : q[m] = x
             q2 == Unlink(q, x)
             f2 == [f EXCEPT ![x] = 0]
             n2 == IF Len(q) = 1 THEN 1 ELSE IF n > f[x] THEN f[x] ELSE n
             p2 == IF Len(q) = 1 THEN NULL
                   ELSE IF n > f[x] THEN IF i = 1 THEN NULL ELSE q[i - 1] ELSE p
  <2>2. /\ NumbersOK(q2, f2, n2, p2) /\ Elems(q2) = Elems(q) \ {x}
        /\ q2 \in Seq(Task) /\ f2 \in [Task -> Nat] /\ n2 \in Nat \ {0}
        /\ p2 \in Task \cup {NULL}
    <3>1. /\ q \in Seq(Task) /\ f \in [Task -> Nat] /\ n \in Nat \ {0}
          /\ p \in Task \cup {NULL} /\ NumbersOK(q, f, n, p) /\ x \in Elems(q)
      BY <1>3, <1>4, <2>1
    <3> QED
      BY <3>1, NumberFreed
  <2>3. TD_LIST' = q2 /\ TASK_ID' = f2 /\ TASK_NUMBER' = n2 /\ INSERT_TD_PTR' = p2
    BY <2>1 DEF Cleanup
  <2>4. Elems(q) = L
    BY <2>1
  <2> HIDE DEF q2, f2, n2, p2
  <2> QED
    BY <2>1, <2>2, <2>3, <2>4
<1>7. CallsOK(op', L \ {v}, freed, D, k.INFO, k.ON_TIMEOUT_Q)
  BY <1>1, <1>2, <1>5, Delisted
<1>8. /\ op' \in [Task -> Calls] /\ \A t \in Task \ {td} : op'[t] = op[t]
      /\ op'[td].td = op[td].td /\ op'[td].at = "post"
  BY <1>1, <1>2 DEF Calls
<1> HIDE DEF td, v, L
<1>9. KernelOK(k, op')
  <2>1. Enders(op', D) = Enders(op, D)
    BY <1>8 DEF Enders
  <2> QED
    BY <1>5, <2>1, CallsChange
<1>10. TokenOK(VALUE, op', D, k.INFO)
  <2>1. \A t \in Task : Has(op'[t], D[t], k.INFO[t]) <=> Has(op[t], D[t], k.INFO[t])
    BY <1>1, <1>8 DEF Has
  <2> QED
    BY <1>5, <2>1, TokenKept
<1>11. Elems(TD_LIST') = L \ {v}
  BY <1>6
<1> QED
  BY <1>1, <1>4, <1>6, <1>7, <1>8, <1>9, <1>10, AssembleAll

\* The active task has destroyed or stopped itself, and is taken off its ready queue: its
\* call is over.
LEMMA OwnEnd ==
    ASSUME Inv, op[td].td = td, k.TD_STATE[td] = "DYING", td # Idle, NEW o2,
           o2 = [op EXCEPT ![td] = NoCall], NEW w, w = UnlinkReady(k, td)
    PROVE  Settled(w, o2) /\ Fields(w, k.TD_STATE, k.INFO, k.ON_TIMEOUT_Q) /\ w \in Kernel
<1> DEFINE D == k.TD_STATE
<1>1. /\ td \in Task /\ op \in [Task -> Calls] /\ D \in [Task -> State] /\ KernelOK(k, op)
      /\ k \in Kernel /\ td \notin k.ON_TIMEOUT_Q
  BY Now, Zenon
<1>2. td \in Enders(op, D)
  BY <1>1 DEF Enders
<1>3. Alive(k, op, td) /\ Settled(k, op)
  BY <1>1, <1>2, OrderIsSettled DEF Alive
<1> HIDE DEF td
<1>4. w = [UnlinkReady(k, td) EXCEPT !.TD_STATE[td] = "DYING"]
  <2>1. D = [D EXCEPT ![td] = "DYING"]
    BY <1>1
  <2> QED
    BY <1>1, <2>1 DEF UnlinkReady, Kernel
<1>5. Left(k, op, td, w)
  BY <1>1, <1>3, <1>4, ReadyTakenOff
<1>6. /\ Gone(k, op, td, w) /\ w.TD_STATE = [D EXCEPT ![td] = "DYING"] /\ w.INFO = k.INFO
      /\ w.ON_TIMEOUT_Q = k.ON_TIMEOUT_Q \ {td} /\ w \in Kernel
  BY <1>5 DEF Left, Gone
<1>7. o2[td].td # td /\ \A t \in Task \ {td} : t \in Enders(o2, D) <=> t \in Enders(op, D)
  BY <1>1, NoCallFacts DEF Enders
<1>8. Settled(w, o2)
  BY <1>1, <1>3, <1>6, <1>7, GoneKernel, ZenonT(60)
<1>9. w.TD_STATE = D /\ w.ON_TIMEOUT_Q = k.ON_TIMEOUT_Q
  BY <1>1, <1>6
<1> QED
  BY <1>6, <1>8, <1>9 DEF Fields

\* The memory of the victim is given back.
LEMMA FreeVictimStep ==
    ASSUME Inv, FreeVictim
    PROVE  Inv'
<1> DEFINE D == k.TD_STATE
           L == Elems(TD_LIST)
           T == k.ON_TIMEOUT_Q
           v == op[td].td
<1>1. /\ op[td].at = "free" /\ UNCHANGED <<VALUE, lists, created>> /\ freed' = freed \cup {v}
      /\ op' = [op EXCEPT ![td] = NoCall]
      /\ k' = IF v = td THEN Dispatch(UnlinkReady(k, td)) ELSE k
  BY DEF FreeVictim, At, Leave
<1>2. /\ td \in Task /\ td # Idle /\ op \in [Task -> Calls] /\ Shape(op[td])
      /\ RefersOK(op[td], L, freed, D)
  BY <1>1, AtFacts
<1>3. v \in Task /\ v # Idle /\ Disposes(op[td])
  BY <1>1, <1>2 DEF Shape, Disposes, NoCall
<1>4. D[v] = "DYING" /\ v \notin freed /\ v \notin L
  BY <1>1, <1>2, <1>3 DEF RefersOK
<1>5. /\ op' \in [Task -> Calls] /\ op'[td] = NoCall /\ \A t \in Task \ {td} : op'[t] = op[t]
      /\ CallsOK(op', L, freed, D, k.INFO, T)
      /\ D[td] # "DYING" \/ (op[td].td = td <=> NoCall.td = td) => KernelOK(k, op')
  BY <1>1, ActiveMoves, NoCallFacts, ZenonT(60)
<1>6. Alone(op) /\ Known(v)
  BY <1>3, Now
<1>7. \A u \in Task \ {td} : op[u].td = v => ~Disposes(op[u]) /\ ~Restarts(op[u])
  <2>1. v # NULL
    BY <1>3, TaskAssumption
  <2> QED
    BY <1>2, <1>3, <1>6, <2>1 DEF Alone
<1>8. op'[v] = NoCall
  <2>1. CASE v = td
    BY <1>5, <2>1
  <2>2. CASE v # td
    <3>1. op[v] = NoCall \/ (op[v].td = v /\ (Disposes(op[v]) \/ Stopped(op[v])))
      BY <1>4, <1>6 DEF Known, TaskOK
    <3>2. op[v] = NoCall
      BY <1>3, <1>7, <2>2, <3>1 DEF Stopped
    <3> QED
      BY <1>3, <1>5, <2>2, <3>2
  <2> QED
    BY <2>1, <2>2
<1>9. CallsOK(op', L, freed \cup {v}, D, k.INFO, T)
  <2>1. \A u \in Task : op'[u].td = v => ~Disposes(op'[u])
    BY <1>5, <1>7, NoCallFacts
  <2>2. PICK o : o = op'
    OBVIOUS
  <2> HIDE DEF v
  <2>3. CallsOK(o, L, freed \cup {v}, D, k.INFO, T)
    BY <1>3, <1>4, <1>5, <1>8, <2>1, <2>2, Disposed
  <2> QED
    BY <2>2, <2>3
<1>10. TokenOK(VALUE, op', D, k.INFO)
  <2>1. TokenOK(VALUE, op, D, k.INFO)
    BY DEF Inv
  <2>2. ~Has(op[td], D[td], k.INFO[td])
    BY <1>1 DEF Has
  <2>3. \A t \in Task : Has(op'[t], D[t], k.INFO[t]) <=> Has(op[t], D[t], k.INFO[t])
    BY <1>5, <2>2, NoCallFacts
  <2> QED
    BY <2>1, <2>3, TokenKept
<1>11. KernelOK(k', op') /\ Fields(k', D, k.INFO, T)
  <2>1. CASE v = td
    <3>1. PICK w, o : w = UnlinkReady(k, td) /\ o = op'
      OBVIOUS
    <3>2. Settled(w, o) /\ Fields(w, D, k.INFO, T)
      BY <1>1, <1>2, <1>4, <2>1, <3>1, OwnEnd
    <3>3. KernelOK(Dispatch(w), o) /\ Fields(Dispatch(w), w.TD_STATE, w.INFO, w.ON_TIMEOUT_Q)
      BY <3>2, DispatchKernel
    <3>4. k' = Dispatch(w)
      BY <1>1, <2>1, <3>1
    <3> QED
      BY <3>1, <3>2, <3>3, <3>4 DEF Fields
  <2>2. CASE v # td
    <3>1. k' = k
      BY <1>1, <2>2
    <3>2. KernelOK(k, op')
      BY <1>2, <1>5, <2>2, NoCallFacts
    <3> QED
      BY <3>1, <3>2 DEF Fields
  <2> QED
    BY <2>1, <2>2
<1>12. freed' \in SUBSET Task /\ created' \in Nat
  BY <1>1, <1>3 DEF Inv, TypeOK
<1>13. k'.TD_STATE = D /\ k'.INFO = k.INFO /\ k'.ON_TIMEOUT_Q = T
  BY <1>11 DEF Fields
<1> HIDE DEF L, td, v
<1> QED
  BY <1>1, <1>5, <1>9, <1>10, <1>11, <1>12, <1>13, Assemble DEF L

\* The TD of a stopped task with the fields of a new one; STATE is to follow.
Anew(j, v) == [j EXCEPT !.MY_QUEUE[v] = InitPriority[v],
                        !.HOME_QUEUE[v] = InitPriority[v],
                        !.PREEMPTION_DISABLED = @ \ {v}]

\* j and w have the same active task and, but for v, the same bit PREEMPTION_DISABLED.
SameRunning(j, v, w) ==
    w.ACTIVE_PTR = j.ACTIVE_PTR /\ w.PREEMPTION_DISABLED = j.PREEMPTION_DISABLED \ {v}

\* The TD is set up anew, with STATE or without.
LEMMA SetUpAnew ==
    ASSUME NEW j \in Kernel, j.TIME_SLICE_TASK = {}, NEW v \in Task, j.TD_STATE[v] = "DYING",
           NEW w, w = Anew(j, v), NEW x, x = [w EXCEPT !.TD_STATE[v] = "BLOCKED"]
    PROVE  /\ Renewed(j, v, "DYING", w) /\ Fields(w, j.TD_STATE, j.INFO, j.ON_TIMEOUT_Q)
           /\ SameRunning(j, v, w)
           /\ Renewed(j, v, "BLOCKED", x)
           /\ Fields(x, [j.TD_STATE EXCEPT ![v] = "BLOCKED"], j.INFO, j.ON_TIMEOUT_Q)
           /\ SameRunning(j, v, x)
<1> DEFINE M == [j.MY_QUEUE EXCEPT ![v] = InitPriority[v]]
           H == [j.HOME_QUEUE EXCEPT ![v] = InitPriority[v]]
           P == j.PREEMPTION_DISABLED \ {v}
           E == [j.TD_STATE EXCEPT ![v] = "BLOCKED"]
<1>1. /\ j.MY_QUEUE \in [Task -> Priority] /\ j.HOME_QUEUE \in [Task -> Priority]
      /\ j.PREEMPTION_DISABLED \in SUBSET Task /\ j.TD_STATE \in [Task -> State]
  BY KernelFields
<1>2. InitPriority[v] \in Priority
  BY KernelAssumption DEF Priority, IDLE_PRIORITY
<1>3. /\ M \in [Task -> Priority] /\ H \in [Task -> Priority] /\ P \in SUBSET Task
      /\ E \in [Task -> State] /\ j.TD_STATE = [j.TD_STATE EXCEPT ![v] = "DYING"]
  BY <1>1, <1>2, States
<1>4. w = [j EXCEPT !.MY_QUEUE = M, !.HOME_QUEUE = H, !.PREEMPTION_DISABLED = P]
  BY DEF Anew
<1> HIDE DEF M, H, P
<1>5. x = [j EXCEPT !.MY_QUEUE = M, !.HOME_QUEUE = H, !.PREEMPTION_DISABLED = P,
                    !.TD_STATE = E]
  BY <1>4 DEF Kernel
<1> HIDE DEF E
<1>6. w \in Kernel /\ x \in Kernel
  <2>1. w \in Kernel
    BY <1>3, <1>4, ZenonT(60) DEF Kernel
  <2>2. x \in Kernel
    BY <1>3, <1>5, ZenonT(60) DEF Kernel
  <2> QED
    BY <2>1, <2>2
<1>7. /\ w.READY_Q = j.READY_Q /\ w.CURRENT_READY_Q = j.CURRENT_READY_Q
      /\ w.ON_TIMEOUT_Q = j.ON_TIMEOUT_Q /\ w.TIMEOUT_QUEUE = j.TIMEOUT_QUEUE
      /\ w.TIMEOUT = j.TIMEOUT /\ w.QUEUE = j.QUEUE /\ w.INFO = j.INFO
      /\ w.MY_QUEUE = M /\ w.TD_STATE = j.TD_STATE /\ w.TIME_SLICE_TASK = {}
      /\ w.ACTIVE_PTR = j.ACTIVE_PTR /\ w.PREEMPTION_DISABLED = P
  BY <1>4 DEF Kernel
<1>8. /\ x.READY_Q = j.READY_Q /\ x.CURRENT_READY_Q = j.CURRENT_READY_Q
      /\ x.ON_TIMEOUT_Q = j.ON_TIMEOUT_Q /\ x.TIMEOUT_QUEUE = j.TIMEOUT_QUEUE
      /\ x.TIMEOUT = j.TIMEOUT /\ x.QUEUE = j.QUEUE /\ x.INFO = j.INFO
      /\ x.MY_QUEUE = M /\ x.TD_STATE = E /\ x.TIME_SLICE_TASK = {}
      /\ x.ACTIVE_PTR = j.ACTIVE_PTR /\ x.PREEMPTION_DISABLED = P
  BY <1>5, ZenonT(60) DEF Kernel
<1>9. Renewed(j, v, "DYING", w)
  BY <1>3, <1>6, <1>7 DEF Renewed, M
<1>10. Renewed(j, v, "BLOCKED", x)
  BY <1>6, <1>8 DEF Renewed, M, E
<1>11. Fields(w, j.TD_STATE, j.INFO, j.ON_TIMEOUT_Q) /\ SameRunning(j, v, w)
  BY <1>7 DEF Fields, SameRunning, P
<1>12. Fields(x, E, j.INFO, j.ON_TIMEOUT_Q) /\ SameRunning(j, v, x)
  BY <1>8 DEF Fields, SameRunning, P
<1> QED
  BY <1>9, <1>10, <1>11, <1>12 DEF E

\* A stopped task starts again, ready or blocked.
LEMMA RestartKernel ==
    ASSUME NEW j, NEW o, Settled(j, o), NEW v \in Task, v # Idle, j.TD_STATE[v] = "DYING",
           o[v].td # v, v \notin j.ON_TIMEOUT_Q,
           NEW st \in {"READY", "BLOCKED"},
           NEW i, i = IF st = "READY" THEN TASK_READY(Anew(j, v), v)
                      ELSE [Anew(j, v) EXCEPT !.TD_STATE[v] = "BLOCKED"]
    PROVE  /\ LET w == Dispatch(i)
              IN  KernelOK(w, o) /\ Fields(w, [j.TD_STATE EXCEPT ![v] = st], j.INFO, j.ON_TIMEOUT_Q)
           /\ KernelOK(j, o) /\ v # j.ACTIVE_PTR =>
              LET w == CHECK_RUN_SCHEDULER(i)
              IN  KernelOK(w, o) /\ Fields(w, [j.TD_STATE EXCEPT ![v] = st], j.INFO, j.ON_TIMEOUT_Q)
<1> DEFINE D == j.TD_STATE
           T == j.ON_TIMEOUT_Q
<1>1. PICK u : u = Anew(j, v)
  OBVIOUS
<1>2. PICK x : x = [u EXCEPT !.TD_STATE[v] = "BLOCKED"]
  OBVIOUS
<1>3. j \in Kernel /\ j.TIME_SLICE_TASK = {}
  BY DEF Settled
<1>4. /\ Renewed(j, v, "DYING", u) /\ Fields(u, D, j.INFO, T) /\ SameRunning(j, v, u)
      /\ Renewed(j, v, "BLOCKED", x)
      /\ Fields(x, [D EXCEPT ![v] = "BLOCKED"], j.INFO, T) /\ SameRunning(j, v, x)
  BY <1>1, <1>2, <1>3, SetUpAnew
<1>5. Settled(u, o) /\ (KernelOK(j, o) /\ v # j.ACTIVE_PTR => KernelOK(u, o))
  BY <1>4, RenewKernel DEF SameRunning
<1>6. Settled(x, o) /\ (KernelOK(j, o) /\ v # j.ACTIVE_PTR => KernelOK(x, o))
  BY <1>4, RenewKernel DEF SameRunning
<1>7. CASE st = "READY"
  <2>1. i = TASK_READY(u, v)
    BY <1>1, <1>7
  <2>2. u.TD_STATE[v] = "DYING" /\ v \notin u.ON_TIMEOUT_Q /\ v \notin Enders(o, u.TD_STATE)
    BY <1>4 DEF Fields, Enders
  <2>3. Settled(i, o) /\ Fields(i, [u.TD_STATE EXCEPT ![v] = "READY"], u.INFO, u.ON_TIMEOUT_Q)
    BY <1>5, <2>1, <2>2, ReadyKernel
  <2>4. Fields(i, [D EXCEPT ![v] = st], j.INFO, T)
    BY <1>4, <1>7, <2>3 DEF Fields
  <2>5. PICK w : w = Dispatch(i)
    OBVIOUS
  <2>6. KernelOK(w, o) /\ Fields(w, i.TD_STATE, i.INFO, i.ON_TIMEOUT_Q)
    BY <2>3, <2>5, DispatchKernel
  <2>7. ASSUME KernelOK(j, o), v # j.ACTIVE_PTR
        PROVE  LET y == CHECK_RUN_SCHEDULER(i)
               IN  KernelOK(y, o) /\ Fields(y, [D EXCEPT ![v] = st], j.INFO, T)
    <3>1. Alive(u, o, u.ACTIVE_PTR)
      BY <1>5, <2>7, OrderIsSettled
    <3>2. PICK y : y = CHECK_RUN_SCHEDULER(TASK_READY(u, v))
      OBVIOUS
    <3>3. KernelOK(y, o) /\ Fields(y, [u.TD_STATE EXCEPT ![v] = "READY"], u.INFO, u.ON_TIMEOUT_Q)
      BY <1>5, <2>2, <3>1, <3>2, ReadyScheduled
    <3>4. Fields(y, [D EXCEPT ![v] = st], j.INFO, T)
      BY <1>4, <1>7, <3>3 DEF Fields
    <3> QED
      BY <2>1, <3>2, <3>3, <3>4
  <2>8. Fields(w, [D EXCEPT ![v] = st], j.INFO, T)
    BY <2>4, <2>6 DEF Fields
  <2> QED
    BY <2>5, <2>6, <2>7, <2>8
<1>8. CASE st = "BLOCKED"
  <2>1. i = x
    BY <1>1, <1>2, <1>8
  <2>2. PICK w : w = Dispatch(x)
    OBVIOUS
  <2>3. KernelOK(w, o) /\ Fields(w, x.TD_STATE, x.INFO, x.ON_TIMEOUT_Q)
    BY <1>6, <2>2, DispatchKernel
  <2>4. Fields(w, [D EXCEPT ![v] = st], j.INFO, T)
    BY <1>4, <1>8, <2>3 DEF Fields
  <2>5. ASSUME KernelOK(j, o), v # j.ACTIVE_PTR
        PROVE  LET y == CHECK_RUN_SCHEDULER(i)
               IN  KernelOK(y, o) /\ Fields(y, [D EXCEPT ![v] = st], j.INFO, T)
    <3>1. Alive(x, o, x.ACTIVE_PTR)
      BY <1>6, <2>5, OrderIsSettled
    <3>2. PICK y : y = CHECK_RUN_SCHEDULER(x)
      OBVIOUS
    <3>3. KernelOK(y, o) /\ Fields(y, x.TD_STATE, x.INFO, x.ON_TIMEOUT_Q)
      BY <1>6, <3>1, <3>2, ScheduleKernel
    <3>4. Fields(y, [D EXCEPT ![v] = st], j.INFO, T)
      BY <1>4, <1>8, <3>3 DEF Fields
    <3> QED
      BY <2>1, <3>2, <3>3, <3>4
  <2> QED
    BY <2>1, <2>2, <2>3, <2>4, <2>5
<1> QED
  BY <1>7, <1>8

\* A restarted task starts from the beginning.
LEMMA RestartStep ==
    ASSUME Inv, Restart
    PROVE  Inv'
<1> DEFINE D == k.TD_STATE
           L == Elems(TD_LIST)
           T == k.ON_TIMEOUT_Q
           v == op[td].td
           st == IF op[td].at = "restart" THEN "READY" ELSE "BLOCKED"
           b == IF v = td THEN UnlinkReady(k, v) ELSE k
           i == IF st = "READY" THEN TASK_READY(Anew(b, v), v)
                ELSE [Anew(b, v) EXCEPT !.TD_STATE[v] = "BLOCKED"]
<1>1. /\ op[td].at \in {"restart", "restart_blocked"} /\ UNCHANGED <<VALUE, lists, freed, created>>
      /\ op' = [op EXCEPT ![td] = NoCall]
      /\ k' = IF v = td THEN Dispatch(i) ELSE CHECK_RUN_SCHEDULER(i)
  BY DEF Restart, At, Leave, Anew
<1>2. /\ td \in Task /\ td # Idle /\ op \in [Task -> Calls] /\ Shape(op[td])
      /\ RefersOK(op[td], L, freed, D)
  BY <1>1, AtFacts
<1>3. v \in Task /\ v # Idle /\ Restarts(op[td]) /\ Stopped(op[td])
  BY <1>1, <1>2 DEF Shape, Restarts, Stopped, NoCall
<1>4. D[v] = "DYING" /\ v \in L
  BY <1>2, <1>3 DEF RefersOK
<1>5. /\ op' \in [Task -> Calls] /\ op'[td] = NoCall /\ \A t \in Task \ {td} : op'[t] = op[t]
      /\ CallsOK(op', L, freed, D, k.INFO, T)
      /\ D[td] # "DYING" \/ (op[td].td = td <=> NoCall.td = td) => KernelOK(k, op')
  BY <1>1, ActiveMoves, NoCallFacts, ZenonT(60)
<1>6. Alone(op) /\ Known(v) /\ D \in [Task -> State]
  BY <1>3, Now
<1>7. v \notin T
  BY <1>4, <1>6 DEF Known, TaskOK
<1>8. \A u \in Task \ {td} : op[u].td # v
  <2>1. v # NULL
    BY <1>3, TaskAssumption
  <2> QED
    BY <1>2, <1>3, <1>6, <2>1 DEF Alone
<1>9. op'[v] = NoCall /\ \A u \in Task : op'[u].td # v
  <2>1. CASE v = td
    BY <1>3, <1>5, <1>8, <2>1, NoCallFacts
  <2>2. CASE v # td
    <3>1. op[v] = NoCall \/ op[v].td = v
      BY <1>4, <1>6 DEF Known, TaskOK
    <3>2. op[v] = NoCall
      BY <1>3, <1>8, <2>2, <3>1
    <3> QED
      BY <1>3, <1>5, <1>8, <2>2, <3>2, NoCallFacts
  <2> QED
    BY <2>1, <2>2
<1>10. PICK D2, o : D2 = [D EXCEPT ![v] = st] /\ o = op'
  OBVIOUS
<1>11. st \in {"READY", "BLOCKED"}
  OBVIOUS
<1>12. KernelOK(k', o) /\ Fields(k', D2, k.INFO, T)
  <2>1. PICK j : j = b
    OBVIOUS
  <2>2. /\ Settled(j, o) /\ Fields(j, D, k.INFO, T)
        /\ v # td => KernelOK(j, o) /\ v # j.ACTIVE_PTR
    <3>1. CASE v = td
      BY <1>1, <1>2, <1>4, <1>10, <2>1, <3>1, OwnEnd
    <3>2. CASE v # td
      <4>1. KernelOK(k, op') /\ j = k
        BY <1>2, <1>5, <2>1, <3>2, NoCallFacts
      <4>2. v # k.ACTIVE_PTR
        BY <3>2 DEF td
      <4>3. KernelOK(j, o) /\ v # j.ACTIVE_PTR
        BY <1>10, <4>1, <4>2, Zenon
      <4>4. Settled(j, o)
        BY <4>3, OrderIsSettled
      <4>5. Fields(j, D, k.INFO, T)
        BY <4>1 DEF Fields
      <4> QED
        BY <4>3, <4>4, <4>5, Zenon
    <3> QED
      BY <3>1, <3>2
  <2>3. j.TD_STATE = D /\ j.INFO = k.INFO /\ j.ON_TIMEOUT_Q = T
    BY <2>2 DEF Fields
  <2>4. PICK x, w1, w2 : /\ x = i /\ w1 = Dispatch(x) /\ w2 = CHECK_RUN_SCHEDULER(x)
    OBVIOUS
  <2>5. x = IF st = "READY" THEN TASK_READY(Anew(j, v), v)
            ELSE [Anew(j, v) EXCEPT !.TD_STATE[v] = "BLOCKED"]
    BY <2>1, <2>4
  <2>6. o[v].td # v /\ j.TD_STATE[v] = "DYING" /\ v \notin j.ON_TIMEOUT_Q
    BY <1>3, <1>4, <1>7, <1>9, <1>10, <2>3
  <2>7. k' = IF v = td THEN w1 ELSE w2
    BY <1>1, <2>4
  <2> HIDE DEF st, v, i, b, td
  <2>8. /\ KernelOK(w1, o) /\ Fields(w1, [j.TD_STATE EXCEPT ![v] = st], j.INFO, j.ON_TIMEOUT_Q)
        /\ KernelOK(j, o) /\ v # j.ACTIVE_PTR =>
           KernelOK(w2, o) /\ Fields(w2, [j.TD_STATE EXCEPT ![v] = st], j.INFO, j.ON_TIMEOUT_Q)
    BY <1>3, <1>11, <2>2, <2>4, <2>5, <2>6, RestartKernel
  <2> QED
    BY <1>10, <2>2, <2>3, <2>7, <2>8
<1>13. CallsOK(o, L, freed, D2, k.INFO, T)
  <2> HIDE DEF st, v, i, b, td, D, L, T
  <2>1. o \in [Task -> Calls] /\ CallsOK(o, L, freed, D, k.INFO, T) /\ o[v] = NoCall
        /\ \A u \in Task \ {v} : o[u].td # v
    BY <1>5, <1>9, <1>10
  <2> QED
    BY <1>3, <1>4, <1>6, <1>7, <1>10, <1>11, <2>1, Revived
<1>14. TokenOK(VALUE, o, D2, k.INFO)
  <2>1. ASSUME NEW u \in Task
        PROVE  Has(o[u], D2[u], k.INFO[u]) <=> Has(op[u], D[u], k.INFO[u])
    <3>1. CASE u = td
      BY <1>1, <1>5, <1>10, <3>1, NoCallFacts DEF Has
    <3>2. CASE u = v /\ u # td
      BY <1>5, <1>9, <1>10, <3>2, NoCallFacts
    <3>3. CASE u # v /\ u # td
      <4> HIDE DEF v, td, D, st
      <4> QED
        BY <1>5, <1>6, <1>10, <3>3
    <3> QED
      BY <3>1, <3>2, <3>3
  <2>2. TokenOK(VALUE, op, D, k.INFO)
    BY DEF Inv
  <2> QED
    BY <2>1, <2>2, TokenKept
<1>15. k'.TD_STATE = D2 /\ k'.INFO = k.INFO /\ k'.ON_TIMEOUT_Q = T
  BY <1>12 DEF Fields
<1>16. freed' \in SUBSET Task /\ created' \in Nat
  BY <1>1 DEF Inv, TypeOK
<1> HIDE DEF L, td, v, st, b, i
<1> QED
  BY <1>1, <1>5, <1>10, <1>12, <1>13, <1>14, <1>15, <1>16, Assemble DEF L

\* The state of a task before _TASK_READY makes no difference.
LEMMA ReadyAnyhow ==
    ASSUME NEW w \in Kernel, NEW v \in Task, NEW D \in [Task -> State],
           w.TD_STATE = [D EXCEPT ![v] = "DYING"]
    PROVE  TASK_READY(Restate(w, D), v) = TASK_READY(w, v)
<1>1. PICK r : r = TASK_READY(w, v)
  OBVIOUS
<1>2. TASK_READY(Restate(w, D), v) = Restate(r, [D EXCEPT ![v] = "READY"])
  BY <1>1, RestateReady
<1>3. r.TD_STATE = [w.TD_STATE EXCEPT ![v] = "READY"]
  BY <1>1, TaskReadyFrame
<1>4. r.TD_STATE = [D EXCEPT ![v] = "READY"]
  BY <1>3
<1>5. r = Restate(r, r.TD_STATE)
  BY <1>1 DEF TASK_READY, Restate, Kernel
<1> QED
  BY <1>1, <1>2, <1>4, <1>5

\* So it makes none for a task that has left its wait queue.
LEMMA LeftIsReady ==
    ASSUME NEW j \in Kernel, NEW v \in Task, NEW w \in Kernel,
           w = [LeaveQueue(j, v) EXCEPT !.TD_STATE[v] = "DYING"]
    PROVE  TASK_READY(LeaveQueue(j, v), v) = TASK_READY(w, v)
<1> DEFINE D == j.TD_STATE
           q == [j.QUEUE EXCEPT ![j.INFO[v]] = Unlink(@, v)]
<1>1. PICK E : E = [D EXCEPT ![v] = "DYING"]
  OBVIOUS
<1>2. PICK x : x = LeaveQueue(j, v)
  OBVIOUS
<1>3. x = [j EXCEPT !.QUEUE = q]
  BY <1>2 DEF LeaveQueue
<1> HIDE DEF q
<1>4. w = [j EXCEPT !.QUEUE = q, !.TD_STATE = E]
  BY <1>1, <1>2, <1>3 DEF Kernel
<1>5. Restate(w, D) = [j EXCEPT !.QUEUE = q, !.TD_STATE = D] /\ w.TD_STATE = E
  BY <1>4 DEF Restate, Kernel
<1>6. x = [j EXCEPT !.QUEUE = q, !.TD_STATE = D]
  <2>1. PICK z : z = [j EXCEPT !.QUEUE = q, !.TD_STATE = D]
    OBVIOUS
  <2>2. \A f \in DOMAIN j : z[f] = x[f]
    BY <1>3, <2>1
  <2>3. z = [f \in DOMAIN j |-> z[f]] /\ x = [f \in DOMAIN j |-> x[f]]
    BY <1>3, <2>1 DEF Kernel
  <2> QED
    BY <2>1, <2>2, <2>3
<1>7. D \in [Task -> State]
  BY KernelFields
<1>8. TASK_READY(Restate(w, D), v) = TASK_READY(w, v)
  <2>1. w.TD_STATE = [D EXCEPT ![v] = "DYING"]
    BY <1>1, <1>5
  <2> QED
    BY <1>7, <2>1, ReadyAnyhow, Zenon
<1> QED
  BY <1>2, <1>5, <1>6, <1>8

\* The victim of _task_abort is made ready, whatever it was doing.
LEMMA AbortKernel ==
    ASSUME NEW j, NEW o, KernelOK(j, o), NEW v \in Task, v # Idle, v # j.ACTIVE_PTR,
           j.TD_STATE[v] \in {"READY", "BLOCKED", "DYING", "LWSEM_BLOCKED"},
           o[v].td # v, v \notin j.ON_TIMEOUT_Q,
           NEW x, x = IF j.TD_STATE[v] = "LWSEM_BLOCKED" THEN LeaveQueue(j, v) ELSE j,
           NEW r, r = IF j.TD_STATE[v] = "READY" THEN x ELSE CHECK_RUN_SCHEDULER(TASK_READY(x, v))
    PROVE  KernelOK(r, o) /\ Fields(r, [j.TD_STATE EXCEPT ![v] = "READY"], j.INFO, j.ON_TIMEOUT_Q)
<1> DEFINE D == j.TD_STATE
           T == j.ON_TIMEOUT_Q
<1>1. j \in Kernel /\ D \in [Task -> State] /\ v \notin Enders(o, D)
  BY KernelFields DEF KernelOK, Enders
<1>2. Settled(j, o) /\ Alive(j, o, j.ACTIVE_PTR)
  BY OrderIsSettled
<1>3. CASE D[v] = "READY"
  <2>1. r = j /\ D = [D EXCEPT ![v] = "READY"]
    BY <1>1, <1>3
  <2> QED
    BY <2>1 DEF Fields
<1>4. CASE D[v] \in {"BLOCKED", "DYING"}
  <2>1. r = CHECK_RUN_SCHEDULER(TASK_READY(j, v))
    BY <1>4
  <2> QED
    BY <1>1, <1>2, <1>4, <2>1, ReadyScheduled
<1>5. CASE D[v] = "LWSEM_BLOCKED"
  <2>1. PICK w : w = [LeaveQueue(j, v) EXCEPT !.TD_STATE[v] = "DYING"]
    OBVIOUS
  <2>2. TIME_DEQUEUE(j, v) = j
    BY DEF TIME_DEQUEUE
  <2>3. Left(j, o, v, w)
    BY <1>5, <2>1, <2>2, WaiterTakenOff
  <2>4. /\ Gone(j, o, v, w) /\ w \in Kernel /\ w.TD_STATE = [D EXCEPT ![v] = "DYING"]
        /\ w.INFO = j.INFO /\ w.ON_TIMEOUT_Q = T \ {v}
        /\ w.ACTIVE_PTR = j.ACTIVE_PTR /\ w.PREEMPTION_DISABLED = j.PREEMPTION_DISABLED
    BY <2>3 DEF Left, Gone
  <2>5. KernelOK(w, o)
    BY <1>2, <2>4, GoneKernel
  <2>6. Settled(w, o) /\ Alive(w, o, w.ACTIVE_PTR)
    BY <2>5, OrderIsSettled
  <2>7. w.TD_STATE[v] = "DYING" /\ v \notin Enders(o, w.TD_STATE) /\ w.ON_TIMEOUT_Q = T
        /\ [w.TD_STATE EXCEPT ![v] = "READY"] = [D EXCEPT ![v] = "READY"]
    BY <1>1, <2>4 DEF Enders
  <2>8. PICK y : y = CHECK_RUN_SCHEDULER(TASK_READY(w, v))
    OBVIOUS
  <2>9. KernelOK(y, o) /\ Fields(y, [w.TD_STATE EXCEPT ![v] = "READY"], w.INFO, w.ON_TIMEOUT_Q)
    BY <2>6, <2>7, <2>8, ReadyScheduled
  <2>10. TASK_READY(LeaveQueue(j, v), v) = TASK_READY(w, v)
    BY <1>1, <2>1, <2>4, LeftIsReady
  <2>11. r = y
    BY <1>5, <2>8, <2>10
  <2> QED
    BY <2>4, <2>7, <2>9, <2>11
<1> QED
  BY <1>3, <1>4, <1>5

\* _task_abort of a task that it can stop without harm: one that waits for
\* TASK_CREATE_LWSEM does not have the token, nor has one that is in no call.
LEMMA AbortStep ==
    ASSUME Inv, NEW v \in Task, task_abort(v), ~AbortsAnywhere
    PROVE  Inv'
<1> DEFINE D == k.TD_STATE
           L == Elems(TD_LIST)
           T == k.ON_TIMEOUT_Q
           c == [NoCall EXCEPT !.at = "wait", !.td = v]
           x == IF D[v] = "LWSEM_BLOCKED" THEN LeaveQueue(k, v) ELSE k
<1>1. /\ Free /\ v \in Named /\ v # td /\ v \notin T
      /\ op[v] = NoCall \/ (D[v] = "LWSEM_BLOCKED" /\ k.INFO[v] = TASK_CREATE_LWSEM)
      /\ \A t \in Task : op[t].td # v
      /\ op' = [op EXCEPT ![v] = c] /\ UNCHANGED <<VALUE, lists, freed, created>>
  BY DEF task_abort, Abortable
<1>2. Known(v) /\ D \in [Task -> State] /\ op \in [Task -> Calls] /\ KernelOK(k, op) /\ k \in Kernel
  BY Now, Zenon
<1>3. v \in L /\ v # Idle
  BY <1>1 DEF Named
<1>4. D[v] \in {"READY", "BLOCKED", "DYING", "LWSEM_BLOCKED"} /\ v \notin freed
  BY <1>2, <1>3 DEF Known, TaskOK, MemoryOK
<1>5. k' = IF D[v] = "READY" THEN x ELSE CHECK_RUN_SCHEDULER(TASK_READY(x, v))
  <2>1. D[v] \in QueueStates \cup AuxStates <=> D[v] = "LWSEM_BLOCKED"
    BY <1>4 DEF QueueStates, AuxStates
  <2>2. x.TD_STATE[v] = "READY" <=> D[v] = "READY"
    BY <1>2 DEF LeaveQueue, Kernel
  <2>3. k' = IF x.TD_STATE[v] = "READY" THEN x ELSE CHECK_RUN_SCHEDULER(TASK_READY(x, v))
    BY <1>1, <2>1 DEF task_abort
  <2> QED
    BY <2>2, <2>3
<1>6. PICK D2, r : D2 = [D EXCEPT ![v] = "READY"] /\ r = k'
  OBVIOUS
<1>7. KernelOK(r, op) /\ Fields(r, D2, k.INFO, T)
  <2>1. op[v].td # v /\ v # k.ACTIVE_PTR
    BY <1>1 DEF td
  <2>2. PICK y : y = x
    OBVIOUS
  <2>3. r = IF D[v] = "READY" THEN y ELSE CHECK_RUN_SCHEDULER(TASK_READY(y, v))
    BY <1>5, <1>6, <2>2
  <2> QED
    BY <1>1, <1>2, <1>3, <1>4, <1>6, <2>1, <2>2, <2>3, AbortKernel
<1>8. r.TD_STATE = D2 /\ r.INFO = k.INFO /\ r.ON_TIMEOUT_Q = T
  BY <1>7 DEF Fields
<1>9. c \in Calls /\ c.at = "wait" /\ c.td = v /\ c.then = "none"
  BY DEF Calls, NoCall
<1> HIDE DEF c, x, td
<1>10. op' \in [Task -> Calls] /\ op'[v] = c /\ \A t \in Task \ {v} : op'[t] = op[t]
  BY <1>1, <1>2, <1>9
<1>11. KernelOK(r, op')
  <2>1. D2[v] # "DYING"
    BY <1>2, <1>6
  <2>2. Enders([op EXCEPT ![v] = c], D2) = Enders(op, D2)
    BY <1>2, <2>1, EndersKept
  <2>3. PICK o2 : o2 = op'
    OBVIOUS
  <2>4. KernelOK(r, o2)
    BY <1>1, <1>7, <1>8, <2>2, <2>3, CallsChange
  <2> QED
    BY <2>3, <2>4
<1>12. CallsOK(op', L, freed, D2, k.INFO, T)
  <2>1. ~Creates(c) /\ ~Restarts(c) /\ ~Stopped(c) /\ ~Disposes(c)
    BY <1>9 DEF Creates, Restarts, Stopped, Disposes
  <2>2. Shape(c) /\ RefersOK(c, L, freed, D2)
    BY <1>3, <1>9, <2>1 DEF Shape, RefersOK
  <2>3. TaskOK(v, c, D2, k.INFO, T) /\ MemoryOK(v, c, L, freed, D2)
    BY <1>1, <1>2, <1>3, <1>4, <1>6 DEF TaskOK, MemoryOK
  <2>4. Apart(op, v, c) /\ Allowed(op, v, "READY")
    BY <1>1, <1>9 DEF Apart, Allowed
  <2>5. Moves(op, L, freed, D, k.INFO, T, v, c, "READY", op', D2, k.INFO, T)
    BY <1>1, <1>2, <1>6, <2>2, <2>3, <2>4, States DEF Moves
  <2>6. CallsOK(op, L, freed, D, k.INFO, T)
    BY DEF Inv
  <2> QED
    BY <2>5, <2>6, OneTask
<1>13. TokenOK(VALUE, op', D2, k.INFO)
  <2>1. ASSUME NEW u \in Task
        PROVE  Has(op'[u], D2[u], k.INFO[u]) <=> Has(op[u], D[u], k.INFO[u])
    <3>1. CASE u = v
      BY <1>1, <1>9, <1>10, <3>1, NoCallFacts DEF Has
    <3>2. CASE u # v
      BY <1>2, <1>6, <1>10, <3>2
    <3> QED
      BY <3>1, <3>2
  <2>2. TokenOK(VALUE, op, D, k.INFO)
    BY DEF Inv
  <2> QED
    BY <2>1, <2>2, TokenKept
<1>14. freed' \in SUBSET Task /\ created' \in Nat
  BY <1>1 DEF Inv, TypeOK
<1> HIDE DEF L
<1> QED
  BY <1>1, <1>6, <1>8, <1>10, <1>11, <1>12, <1>13, <1>14, Assemble DEF L

\* The TD of a new task in memory that had been given back.
Built(j, u) == [j EXCEPT !.TD_STATE[u] = "BLOCKED",
                         !.MY_QUEUE[u] = InitPriority[u],
                         !.HOME_QUEUE[u] = InitPriority[u],
                         !.BOOSTED[u] = 0,
                         !.INFO[u] = NULL,
                         !.PREEMPTION_DISABLED = @ \ {u}]

\* That leaves the kernel in order.
LEMMA BuildKernel ==
    ASSUME NEW j, NEW o, KernelOK(j, o), NEW u \in Task, u # Idle, u # j.ACTIVE_PTR,
           j.TD_STATE[u] = "DYING", o[u].td # u, u \notin j.ON_TIMEOUT_Q,
           NEW w, w = Built(j, u)
    PROVE  /\ KernelOK(w, o)
           /\ Fields(w, [j.TD_STATE EXCEPT ![u] = "BLOCKED"], [j.INFO EXCEPT ![u] = NULL],
                     j.ON_TIMEOUT_Q)
<1> DEFINE E == [j.TD_STATE EXCEPT ![u] = "BLOCKED"]
           M == [j.MY_QUEUE EXCEPT ![u] = InitPriority[u]]
           H == [j.HOME_QUEUE EXCEPT ![u] = InitPriority[u]]
           B == [j.BOOSTED EXCEPT ![u] = 0]
           I == [j.INFO EXCEPT ![u] = NULL]
           P == j.PREEMPTION_DISABLED \ {u}
<1>1. j \in Kernel /\ j.TIME_SLICE_TASK = {} /\ Settled(j, o)
  BY OrderIsSettled DEF KernelOK
<1>2. /\ j.MY_QUEUE \in [Task -> Priority] /\ j.HOME_QUEUE \in [Task -> Priority]
      /\ j.PREEMPTION_DISABLED \in SUBSET Task /\ j.TD_STATE \in [Task -> State]
      /\ j.BOOSTED \in [Task -> Nat] /\ j.INFO \in [Task -> Info]
  BY <1>1, KernelFields
<1>3. InitPriority[u] \in Priority /\ NULL \in Info
  BY KernelAssumption DEF Priority, IDLE_PRIORITY, Info
<1>4. /\ M \in [Task -> Priority] /\ H \in [Task -> Priority] /\ P \in SUBSET Task
      /\ E \in [Task -> State] /\ B \in [Task -> Nat] /\ I \in [Task -> Info]
      /\ \A t \in Task \ {u} : I[t] = j.INFO[t]
  BY <1>2, <1>3, States
<1>5. w = [j EXCEPT !.TD_STATE = E, !.MY_QUEUE = M, !.HOME_QUEUE = H, !.BOOSTED = B,
                    !.INFO = I, !.PREEMPTION_DISABLED = P]
  BY DEF Built
<1> HIDE DEF E, M, H, B, I, P
<1>6. w \in Kernel
  BY <1>1, <1>4, <1>5, ZenonT(60) DEF Kernel
<1>7. /\ w.READY_Q = j.READY_Q /\ w.CURRENT_READY_Q = j.CURRENT_READY_Q
      /\ w.ON_TIMEOUT_Q = j.ON_TIMEOUT_Q /\ w.TIMEOUT_QUEUE = j.TIMEOUT_QUEUE
      /\ w.TIMEOUT = j.TIMEOUT /\ w.QUEUE = j.QUEUE /\ w.INFO = I
      /\ w.MY_QUEUE = M /\ w.TD_STATE = E /\ w.TIME_SLICE_TASK = {}
      /\ w.ACTIVE_PTR = j.ACTIVE_PTR /\ w.PREEMPTION_DISABLED = P
  BY <1>1, <1>5 DEF Kernel
<1>8. Renewed(j, u, "BLOCKED", w)
  BY <1>4, <1>6, <1>7 DEF Renewed, M, E
<1>9. w.ACTIVE_PTR = j.ACTIVE_PTR /\ w.PREEMPTION_DISABLED = j.PREEMPTION_DISABLED \ {u}
  BY <1>7 DEF P
<1>10. KernelOK(w, o)
  BY <1>1, <1>8, <1>9, RenewKernel, Zenon
<1>11. Fields(w, E, I, j.ON_TIMEOUT_Q)
  BY <1>7 DEF Fields
<1> QED
  BY <1>10, <1>11 DEF E, I

\* A new task is given its TD, its number and its place in the list.
LEMMA BuildStep ==
    ASSUME Inv, NEW u \in Task, Build(u)
    PROVE  Inv'
<1> DEFINE D == k.TD_STATE
           L == Elems(TD_LIST)
           T == k.ON_TIMEOUT_Q
           b == op[td]
           c == [b EXCEPT !.at = "post", !.td = u]
<1>1. /\ op[td].at = "build" /\ u \in freed /\ \A t \in Task : op[t].td # u
      /\ NumberTask(u) /\ freed' = freed \ {u} /\ UNCHANGED <<VALUE, created>>
      /\ op' = [op EXCEPT ![td].at = "post", ![td].td = u]
      /\ k' = Built(k, u)
  BY DEF Build, At, Built
<1>2. /\ td \in Task /\ td # Idle /\ op \in [Task -> Calls] /\ D[td] = "READY" /\ Shape(op[td])
  BY <1>1, AtFacts
<1>3. b \in Calls /\ b.at = "build" /\ b.then \in {"ready", "blocked"}
  BY <1>1, <1>2 DEF Shape, NoCall
<1>4. /\ Known(u) /\ Known(td) /\ D \in [Task -> State] /\ KernelOK(k, op)
      /\ k.INFO \in [Task -> Info] /\ td \notin T
  BY <1>2, Now, Zenon
<1>5. /\ u \notin L /\ op[u] = NoCall /\ D[u] = "DYING" /\ u # Idle /\ u \notin T /\ u # td
      /\ td \in L
  BY <1>1, <1>2, <1>4 DEF Known, MemoryOK, TaskOK
<1>6. /\ TD_LIST \in Seq(Task) /\ TASK_ID \in [Task -> Nat] /\ TASK_NUMBER \in Nat \ {0}
      /\ INSERT_TD_PTR \in Task \cup {NULL}
      /\ NumbersOK(TD_LIST, TASK_ID, TASK_NUMBER, INSERT_TD_PTR)
      /\ freed' \in SUBSET Task /\ created' \in Nat
  BY <1>1 DEF Inv, TypeOK
<1>7. CallsOK(op, L, freed, D, k.INFO, T) /\ TokenOK(VALUE, op, D, k.INFO)
  BY DEF Inv
<1>8. /\ NumbersOK(TD_LIST', TASK_ID', TASK_NUMBER', INSERT_TD_PTR')
      /\ Elems(TD_LIST') = L \cup {u} /\ TD_LIST' \in Seq(Task) /\ TASK_ID' \in [Task -> Nat]
      /\ TASK_NUMBER' \in Nat \ {0} /\ INSERT_TD_PTR' \in Task
  <2>1. PICK q, f, n, p : q = TD_LIST /\ f = TASK_ID /\ n = TASK_NUMBER /\ p = INSERT_TD_PTR
    OBVIOUS
  <2> DEFINE pos  == PlaceFor(q, p)
             q2   == QUEUE_INSERT(q, pos, u)
             f2   == [f EXCEPT ![u] = n]
             last == RunEnd(q2, f2, n, pos)
             n2   == n + (last - pos) + 1
             p2   == q2[last]
  <2>2. /\ NumbersOK(q2, f2, n2, p2) /\ Elems(q2) = Elems(q) \cup {u}
        /\ q2 \in Seq(Task) /\ f2 \in [Task -> Nat] /\ n2 \in Nat \ {0} /\ p2 \in Task
    <3>1. /\ q \in Seq(Task) /\ f \in [Task -> Nat] /\ n \in Nat \ {0}
          /\ p \in Task \cup {NULL} /\ NumbersOK(q, f, n, p) /\ u \notin Elems(q)
      BY <1>5, <1>6, <2>1
    <3> QED
      BY <3>1, NumberGiven
  <2>3. TD_LIST' = q2 /\ TASK_ID' = f2 /\ TASK_NUMBER' = n2 /\ INSERT_TD_PTR' = p2
    BY <1>1, <2>1 DEF NumberTask, PlaceFor, RunEnd
  <2>4. Elems(q) = L
    BY <2>1
  <2> HIDE DEF q2, f2, n2, p2
  <2> QED
    BY <2>1, <2>2, <2>3, <2>4
<1>9. PICK D2, I2, L2, F2, w, o2 :
        /\ D2 = [D EXCEPT ![u] = "BLOCKED"] /\ I2 = [k.INFO EXCEPT ![u] = NULL]
        /\ L2 = L \cup {u} /\ F2 = freed \ {u} /\ w = k' /\ o2 = op'
  OBVIOUS
<1>10. KernelOK(w, op) /\ Fields(w, D2, I2, T)
  <2>1. u # k.ACTIVE_PTR /\ op[u].td # u
    BY <1>1, <1>5 DEF td
  <2>2. w = Built(k, u)
    BY <1>1, <1>9
  <2> QED
    BY <1>4, <1>5, <1>9, <2>1, <2>2, BuildKernel
<1>11. w.TD_STATE = D2 /\ w.INFO = I2 /\ w.ON_TIMEOUT_Q = T
  BY <1>10 DEF Fields
<1>12. op' = [op EXCEPT ![td] = c]
  BY <1>1, <1>2
<1>13. c \in Calls /\ c.at = "post" /\ c.td = u /\ c.then \in {"ready", "blocked"}
  BY <1>3 DEF Calls
<1> HIDE DEF c, b, td, D, L, T
<1>14. /\ o2 \in [Task -> Calls] /\ o2 = [op EXCEPT ![td] = c] /\ o2[td] = c
       /\ \A t \in Task \ {td} : o2[t] = op[t]
  BY <1>2, <1>9, <1>12, <1>13
<1>15. /\ D2 \in [Task -> State] /\ D2[u] = "BLOCKED" /\ D2[td] = "READY"
       /\ \A t \in Task \ {u} : D2[t] = D[t] /\ I2[t] = k.INFO[t]
  BY <1>2, <1>4, <1>5, <1>9, States
<1>16. KernelOK(w, o2)
  <2>1. Enders([op EXCEPT ![td] = c], D2) = Enders(op, D2)
    <3>1. D2[td] # "DYING"
      BY <1>15
    <3> QED
      BY <1>2, <3>1, EndersKept
  <2> QED
    BY <1>10, <1>11, <1>14, <2>1, CallsChange
<1>17. CallsOK(op, L2, F2, D2, I2, T)
  <2>1. CallsOK(op, L2, F2, D, k.INFO, T)
    BY <1>1, <1>7, <1>9, Listed
  <2>2. u \in L2 /\ "BLOCKED" \in {"READY", "BLOCKED"}
    BY <1>9
  <2> QED
    BY <1>1, <1>2, <1>4, <1>5, <1>9, <1>15, <2>1, <2>2, Revived
<1>18. CallsOK(o2, L2, F2, D2, I2, T)
  <2>1. Creates(c) /\ ~Restarts(c) /\ ~Stopped(c) /\ ~Disposes(c)
    BY <1>13 DEF Creates, Restarts, Stopped, Disposes
  <2>2. Shape(c)
    BY <1>5, <1>13 DEF Shape
  <2>3. RefersOK(c, L2, F2, D2)
    BY <1>9, <1>13, <1>15, <2>1 DEF RefersOK
  <2>4. td \in L2 /\ td \notin F2
    BY <1>4, <1>5, <1>9 DEF Known, MemoryOK, L
  <2>5. TaskOK(td, c, D2, I2, T) /\ MemoryOK(td, c, L2, F2, D2)
    BY <1>2, <1>4, <1>15, <2>4 DEF TaskOK, MemoryOK
  <2>6. Apart(op, td, c)
    BY <1>1, <1>13 DEF Apart
  <2>7. Allowed(op, td, "READY")
    BY <1>2, LivingAllowed DEF D
  <2>8. D2 = [D2 EXCEPT ![td] = "READY"] /\ "READY" \in State
    BY <1>2, <1>15, States
  <2>9. Moves(op, L2, F2, D2, I2, T, td, c, "READY", o2, D2, I2, T)
    BY <1>2, <1>14, <1>15, <2>2, <2>3, <2>5, <2>6, <2>7, <2>8 DEF Moves
  <2> QED
    BY <1>17, <2>9, OneTask
<1>19. TokenOK(VALUE, o2, D2, I2)
  <2>1. ASSUME NEW t \in Task
        PROVE  Has(o2[t], D2[t], I2[t]) <=> Has(op[t], D[t], k.INFO[t])
    <3>1. CASE t = td
      BY <1>1, <1>2, <1>13, <1>14, <1>15, <3>1 DEF Has
    <3>2. CASE t = u
      BY <1>5, <1>14, <3>2, NoCallFacts
    <3>3. CASE t # td /\ t # u
      BY <1>14, <1>15, <3>3
    <3> QED
      BY <3>1, <3>2, <3>3
  <2> QED
    BY <1>7, <2>1, TokenKept DEF D
<1>20. /\ KernelOK(k', op') /\ op' \in [Task -> Calls] /\ TokenOK(VALUE', op', k'.TD_STATE, k'.INFO)
  BY <1>1, <1>9, <1>11, <1>14, <1>16, <1>19
<1>21. CallsOK(op', Elems(TD_LIST'), freed', k'.TD_STATE, k'.INFO, k'.ON_TIMEOUT_Q)
  BY <1>1, <1>8, <1>9, <1>11, <1>18
<1> QED
  BY <1>6, <1>8, <1>20, <1>21, AssembleAll

(***************************************************************************)
(* The invariant.  There is no round robin, and no abort of a wait with a    *)
(* timeout: either makes the code break it.                                 *)
(***************************************************************************)
\* It holds when the tasks of the application start.
LEMMA InitInv ==
    ASSUME InitTimeSliceTask = {}
    PROVE  Init => Inv
<1> SUFFICES ASSUME Init
             PROVE  Inv
  OBVIOUS
<1>1. /\ k = Boot /\ VALUE = 1 /\ TD_LIST = BootOrder /\ TASK_NUMBER = 1
      /\ INSERT_TD_PTR = NULL /\ freed = {} /\ op = [t \in Task |-> NoCall] /\ created = 0
  BY DEF Init
<1>2. TASK_ID = [t \in Task |-> 1 + CHOOSE i \in 1 .. Len(BootOrder) : BootOrder[i] = t]
  BY DEF Init
<1>3. /\ Consistent(k) /\ k.TD_STATE = [t \in Task |-> "READY"] /\ k.ON_TIMEOUT_Q = {}
      /\ k \in Kernel
  BY <1>1, BootWait, ConsistentKernel
<1>4. k.TIME_SLICE_TASK = {}
  <2>1. PICK r : r = ReadyAll(Unbooted, BootOrder)
    OBVIOUS
  <2>2. Idle \in Task /\ Unbooted \in Kernel /\ r \in Kernel
    BY <2>1, KernelAssumption, UnbootedType, BootInv DEF KInv
  <2>3. r.TIME_SLICE_TASK = Unbooted.TIME_SLICE_TASK
    BY <2>1, <2>2, SliceTasksKept
  <2>4. Dispatch(r).TIME_SLICE_TASK = r.TIME_SLICE_TASK
    BY <2>2, SliceTasksKept
  <2>5. k = Dispatch(r) /\ Unbooted.TIME_SLICE_TASK = InitTimeSliceTask
    BY <1>1, <2>1 DEF Boot, Unbooted
  <2> QED
    BY <2>3, <2>4, <2>5
<1>5. \A t \in Task : op[t] = NoCall /\ k.TD_STATE[t] = "READY"
  BY <1>1, <1>3
<1>6. op \in [Task -> Calls]
  BY <1>1, NoCallFacts
<1>7. KernelOK(k, op)
  <2>1. Enders(op, k.TD_STATE) = {}
    BY <1>5 DEF Enders
  <2>2. k.TD_STATE \in [Task -> State]
    BY <1>3, KernelFields
  <2>3. ReadyStates(k.TD_STATE, Enders(op, k.TD_STATE)) = k.TD_STATE
    BY <2>1, <2>2 DEF ReadyStates
  <2>4. Restate(k, k.TD_STATE) = k
    BY <1>3 DEF Restate, Kernel
  <2> QED
    BY <1>3, <1>4, <2>3, <2>4 DEF KernelOK, Shadow
<1>8. BootOrder \in Seq(Task) /\ Len(BootOrder) \in Nat
  BY KernelAssumption
<1>9. ASSUME NEW i \in 1 .. Len(BootOrder)
      PROVE  BootOrder[i] \in Task /\ TASK_ID[BootOrder[i]] = 1 + i
  <2>1. BootOrder[i] \in Task
    BY <1>8
  <2>2. (CHOOSE m \in 1 .. Len(BootOrder) : BootOrder[m] = BootOrder[i]) = i
    BY KernelAssumption
  <2> QED
    BY <1>2, <2>1, <2>2
<1>10. TASK_ID \in [Task -> Nat] /\ \A t \in Task : t \in Elems(BootOrder)
  <2>1. ASSUME NEW t \in Task
        PROVE  t \in Elems(BootOrder) /\ TASK_ID[t] \in Nat
    <3>1. PICK i \in 1 .. Len(BootOrder) : BootOrder[i] = t
      BY KernelAssumption
    <3>2. TASK_ID[t] = 1 + i
      BY <1>9, <3>1
    <3> QED
      BY <1>8, <3>1, <3>2 DEF Elems
  <2> QED
    BY <1>2, <2>1
<1>11. TypeOK
  BY <1>1, <1>3, <1>6, <1>8, <1>10 DEF TypeOK
<1>12. NumbersOK(TD_LIST, TASK_ID, TASK_NUMBER, INSERT_TD_PTR)
  BY <1>1, <1>8, <1>9 DEF NumbersOK
<1>13. CallsOK(op, Elems(TD_LIST), freed, k.TD_STATE, k.INFO, k.ON_TIMEOUT_Q)
  <2>1. ASSUME NEW t \in Task
        PROVE  /\ Shape(op[t]) /\ RefersOK(op[t], Elems(TD_LIST), freed, k.TD_STATE)
               /\ TaskOK(t, op[t], k.TD_STATE, k.INFO, k.ON_TIMEOUT_Q)
               /\ MemoryOK(t, op[t], Elems(TD_LIST), freed, k.TD_STATE)
    <3>1. op[t] = NoCall /\ k.TD_STATE[t] = "READY" /\ t \notin k.ON_TIMEOUT_Q
          /\ t \in Elems(TD_LIST) /\ t \notin freed
      BY <1>1, <1>3, <1>5, <1>10
    <3> QED
      BY <3>1, NoCallFacts DEF TaskOK, MemoryOK
  <2>2. Alone(op)
    BY <1>5, NoCallFacts DEF Alone
  <2> QED
    BY <2>1, <2>2 DEF CallsOK
<1>14. TokenOK(VALUE, op, k.TD_STATE, k.INFO)
  BY <1>1, <1>5, NoCallFacts, TokenMade
<1> QED
  BY <1>7, <1>11, <1>12, <1>13, <1>14 DEF Inv

\* Every step preserves it.
LEMMA NextInv ==
    ASSUME ~AbortsAnywhere, Inv, [Next]_vars
    PROVE  Inv'
<1>1. CASE \E then \in {"ready", "blocked"} : task_create(then)
  BY <1>1, CreateStep
<1>2. CASE \E u \in Task : Build(u)
  BY <1>2, BuildStep
<1>3. CASE BuildFails
  BY <1>3, BuildFailsStep
<1>4. CASE ReadyNewTask
  BY <1>4, ReadyNewTaskStep
<1>5. CASE NewTaskBlocked
  BY <1>5, NewTaskBlockedStep
<1>6. CASE \E v \in Task : task_destroy(v)
  BY <1>6, DestroyStep
<1>7. CASE DestroyWait
  BY <1>7, DestroyWaitStep
<1>8. CASE Victim
  BY <1>8, VictimStep
<1>9. CASE Cleanup
  BY <1>9, CleanupStep
<1>10. CASE FreeVictim
  BY <1>10, FreeVictimStep
<1>11. CASE Post
  BY <1>11, PostStep
<1>12. CASE \E v \in Task, then \in {"restart", "restart_blocked"} : task_restart(v, then)
  BY <1>12, RestartBegins
<1>13. CASE RestartVictim
  BY <1>13, RestartVictimStep
<1>14. CASE Restart
  BY <1>14, RestartStep
<1>15. CASE \E t \in Task : task_ready(t)
  BY <1>15, TaskReadyStep
<1>16. CASE \E v \in Task : task_abort(v)
  BY <1>16, AbortStep
<1>17. CASE \E s \in Sem : lwsem_wait(s, FALSE, 0)
  <2>1. PICK s \in Sem : lwsem_wait(s, FALSE, 0)
    BY <1>17
  <2>2. FALSE \in BOOLEAN /\ 0 \in Int
    OBVIOUS
  <2> QED
    BY <2>1, <2>2, WaitStep
<1>18. CASE \E s \in Sem, n \in 1 .. MaxDelay : lwsem_wait(s, TRUE, n)
  <2>1. PICK s \in Sem, n \in 1 .. MaxDelay : lwsem_wait(s, TRUE, n)
    BY <1>18
  <2>2. n \in Int
    OBVIOUS
  <2> QED
    BY <2>1, <2>2, WaitStep
<1>19. CASE \E s \in Sem : IsrPost(s)
  BY <1>19, IsrPostStep
<1>20. CASE Tick
  BY <1>20, TickStep
<1>21. CASE UNCHANGED vars
  BY <1>21 DEF vars, lists, Inv, TypeOK
<1> QED
  BY <1>1, <1>2, <1>3, <1>4, <1>5, <1>6, <1>7, <1>8, <1>9, <1>10, <1>11, <1>12, <1>13,
     <1>14, <1>15, <1>16, <1>17, <1>18, <1>19, <1>20, <1>21 DEF Next

\* It holds all the time, if no task takes part in round robin and _task_abort is called
\* for tasks only that are Abortable.
THEOREM Invariance ==
    ASSUME ~AbortsAnywhere, InitTimeSliceTask = {}
    PROVE  Spec => []Inv
<1>1. Init => Inv
  BY InitInv
<1>2. Inv /\ [Next]_vars => Inv'
  BY NextInv
<1> QED
  BY <1>1, <1>2, PTL DEF Spec

\* The shadow is the kernel that SchedulerConsistent looks at.
LEMMA ShadowScheduler ==
    ASSUME Inv
    PROVE  SchedulerConsistent /\ SchedulerOK(Shadow(k, op))
<1> DEFINE D == k.TD_STATE
<1>1. KernelOK(k, op)
  BY DEF Inv
<1>2. SchedulerOK(Shadow(k, op))
  BY <1>1, ConsistentKernel DEF KernelOK
<1>3. [t \in Task |-> IF Ending(t) THEN "READY" ELSE D[t]] = ReadyStates(D, Enders(op, D))
  BY DEF ReadyStates, Enders, Ending
<1>4. Shadow(k, op) = [k EXCEPT !.TD_STATE = [t \in Task |-> IF Ending(t) THEN "READY" ELSE D[t]]]
  BY <1>3 DEF Shadow, Restate
<1> QED
  BY <1>2, <1>4 DEF SchedulerConsistent

\* Nothing refers to a freed TD.
LEMMA FreedUnlinked ==
    ASSUME Inv
    PROVE  FreedIsUnlinked
<1> DEFINE D == k.TD_STATE
<1> SUFFICES ASSUME NEW t \in freed
             PROVE  /\ t # td
                    /\ t \notin Elems(TD_LIST) \cup k.ON_TIMEOUT_Q
                    /\ \A p \in Priority : t \notin Elems(k.READY_Q[p])
                    /\ \A o \in Queue : t \notin Elems(k.QUEUE[o])
  BY DEF FreedIsUnlinked
<1>1. t \in Task
  BY DEF Inv, TypeOK
<1>2. Known(t) /\ k \in Kernel /\ td \in Task
  BY <1>1, Now, Zenon
<1>3. t \notin Elems(TD_LIST) /\ op[t] = NoCall /\ D[t] = "DYING" /\ t \notin k.ON_TIMEOUT_Q
  BY <1>2 DEF Known, MemoryOK, TaskOK
<1>4. op[t].td # t
  BY <1>1, <1>3, NoCallFacts
<1>5. t # td
  <2>1. D[td] = "READY" \/ op[td].td = td
    BY Now, Zenon
  <2> QED
    BY <1>3, <1>4, <2>1
<1>6. ASSUME NEW p \in Priority
      PROVE  t \notin Elems(k.READY_Q[p])
  <2>1. PICK c : c = Shadow(k, op)
    OBVIOUS
  <2>2. k.READY_Q = c.READY_Q /\ (IsReady(c, t) <=> Alive(k, op, t))
    BY <1>1, <1>2, <2>1, ShadowFields DEF Shared
  <2>3. ~Alive(k, op, t)
    BY <1>3, <1>4 DEF Alive, Enders
  <2>4. ReadyQueuesOK(c)
    BY <2>1, ShadowScheduler DEF SchedulerOK
  <2> QED
    BY <1>1, <2>2, <2>3, <2>4 DEF ReadyQueuesOK
<1>7. ASSUME NEW o \in Queue
      PROVE  t \notin Elems(k.QUEUE[o])
  <2>1. t \in Elems(k.QUEUE[o]) <=> D[t] \in WaitStates /\ k.INFO[t] = o
    BY <1>1, Now, Zenon
  <2>2. D[t] \notin WaitStates
    BY <1>3 DEF WaitStates, AuxStates, QueueStates
  <2> QED
    BY <2>1, <2>2
<1> QED
  BY <1>3, <1>5, <1>6, <1>7

\* Without round robin, and if only Abortable tasks are aborted: tasks are destroyed and
\* restarted by _task_destroy and _task_restart while they are ready, wait with or without
\* a timeout or are in such a call themselves, and the ready, wait and timeout queues and
\* the running task fit together, and no list refers to a TD whose memory was given back.
THEOREM LifeKeepsKernel ==
    ASSUME ~AbortsAnywhere, InitTimeSliceTask = {}
    PROVE  Spec => []KernelConsistent
<1>1. Inv => KernelConsistent
  <2> SUFFICES ASSUME Inv
               PROVE  KernelConsistent
    OBVIOUS
  <2>1. TypeOK /\ KernelOK(k, op)
    BY DEF Inv
  <2>2. \A s \in Queue : NoDuplicates(k.QUEUE[s])
    BY <2>1, OrderFacts
  <2>3. \A t \in Task, s \in Queue :
           t \in Elems(k.QUEUE[s]) <=> k.TD_STATE[t] \in WaitStates /\ k.INFO[t] = s
    BY Now, Zenon
  <2>4. WaitersExact
    BY <2>2, <2>3 DEF WaitersExact, WaitQueuesOK, WaitStates
  <2> QED
    BY <2>1, <2>4, ShadowScheduler, FreedUnlinked DEF KernelConsistent
<1>2. Spec => []Inv
  BY Invariance
<1> QED
  BY <1>1, <1>2, PTL

\* Without round robin, and if only Abortable tasks are aborted: TASK_CREATE_LWSEM
\* serializes creation, destruction and restart, and its one token is not lost when a task
\* is destroyed, restarted or aborted that waits for it or is in none of these calls.
THEOREM TokenSurvives ==
    ASSUME ~AbortsAnywhere, InitTimeSliceTask = {}
    PROVE  Spec => []Serialized
<1>1. Inv => Serialized
  <2> SUFFICES ASSUME Inv
               PROVE  Serialized
    OBVIOUS
  <2>1. ASSUME NEW t \in Task
        PROVE  t \in Holders <=> Has(op[t], k.TD_STATE[t], k.INFO[t])
    <3>1. Known(t) /\ (t \in Elems(k.QUEUE[TASK_CREATE_LWSEM]) <=>
                         k.TD_STATE[t] \in WaitStates /\ k.INFO[t] = TASK_CREATE_LWSEM)
      BY Now, TaskAssumption, Zenon
    <3>2. k.TD_STATE[t] \in WaitStates <=> k.TD_STATE[t] = "LWSEM_BLOCKED"
      BY <3>1 DEF Known, TaskOK, WaitStates, AuxStates, QueueStates
    <3> QED
      BY <3>1, <3>2 DEF Holders, Has
  <2>2. Holders = Having(op, k.TD_STATE, k.INFO)
    <3>1. Holders \subseteq Task
      BY DEF Holders
    <3> QED
      BY <2>1, <3>1 DEF Having
  <2>3. \/ VALUE = 0 /\ \E h \in Task : Holders = {h}
        \/ VALUE = 1 /\ Holders = {}
    BY <2>2 DEF Inv, TokenOK
  <2>4. CASE VALUE = 0 /\ \E h \in Task : Holders = {h}
    <3>1. PICK h : Holders = {h}
      BY <2>4
    <3>2. Cardinality(Holders) = 1
      BY <3>1, FS_Singleton
    <3> QED
      BY <2>4, <3>2 DEF Serialized
  <2>5. CASE VALUE = 1 /\ Holders = {}
    <3>1. Cardinality(Holders) = 0
      BY <2>5, FS_EmptySet
    <3> QED
      BY <2>5, <3>1 DEF Serialized
  <2> QED
    BY <2>3, <2>4, <2>5
<1>2. Spec => []Inv
  BY Invariance
<1> QED
  BY <1>1, <1>2, PTL

\* Without round robin, and if only Abortable tasks are aborted: the list of TDs is sorted
\* by task numbers, without two alike, TASK_NUMBER is the lowest free number and
\* INSERT_TD_PTR its place, although the code never searches for either.
THEOREM NumbersStayUnique ==
    ASSUME ~AbortsAnywhere, InitTimeSliceTask = {}
    PROVE  Spec => []NumbersUnique
<1>1. Inv => NumbersUnique
  <2> SUFFICES ASSUME Inv
               PROVE  NumbersUnique
    OBVIOUS
  <2>1. /\ TD_LIST \in Seq(Task) /\ TASK_ID \in [Task -> Nat] /\ TASK_NUMBER \in Nat \ {0}
        /\ NumbersOK(TD_LIST, TASK_ID, TASK_NUMBER, INSERT_TD_PTR)
    BY DEF Inv, TypeOK
  <2>2. {TASK_ID[t] : t \in Elems(TD_LIST)} \cap (1 .. TASK_NUMBER) = 1 .. (TASK_NUMBER - 1)
    BY <2>1, NumbersFit
  <2> QED
    BY <2>1, <2>2 DEF NumbersOK, NumbersUnique
<1>2. Spec => []Inv
  BY Invariance
<1> QED
  BY <1>1, <1>2, PTL
=============================================================================
