--------------------------- MODULE MqxLwmsgq_proof ---------------------------
(***************************************************************************)
(* The lightweight message queue, for any number of tasks, priorities,       *)
(* messages and slots: the kernel stays consistent, nobody is left waiting,  *)
(* and the queue is a bounded first-in-first-out channel.                    *)
(*                                                                           *)
(* A sender that finds the queue full a second time waits with STATE READY,  *)
(* so the kernel's own invariant does not hold here.  It does hold of the    *)
(* kernel in which the waiting senders have the STATE they should have.  The *)
(* proof follows the two kernels side by side: no operator of MqxKernel that *)
(* lwmsgq.c calls looks at the STATE of a waiting sender.                    *)
(***************************************************************************)
EXTENDS MqxLwmsgq, MqxKernel_proof

\* Releasing waiters does not look at INFO.
LEMMA InfoRelease ==
    ASSUME NEW c \in Kernel, NEW I, NEW o \in Queue
    PROVE  ReleaseAll([c EXCEPT !.INFO = I], o) = [ReleaseAll(c, o) EXCEPT !.INFO = I]
<1> DEFINE j == [c EXCEPT !.INFO = I]
           s == c.QUEUE[o]
           W == [c.QUEUE EXCEPT ![o] = <<>>]
           tq == Keep(c.TIMEOUT_QUEUE, Task \ Elems(s))
           O == c.ON_TIMEOUT_Q \ Elems(s)
           f == [t \in Task |-> IF t \in Elems(s) THEN 0 ELSE c.TIMEOUT[t]]
           i == [c EXCEPT !.QUEUE = W, !.TIMEOUT_QUEUE = tq, !.ON_TIMEOUT_Q = O, !.TIMEOUT = f]
           l == [j EXCEPT !.QUEUE = W, !.TIMEOUT_QUEUE = tq, !.ON_TIMEOUT_Q = O, !.TIMEOUT = f]
<1>1. /\ j.QUEUE = c.QUEUE /\ j.TIMEOUT_QUEUE = c.TIMEOUT_QUEUE
      /\ j.ON_TIMEOUT_Q = c.ON_TIMEOUT_Q /\ j.TIMEOUT = c.TIMEOUT
  BY DEF Kernel
<1>2. ReleaseAll(c, o) = ReadyAll(i, s)
  BY DEF ReleaseAll
<1>3. ReleaseAll(j, o) = ReadyAll(l, s)
  <2> HIDE DEF j
  <2> QED
    BY <1>1 DEF ReleaseAll
<1>4. /\ l.MY_QUEUE = i.MY_QUEUE /\ l.READY_Q = i.READY_Q /\ l.TD_STATE = i.TD_STATE
      /\ l.CURRENT_READY_Q = i.CURRENT_READY_Q
      /\ l.CURRENT_TIME_SLICE = i.CURRENT_TIME_SLICE
  <2> HIDE DEF W, tq, O, f
  <2> QED
    BY DEF Kernel
<1> DEFINE h == Highest(i.CURRENT_READY_Q, i.MY_QUEUE, s)
           E == ReadyStates(i.TD_STATE, Elems(s))
           R == [p \in Priority |->
                    i.READY_Q[p] \o Keep(s, {t \in Task : i.MY_QUEUE[t] = p})]
           C == [t \in Task |-> IF t \in Elems(s) THEN 0 ELSE i.CURRENT_TIME_SLICE[t]]
<1> HIDE DEF i, l
<1>5. ReadyAll(i, s) = [i EXCEPT !.CURRENT_READY_Q = h, !.TD_STATE = E, !.READY_Q = R,
                                 !.CURRENT_TIME_SLICE = C]
  BY DEF ReadyAll, ReadyStates, Highest
<1>6. ReadyAll(l, s) = [l EXCEPT !.CURRENT_READY_Q = h, !.TD_STATE = E, !.READY_Q = R,
                                 !.CURRENT_TIME_SLICE = C]
  BY <1>4 DEF ReadyAll, ReadyStates, Highest
<1> HIDE DEF W, tq, O, f, h, E, R, C
<1>7. [l EXCEPT !.CURRENT_READY_Q = h, !.TD_STATE = E, !.READY_Q = R,
                !.CURRENT_TIME_SLICE = C]
        = [[i EXCEPT !.CURRENT_READY_Q = h, !.TD_STATE = E, !.READY_Q = R,
                     !.CURRENT_TIME_SLICE = C] EXCEPT !.INFO = I]
  BY DEF Kernel, i, l
<1> QED
  BY <1>2, <1>3, <1>5, <1>6, <1>7

\* The two queues are queues.
LEMMA Queues ==
    /\ WAITING_READERS \in Queue /\ WAITING_WRITERS \in Queue
    /\ WAITING_READERS # WAITING_WRITERS
    /\ WAITING_READERS # NULL /\ WAITING_WRITERS # NULL
    /\ NULL \in Info /\ LWMSGQ_DEINIT_INFO \in Info /\ LWMSGQ_DEINIT_INFO # NULL
    /\ WAITING_READERS \in Info /\ WAITING_WRITERS \in Info
BY LwmsgqAssumption, KernelAssumption DEF Info

\* The tasks on the two queues.
Writers(c) == Elems(c.QUEUE[WAITING_WRITERS])
Readers(c) == Elems(c.QUEUE[WAITING_READERS])

\* All waiters released by _lwmsgq_deinit in v.
AllReleased(c, v) ==
    /\ v.TD_STATE = ReadyStates(ReadyStates(c.TD_STATE, Writers(c)), Readers(c))
    /\ v.ON_TIMEOUT_Q = (c.ON_TIMEOUT_Q \ Writers(c)) \ Readers(c)
    /\ v.QUEUE[WAITING_WRITERS] = <<>> /\ v.QUEUE[WAITING_READERS] = <<>>

\* _lwmsgq_deinit, before it calls the scheduler: INFO of the waiters is overwritten while
\* they are still on the queues.
LEMMA DeinitWait ==
    ASSUME NEW c, Unscheduled(c), NEW D, k = Restate(c, D)
    PROVE  \E v : /\ Unscheduled(v) /\ AllReleased(c, v)
                  /\ Deinit = Restate(v, ReadyStates(ReadyStates(D, Writers(c)), Readers(c)))
<1> DEFINE I == [t \in Task |-> IF t \in Writers(c) \cup Readers(c) THEN LWMSGQ_DEINIT_INFO
                                ELSE c.INFO[t]]
           d == [c EXCEPT !.INFO = I]
           E == ReadyStates(D, Writers(c))
           F == ReadyStates(E, Readers(c))
           w == ReleaseAll(c, WAITING_WRITERS)
           r == ReleaseAll(w, WAITING_READERS)
           v == [r EXCEPT !.INFO = I]
<1>1. /\ c \in Kernel /\ c.INFO \in [Task -> Info] /\ c.QUEUE \in [Queue -> Seq(Task)]
      /\ WaitInv(c) /\ c.TD_STATE \in [Task -> State]
  BY KernelFields DEF Unscheduled, KInv
<1>2. I \in [Task -> Info] /\ \A t \in Task : t \notin Writers(c) \cup Readers(c) => I[t] = c.INFO[t]
  BY <1>1, Queues
<1>3. /\ Unscheduled(w) /\ Readied(c, w, Writers(c)) /\ w.INFO = c.INFO
      /\ w.QUEUE = [c.QUEUE EXCEPT ![WAITING_WRITERS] = <<>>]
  BY Queues, ReleaseAllWait DEF Writers
<1> HIDE DEF w
<1>4. Readers(w) = Readers(c) /\ w \in Kernel /\ w.QUEUE[WAITING_READERS] = c.QUEUE[WAITING_READERS]
  BY <1>1, <1>3, Queues DEF Readers, Unscheduled, KInv
<1>5. /\ Unscheduled(r) /\ Readied(w, r, Readers(c)) /\ r.INFO = c.INFO
      /\ r.QUEUE = [w.QUEUE EXCEPT ![WAITING_READERS] = <<>>]
  BY <1>3, <1>4, Queues, ReleaseAllWait DEF Readers
<1> HIDE DEF r
<1>6. /\ r \in Kernel /\ KInv(r, {}) /\ WaitInv(r) /\ IsReady(r, r.ACTIVE_PTR)
      /\ r.ACTIVE_PTR \in Task /\ w.QUEUE \in [Queue -> Seq(Task)]
  BY <1>4, <1>5, KernelFields DEF Unscheduled, KInv
<1>7. ReleaseAll(ReleaseAll(d, WAITING_WRITERS), WAITING_READERS) = v
  <2>1. ReleaseAll(d, WAITING_WRITERS) = [w EXCEPT !.INFO = I]
    BY <1>1, Queues, InfoRelease DEF w
  <2>2. ReleaseAll([w EXCEPT !.INFO = I], WAITING_READERS) = v
    BY <1>4, Queues, InfoRelease DEF r
  <2> QED
    BY <2>1, <2>2
<1>8. d \in Kernel /\ d.QUEUE = c.QUEUE
  <2> HIDE DEF I
  <2> QED
    BY <1>1, <1>2 DEF Kernel
<1>9. Deinit = ReleaseAll(ReleaseAll(Restate(d, D), WAITING_WRITERS), WAITING_READERS)
  <2>1. k.QUEUE = c.QUEUE /\ k.INFO = c.INFO
    BY <1>1, RestateFields
  <2>2. [k EXCEPT !.INFO = I] = Restate(d, D)
    <3> HIDE DEF I
    <3> QED
      BY <1>1 DEF Restate, Kernel
  <2>3. [t \in Task |-> IF t \in Elems(k.QUEUE[WAITING_WRITERS]) \cup Elems(k.QUEUE[WAITING_READERS])
                        THEN LWMSGQ_DEINIT_INFO ELSE k.INFO[t]] = I
    BY <2>1 DEF Writers, Readers
  <2>4. Deinit = ReleaseAll(ReleaseAll([k EXCEPT !.INFO = I], WAITING_WRITERS), WAITING_READERS)
    <3> HIDE DEF I
    <3> QED
      BY <2>3 DEF Deinit
  <2> QED
    BY <2>2, <2>4
<1>10. Deinit = Restate(v, F)
  <2> DEFINE x == ReleaseAll(d, WAITING_WRITERS)
  <2>1. ReleaseAll(Restate(d, D), WAITING_WRITERS) = Restate(x, E)
    BY <1>8, Queues, RestateRelease DEF Writers
  <2>2. x = [w EXCEPT !.INFO = I]
    BY <1>1, Queues, InfoRelease DEF w
  <2>3. x \in Kernel /\ x.QUEUE[WAITING_READERS] = c.QUEUE[WAITING_READERS]
    <3> HIDE DEF I, x
    <3> QED
      BY <1>2, <1>4, <2>2 DEF Kernel
  <2>4. ReleaseAll(Restate(x, E), WAITING_READERS) = Restate(ReleaseAll(x, WAITING_READERS), F)
    <3> HIDE DEF x, E
    <3> QED
      BY <2>3, Queues, RestateRelease DEF Readers
  <2> QED
    BY <1>7, <1>9, <2>1, <2>4
<1>11. AllReleased(c, v)
  <2>1. v.TD_STATE = r.TD_STATE /\ v.ON_TIMEOUT_Q = r.ON_TIMEOUT_Q /\ v.QUEUE = r.QUEUE
    <3> HIDE DEF I
    <3> QED
      BY <1>6 DEF Kernel
  <2>2. r.QUEUE[WAITING_WRITERS] = <<>> /\ r.QUEUE[WAITING_READERS] = <<>>
    BY <1>1, <1>3, <1>5, <1>6, Queues
  <2> QED
    BY <1>3, <1>5, <2>1, <2>2 DEF AllReleased, Readied, ReadyStates
<1>12. Unscheduled(v)
  <2>1. /\ v \in Kernel /\ v.TD_STATE = r.TD_STATE /\ v.ON_TIMEOUT_Q = r.ON_TIMEOUT_Q
        /\ v.QUEUE = r.QUEUE /\ v.INFO = I /\ v.ACTIVE_PTR = r.ACTIVE_PTR
        /\ v.READY_Q = r.READY_Q /\ v.CURRENT_READY_Q = r.CURRENT_READY_Q
        /\ v.MY_QUEUE = r.MY_QUEUE /\ v.TIMEOUT_QUEUE = r.TIMEOUT_QUEUE
        /\ v.TIMEOUT = r.TIMEOUT
    <3> HIDE DEF I
    <3> QED
      BY <1>2, <1>6 DEF Kernel
  <2> HIDE DEF v, I
  <2>2. KInv(v, {}) /\ IsReady(v, v.ACTIVE_PTR)
    <3>1. KInv(v, {})
      BY <1>6, <2>1, Frame
    <3> QED
      BY <1>6, <2>1, <3>1 DEF IsReady
  <2>3. \A t \in Task : v.TD_STATE[t] \in WaitStates =>
           v.INFO[t] = r.INFO[t]
    <3>1. ASSUME NEW t \in Task, t \in Writers(c) \cup Readers(c)
          PROVE  v.TD_STATE[t] = "READY"
      BY <1>11, <3>1 DEF AllReleased, ReadyStates
    <3> QED
      BY <1>2, <1>5, <2>1, <3>1, States
  <2>4. WaitInv(v)
    <3>1. WaitQueuesOK(v, {})
      BY <1>6, <2>1, <2>3 DEF WaitInv, WaitQueuesOK, WaitStates
    <3> QED
      BY <1>6, <2>1, <3>1 DEF WaitInv
  <2> QED
    BY <2>2, <2>4 DEF Unscheduled
<1> QED
  BY <1>10, <1>11, <1>12

(***************************************************************************)
(* The inductive invariant.                                                 *)
(***************************************************************************)
\* j is c but for the STATE of the waiting senders, which in j may still be READY.
Shadow(j, c) ==
    /\ c \in Kernel /\ j.TD_STATE \in [Task -> State] /\ j = Restate(c, j.TD_STATE)
    /\ \A t \in Task :
          /\ t \in Writers(c) => /\ c.TD_STATE[t] = "LWMSGQ_WRITE_BLOCKED"
                                 /\ j.TD_STATE[t] \in {"READY", "LWMSGQ_WRITE_BLOCKED"}
          /\ t \notin Writers(c) => j.TD_STATE[t] = c.TD_STATE[t]

\* The calls d under way and the kernel agree on who waits: exactly the tasks in a call
\* that are not ready.  A sender has no timeout.
CallFits(c, d, t) ==
    /\ d[t].at = "none" => d[t] = NoCall
    /\ d[t].at # "none" => t # Idle
    /\ d[t].at = "send" <=> d[t].msg # NULL
    /\ d[t].at = "send" => t \notin c.ON_TIMEOUT_Q
    /\ t \in Readers(c) <=> d[t].at = "receive" /\ ~IsReady(c, t)
    /\ t \in Writers(c) <=> d[t].at = "send" /\ ~IsReady(c, t)

Fits(c, d) == \A t \in Task : CallFits(c, d, t)

\* NobodyLeftWaiting of a kernel and calls, with n messages and m free slots.
Told(c, d, at) == {t \in Task : d[t].at = at /\ c.INFO[t] = NULL}

NoneLeft(c, d, n, m) ==
    /\ c.QUEUE[WAITING_READERS] # <<>> => n <= Cardinality(Told(c, d, "receive"))
    /\ c.QUEUE[WAITING_WRITERS] # <<>> => m <= Cardinality(Told(c, d, "send"))

\* The messages lie between the two locations.
RingOK(r) ==
    /\ r \in LwmsgqStruct
    /\ r.MSG_WRITE_LOC = (r.MSG_READ_LOC + r.CURRENT_SIZE) % MAX_SIZE

Inv ==
    /\ Shadow(k, Corrected) /\ Consistent(Corrected)
    /\ call \in [Task -> Calls] /\ Fits(Corrected, call)
    /\ NoneLeft(Corrected, call, q.CURRENT_SIZE, MAX_SIZE - q.CURRENT_SIZE)
    /\ RingOK(q) /\ LWMSGQS \in BOOLEAN /\ got \in [Task -> Msg \cup {NULL}]
    /\ inits \in Nat

\* The kernel that j is a shadow of is the corrected one.
LEMMA ShadowIs ==
    ASSUME NEW j, NEW c, Shadow(j, c)
    PROVE  /\ [j EXCEPT !.TD_STATE = [t \in Task |->
                 IF t \in Elems(j.QUEUE[WAITING_WRITERS]) THEN "LWMSGQ_WRITE_BLOCKED"
                 ELSE @[t]]] = c
           /\ j \in Kernel /\ j.ACTIVE_PTR = c.ACTIVE_PTR /\ j.QUEUE = c.QUEUE
           /\ j.INFO = c.INFO /\ j.ON_TIMEOUT_Q = c.ON_TIMEOUT_Q
<1> DEFINE D == j.TD_STATE
           E == [t \in Task |-> IF t \in Elems(j.QUEUE[WAITING_WRITERS])
                                THEN "LWMSGQ_WRITE_BLOCKED" ELSE D[t]]
<1>1. c \in Kernel /\ D \in [Task -> State] /\ j = Restate(c, D)
  BY DEF Shadow
<1>2. c.TD_STATE \in [Task -> State]
  BY <1>1, KernelFields
<1>3. /\ j \in Kernel /\ j.ACTIVE_PTR = c.ACTIVE_PTR /\ j.QUEUE = c.QUEUE
      /\ j.INFO = c.INFO /\ j.ON_TIMEOUT_Q = c.ON_TIMEOUT_Q
      /\ Restate(Restate(c, D), c.TD_STATE) = c
  BY <1>1, RestateFields
<1>4. E = c.TD_STATE
  BY <1>2, <1>3 DEF Shadow, Writers
<1>5. [j EXCEPT !.TD_STATE = E] = c
  BY <1>1, <1>3, <1>4 DEF Restate
<1> QED
  BY <1>3, <1>5

\* What there is to show of the kernel after a step: v is the corrected one.
LEMMA StepInv ==
    ASSUME NEW v, Shadow(k', v), Consistent(v), call' \in [Task -> Calls], Fits(v, call'),
           NoneLeft(v, call', q'.CURRENT_SIZE, MAX_SIZE - q'.CURRENT_SIZE),
           RingOK(q'), LWMSGQS' \in BOOLEAN,
           got' \in [Task -> Msg \cup {NULL}], inits' \in Nat
    PROVE  Inv'
<1>1. Corrected' = v
  BY ShadowIs DEF Corrected
<1> QED
  BY <1>1 DEF Inv

\* Where the invariant leaves the active task.
LEMMA Facts ==
    ASSUME Inv
    PROVE  \E c, D :
              /\ c = Corrected /\ D = k.TD_STATE /\ k = Restate(c, D)
              /\ D \in [Task -> State] /\ Shadow(k, c)
              /\ Unscheduled(c) /\ Consistent(c) /\ c \in Kernel /\ Fits(c, call)
              /\ NoneLeft(c, call, q.CURRENT_SIZE, MAX_SIZE - q.CURRENT_SIZE)
              /\ k.ACTIVE_PTR = c.ACTIVE_PTR /\ k.QUEUE = c.QUEUE /\ k.INFO = c.INFO
              /\ k.ON_TIMEOUT_Q = c.ON_TIMEOUT_Q
              /\ c.QUEUE \in [Queue -> Seq(Task)] /\ c.INFO \in [Task -> Info]
              /\ c.TD_STATE \in [Task -> State] /\ c.ON_TIMEOUT_Q \in SUBSET Task
<1> DEFINE c == Corrected
           D == k.TD_STATE
<1>1. /\ Shadow(k, c) /\ Consistent(c) /\ Fits(c, call)
      /\ NoneLeft(c, call, q.CURRENT_SIZE, MAX_SIZE - q.CURRENT_SIZE)
  BY DEF Inv
<1> HIDE DEF c
<1>2. c \in Kernel /\ D \in [Task -> State] /\ k = Restate(c, D)
  BY <1>1 DEF Shadow
<1>3. /\ k.ACTIVE_PTR = c.ACTIVE_PTR /\ k.QUEUE = c.QUEUE /\ k.INFO = c.INFO
      /\ k.ON_TIMEOUT_Q = c.ON_TIMEOUT_Q
  BY <1>1, ShadowIs
<1>4. Unscheduled(c)
  BY <1>1 DEF Consistent, Unscheduled, RunningOK
<1>5. /\ c.QUEUE \in [Queue -> Seq(Task)] /\ c.INFO \in [Task -> Info]
      /\ c.TD_STATE \in [Task -> State] /\ c.ON_TIMEOUT_Q \in SUBSET Task
  BY <1>2, KernelFields
<1> QED
  BY <1>1, <1>2, <1>3, <1>4, <1>5 DEF c

(***************************************************************************)
(* Changes of the kernel c, with its shadow j and the calls d.               *)
(***************************************************************************)
\* The active task waits for nothing.
LEMMA Active ==
    ASSUME NEW j, NEW c, NEW d, Shadow(j, c), Unscheduled(c), Fits(c, d),
           NEW a, a = c.ACTIVE_PTR
    PROVE  /\ a \in Task /\ IsReady(c, a) /\ c.TD_STATE[a] = "READY" /\ a \notin c.ON_TIMEOUT_Q
           /\ a \notin Writers(c) /\ a \notin Readers(c) /\ j.TD_STATE[a] = "READY"
           /\ d[a].at # "none" => a # Idle
<1>1. a \in Task /\ IsReady(c, a)
  BY KernelFields DEF Unscheduled, KInv
<1>2. CallFits(c, d, a)
  BY <1>1 DEF Fits
<1> QED
  BY <1>1, <1>2 DEF CallFits, IsReady, Shadow

\* How to recognise a shadow.
LEMMA MakeShadow ==
    ASSUME NEW v \in Kernel, NEW E \in [Task -> State],
           \A t \in Task :
              /\ t \in Writers(v) => /\ v.TD_STATE[t] = "LWMSGQ_WRITE_BLOCKED"
                                     /\ E[t] \in {"READY", "LWMSGQ_WRITE_BLOCKED"}
              /\ t \notin Writers(v) => E[t] = v.TD_STATE[t]
    PROVE  Shadow(Restate(v, E), v)
<1> DEFINE j == Restate(v, E)
<1>1. j.TD_STATE = E
  BY RestateFields
<1> HIDE DEF j
<1> QED
  BY <1>1 DEF Shadow, j

\* Counting the tasks that were told.
LEMMA ToldCount ==
    ASSUME NEW X \in SUBSET Task, NEW Y \in SUBSET Task
    PROVE  /\ Cardinality(X) \in Nat /\ Cardinality(Y) \in Nat
           /\ X \subseteq Y => Cardinality(X) <= Cardinality(Y)
           /\ \A t : X \ {t} \subseteq Y => Cardinality(X) - 1 <= Cardinality(Y)
           /\ \A t : t \in Y \ X /\ X \subseteq Y => Cardinality(X) + 1 <= Cardinality(Y)
<1>1. IsFiniteSet(X) /\ IsFiniteSet(Y)
  BY KernelAssumption, FS_Subset
<1>2. \A A, B \in SUBSET Task : A \subseteq B => Cardinality(A) <= Cardinality(B)
  <2> SUFFICES ASSUME NEW A \in SUBSET Task, NEW B \in SUBSET Task, A \subseteq B
               PROVE  Cardinality(A) <= Cardinality(B)
    OBVIOUS
  <2>1. IsFiniteSet(B)
    BY KernelAssumption, FS_Subset
  <2> QED
    BY <2>1, FS_Subset
<1>3. Cardinality(X) \in Nat /\ Cardinality(Y) \in Nat
  BY <1>1, FS_CardinalityType
<1>4. ASSUME NEW t, X \ {t} \subseteq Y
      PROVE  Cardinality(X) - 1 <= Cardinality(Y)
  <2>1. CASE t \in X
    <3>1. Cardinality(X \ {t}) = Cardinality(X) - 1
      BY <1>1, <2>1, FS_RemoveElement
    <3> QED
      BY <1>2, <1>4, <3>1
  <2>2. CASE t \notin X
    <3>1. X \subseteq Y
      BY <1>4, <2>2
    <3> QED
      BY <1>2, <1>3, <3>1
  <2> QED
    BY <2>1, <2>2
<1>5. ASSUME NEW t, t \in Y \ X, X \subseteq Y
      PROVE  Cardinality(X) + 1 <= Cardinality(Y)
  <2>1. Cardinality(X \cup {t}) = Cardinality(X) + 1
    BY <1>1, <1>5, FS_AddElement
  <2>2. X \cup {t} \in SUBSET Task /\ X \cup {t} \subseteq Y
    BY <1>5
  <2> QED
    BY <1>2, <2>1, <2>2
<1> QED
  BY <1>2, <1>3, <1>4, <1>5

\* The calls of the other tasks are left alone; that of a task which is ready is over.
LEMMA LeaveFits ==
    ASSUME NEW c, NEW d \in [Task -> Calls], Fits(c, d), NEW a \in Task, IsReady(c, a),
           NEW n \in Int, NEW m \in Int, NoneLeft(c, d, n, m)
    PROVE  LET e == [d EXCEPT ![a] = NoCall]
           IN  /\ e \in [Task -> Calls] /\ Fits(c, e) /\ e[a] = NoCall /\ e[a].at = "none"
               /\ d[a].at # "send" => NoneLeft(c, e, n - 1, m)
               /\ d[a].at # "receive" => NoneLeft(c, e, n, m - 1)
               /\ d[a].at \in {"none", "init"} \/ c.INFO[a] # NULL => NoneLeft(c, e, n, m)
<1> DEFINE e == [d EXCEPT ![a] = NoCall]
<1>1. /\ e \in [Task -> Calls] /\ e[a] = NoCall /\ \A t \in Task \ {a} : e[t] = d[t]
      /\ NoCall.at = "none" /\ NoCall.msg = NULL
  <2>1. NoCall \in Calls /\ NoCall.at = "none" /\ NoCall.msg = NULL
    BY LwmsgqAssumption DEF NoCall, Calls
  <2> QED
    BY <2>1
<1> HIDE DEF e
<1>2. Fits(c, e)
  <2> SUFFICES ASSUME NEW t \in Task
               PROVE  CallFits(c, e, t)
    BY DEF Fits
  <2>1. CallFits(c, d, t)
    BY DEF Fits
  <2>2. CASE t = a
    BY <1>1, <2>1, <2>2 DEF CallFits
  <2>3. CASE t # a
    BY <1>1, <2>1, <2>3 DEF CallFits
  <2> QED
    BY <2>2, <2>3
<1> DEFINE R == Told(c, d, "receive")
           S == Told(c, d, "send")
           R2 == Told(c, e, "receive")
           S2 == Told(c, e, "send")
<1>3. /\ R \in SUBSET Task /\ S \in SUBSET Task /\ R2 \in SUBSET Task /\ S2 \in SUBSET Task
      /\ R \ {a} \subseteq R2 /\ S \ {a} \subseteq S2
      /\ d[a].at # "send" => S \subseteq S2
      /\ d[a].at # "receive" => R \subseteq R2
      /\ c.INFO[a] # NULL => S \subseteq S2 /\ R \subseteq R2
  BY <1>1 DEF Told
<1> HIDE DEF R, S, R2, S2
<1>4. /\ Cardinality(R) \in Nat /\ Cardinality(S) \in Nat
      /\ Cardinality(R2) \in Nat /\ Cardinality(S2) \in Nat
      /\ Cardinality(R) - 1 <= Cardinality(R2) /\ Cardinality(S) - 1 <= Cardinality(S2)
      /\ S \subseteq S2 => Cardinality(S) <= Cardinality(S2)
      /\ R \subseteq R2 => Cardinality(R) <= Cardinality(R2)
  BY <1>3, ToldCount
<1>5. /\ d[a].at # "send" => NoneLeft(c, e, n - 1, m)
      /\ d[a].at # "receive" => NoneLeft(c, e, n, m - 1)
      /\ d[a].at \in {"none", "init"} \/ c.INFO[a] # NULL => NoneLeft(c, e, n, m)
  BY <1>3, <1>4 DEF NoneLeft, R, S, R2, S2
<1> QED
  BY <1>1, <1>2, <1>5 DEF e

\* v's task descriptors, wait queues and INFO words are those of c, but for the states
\* of tasks that are in no send or receive.
Undisturbed(c, v, d) ==
    /\ v.QUEUE = c.QUEUE /\ v.INFO = c.INFO
    /\ \A t \in Task : d[t].at \in {"send", "receive"} =>
          (IsReady(v, t) <=> IsReady(c, t)) /\ (t \in v.ON_TIMEOUT_Q => t \in c.ON_TIMEOUT_Q)

\* The waiters are the same, and as many have been told.
LEMMA UndisturbedFits ==
    ASSUME NEW c, NEW v, NEW d, Fits(c, d), Undisturbed(c, v, d)
    PROVE  /\ Fits(v, d) /\ Writers(v) = Writers(c)
           /\ \A n, m : NoneLeft(c, d, n, m) => NoneLeft(v, d, n, m)
<1>1. Writers(v) = Writers(c) /\ Readers(v) = Readers(c)
  BY DEF Undisturbed, Writers, Readers
<1>2. ASSUME NEW t \in Task
      PROVE  CallFits(v, d, t)
  <2>1. CallFits(c, d, t)
    BY DEF Fits
  <2> QED
    BY <1>1, <2>1 DEF CallFits, Undisturbed
<1>3. \A at : Told(v, d, at) = Told(c, d, at)
  BY DEF Told, Undisturbed
<1>4. \A n, m : NoneLeft(c, d, n, m) => NoneLeft(v, d, n, m)
  BY <1>3 DEF NoneLeft, Undisturbed
<1> QED
  BY <1>1, <1>2, <1>4 DEF Fits

\* The scheduler called at the end of a call, and the end of an interrupt.
LEMMA ScheduleFits ==
    ASSUME NEW j, NEW c, NEW d, Shadow(j, c), Unscheduled(c), Fits(c, d),
           NEW x, NEW v, \/ x = CHECK_RUN_SCHEDULER(j) /\ v = CHECK_RUN_SCHEDULER(c)
                         \/ x = IsrReturn(j) /\ v = IsrReturn(c)
    PROVE  /\ Shadow(x, v) /\ Consistent(v) /\ Fits(v, d)
           /\ \A n, m : NoneLeft(c, d, n, m) => NoneLeft(v, d, n, m)
<1>1. Consistent(v) /\ OnlySwitched(c, v) /\ v \in Kernel
  BY CheckRunWait, IsrReturnWait DEF Consistent, KInv
<1>2. PICK D : D = j.TD_STATE /\ D \in [Task -> State] /\ j = Restate(c, D) /\ c \in Kernel
  BY DEF Shadow
<1>3. x = Restate(v, D)
  BY <1>2, RestateSchedule
<1>4. Undisturbed(c, v, d)
  BY <1>1 DEF Undisturbed, OnlySwitched, IsReady
<1>5. /\ Fits(v, d) /\ Writers(v) = Writers(c)
      /\ \A n, m : NoneLeft(c, d, n, m) => NoneLeft(v, d, n, m)
  BY <1>4, UndisturbedFits
<1>6. Shadow(x, v)
  <2>1. v.TD_STATE = c.TD_STATE
    BY <1>1 DEF OnlySwitched
  <2>2. \A t \in Task :
           /\ t \in Writers(v) => /\ v.TD_STATE[t] = "LWMSGQ_WRITE_BLOCKED"
                                  /\ D[t] \in {"READY", "LWMSGQ_WRITE_BLOCKED"}
           /\ t \notin Writers(v) => D[t] = v.TD_STATE[t]
    BY <1>2, <1>5, <2>1 DEF Shadow
  <2> QED
    BY <1>1, <1>2, <1>3, <2>2, MakeShadow
<1> QED
  BY <1>1, <1>5, <1>6

\* _task_block by a task that is in no send or receive.
LEMMA BlockFits ==
    ASSUME NEW j, NEW c, NEW d, Shadow(j, c), Unscheduled(c), Fits(c, d),
           c.ACTIVE_PTR # Idle, d[c.ACTIVE_PTR].at = "none"
    PROVE  LET v == TaskBlock(c)
           IN  /\ Shadow(TaskBlock(j), v) /\ Consistent(v) /\ Fits(v, d)
               /\ \A n, m : NoneLeft(c, d, n, m) => NoneLeft(v, d, n, m)
<1>1. PICK a \in Task : a = c.ACTIVE_PTR
  BY Active
<1>2. a \notin Writers(c) /\ j.TD_STATE[a] = "READY"
  BY <1>1, Active
<1>3. PICK D : D = j.TD_STATE /\ D \in [Task -> State] /\ j = Restate(c, D) /\ c \in Kernel
  BY DEF Shadow
<1>4. PICK v : v = TaskBlock(c)
  OBVIOUS
<1> DEFINE E == [D EXCEPT ![a] = "BLOCKED"]
<1>5. /\ Consistent(v) /\ TaskBlock(j) = Restate(v, E)
      /\ v.TD_STATE = [c.TD_STATE EXCEPT ![a] = "BLOCKED"]
      /\ v.QUEUE = c.QUEUE /\ v.INFO = c.INFO /\ v.ON_TIMEOUT_Q = c.ON_TIMEOUT_Q
  BY <1>1, <1>2, <1>3, <1>4, RestateBlock
<1>6. c.TD_STATE \in [Task -> State] /\ v \in Kernel
  BY <1>3, <1>5, KernelFields DEF Consistent, KInv
<1>7. \A t \in Task \ {a} : v.TD_STATE[t] = c.TD_STATE[t]
  BY <1>5, <1>6
<1>8. Undisturbed(c, v, d)
  BY <1>1, <1>5, <1>7 DEF Undisturbed, IsReady
<1>9. /\ Fits(v, d) /\ Writers(v) = Writers(c)
      /\ \A n, m : NoneLeft(c, d, n, m) => NoneLeft(v, d, n, m)
  BY <1>8, UndisturbedFits
<1>10. /\ E \in [Task -> State] /\ E[a] = "BLOCKED" /\ v.TD_STATE[a] = "BLOCKED"
       /\ \A t \in Task \ {a} : E[t] = D[t]
  BY <1>3, <1>5, <1>6, States
<1> HIDE DEF E
<1>11. Shadow(Restate(v, E), v)
  <2> SUFFICES ASSUME NEW t \in Task
               PROVE  /\ t \in Writers(v) => /\ v.TD_STATE[t] = "LWMSGQ_WRITE_BLOCKED"
                                             /\ E[t] \in {"READY", "LWMSGQ_WRITE_BLOCKED"}
                      /\ t \notin Writers(v) => E[t] = v.TD_STATE[t]
    BY <1>6, <1>10, MakeShadow
  <2>1. CASE t = a
    BY <1>2, <1>9, <1>10, <2>1
  <2>2. CASE t # a
    BY <1>3, <1>7, <1>9, <1>10, <2>2 DEF Shadow
  <2> QED
    BY <2>1, <2>2
<1> QED
  BY <1>4, <1>5, <1>9, <1>11

\* The first waiter told that there is a message or room.
LEMMA WakeFits ==
    ASSUME NEW j, NEW c, NEW d, Shadow(j, c), Unscheduled(c), Fits(c, d),
           NEW o \in {WAITING_READERS, WAITING_WRITERS}, c.QUEUE[o] # <<>>
    PROVE  LET v == HandedOver(c, o, NULL)
               t == Head(c.QUEUE[o])
           IN  /\ Shadow(HandedOver(j, o, NULL), v) /\ Unscheduled(v) /\ Fits(v, d)
               /\ v.ACTIVE_PTR = c.ACTIVE_PTR
               /\ o = WAITING_WRITERS =>
                     TASK_READY([j EXCEPT !.QUEUE[o] = Tail(@), !.INFO[t] = NULL], t)
                        = HandedOver(j, o, NULL)
               /\ \A n, m \in Int : NoneLeft(c, d, n, m) =>
                     NoneLeft(v, d, IF o = WAITING_READERS THEN n + 1 ELSE n,
                                    IF o = WAITING_READERS THEN m ELSE m + 1)
<1> DEFINE at == IF o = WAITING_READERS THEN "receive" ELSE "send"
<1>1. o \in Queue /\ NULL \in Info /\ NULL # o /\ WAITING_READERS # WAITING_WRITERS
      /\ WAITING_READERS \in Queue /\ WAITING_WRITERS \in Queue
  BY Queues
<1>2. PICK D : D = j.TD_STATE /\ D \in [Task -> State] /\ j = Restate(c, D) /\ c \in Kernel
  BY DEF Shadow
<1>3. /\ c.QUEUE \in [Queue -> Seq(Task)] /\ c.QUEUE[o] \in Seq(Task) /\ WaitInv(c)
      /\ c.TD_STATE \in [Task -> State] /\ c.INFO \in [Task -> Info]
  BY <1>1, <1>2, KernelFields DEF Unscheduled
<1>4. PICK t \in Task : t = Head(c.QUEUE[o]) /\ t \in Elems(c.QUEUE[o])
  BY <1>3, EmptyQueue
<1>5. CallFits(c, d, t) /\ d[t].at = at
  BY <1>1, <1>4 DEF Fits, CallFits, Readers, Writers
<1>6. t \notin c.ON_TIMEOUT_Q \/ D[t] # "READY"
  <2>1. CASE o = WAITING_WRITERS
    BY <1>1, <1>5, <2>1 DEF CallFits
  <2>2. CASE o = WAITING_READERS
    <3>1. t \notin Writers(c)
      BY <1>5, <2>2 DEF CallFits
    <3>2. c.TD_STATE[t] # "READY"
      BY <1>1, <1>3, <1>4, States DEF WaitInv, WaitQueuesOK, WaitStates
    <3> QED
      BY <1>2, <3>1, <3>2 DEF Shadow
  <2> QED
    BY <2>1, <2>2
<1>7. PICK v : v = HandedOver(c, o, NULL)
  OBVIOUS
<1> DEFINE E == ReadyStates(D, {t})
<1>8. /\ HandedOver(j, o, NULL) = Restate(v, E)
      /\ o = WAITING_WRITERS =>
            TASK_READY([j EXCEPT !.QUEUE[o] = Tail(@), !.INFO[t] = NULL], t)
               = HandedOver(j, o, NULL)
  <2>1. HandedOver(j, o, NULL) = Restate(v, E)
    BY <1>1, <1>2, <1>4, <1>6, <1>7, RestateHandOver
  <2>2. o = WAITING_WRITERS => t \notin c.ON_TIMEOUT_Q
    BY <1>1, <1>5 DEF CallFits
  <2>3. j \in Kernel /\ j.QUEUE = c.QUEUE /\ j.ON_TIMEOUT_Q = c.ON_TIMEOUT_Q
    BY ShadowIs
  <2> HIDE DEF E, at
  <2>4. ASSUME o = WAITING_WRITERS
        PROVE  TASK_READY([j EXCEPT !.QUEUE[o] = Tail(@), !.INFO[t] = NULL], t)
                  = HandedOver(j, o, NULL)
    <3>1. j \in Kernel /\ o \in Queue /\ t = Head(j.QUEUE[o]) /\ t \notin j.ON_TIMEOUT_Q
      BY <1>1, <1>4, <2>2, <2>3, <2>4
    <3> QED
      BY <3>1, UntimedHandOver
  <2> QED
    BY <2>1, <2>4
<1>9. Unscheduled(v) /\ FirstReadied(c, v, o, NULL)
  BY <1>1, <1>7, HandOverWait
<1>10. /\ v.TD_STATE = [u \in Task |-> IF u \in {t} THEN "READY" ELSE c.TD_STATE[u]]
       /\ v.ON_TIMEOUT_Q = c.ON_TIMEOUT_Q \ {t} /\ v.ACTIVE_PTR = c.ACTIVE_PTR
       /\ v.QUEUE = [c.QUEUE EXCEPT ![o] = Tail(@)]
       /\ v.INFO = [c.INFO EXCEPT ![t] = NULL] /\ c.INFO[t] = o
  BY <1>4, <1>9 DEF FirstReadied, Readied
<1>11. /\ \A p \in Queue \ {o} : v.QUEUE[p] = c.QUEUE[p]
       /\ v.QUEUE[o] = Tail(c.QUEUE[o])
       /\ Elems(v.QUEUE[o]) = Elems(c.QUEUE[o]) \ {t}
  <2>1. NoDuplicates(c.QUEUE[o])
    BY <1>1, <1>3 DEF WaitInv, WaitQueuesOK
  <2>2. Elems(Tail(c.QUEUE[o])) = Elems(c.QUEUE[o]) \ {t}
    BY <1>3, <1>4, <2>1, TailElems
  <2> QED
    BY <1>1, <1>3, <1>10, <2>2
<1>12. /\ Readers(v) = Readers(c) \ {t} /\ Writers(v) = Writers(c) \ {t}
  <2>1. t \in Readers(c) => o = WAITING_READERS
    BY <1>5 DEF CallFits
  <2>2. t \in Writers(c) => o = WAITING_WRITERS
    BY <1>5 DEF CallFits
  <2>3. CASE o = WAITING_READERS
    BY <1>1, <1>11, <2>2, <2>3 DEF Readers, Writers
  <2>4. CASE o = WAITING_WRITERS
    BY <1>1, <1>11, <2>1, <2>4 DEF Readers, Writers
  <2> QED
    BY <2>3, <2>4
<1>13. \A u \in Task : IsReady(v, u) <=> u = t \/ IsReady(c, u)
  BY <1>10 DEF IsReady
<1>14. Fits(v, d)
  <2> SUFFICES ASSUME NEW u \in Task
               PROVE  CallFits(v, d, u)
    BY DEF Fits
  <2>1. CallFits(c, d, u)
    BY DEF Fits
  <2> QED
    BY <1>10, <1>12, <1>13, <2>1 DEF CallFits
<1>15. Shadow(Restate(v, E), v)
  <2>1. /\ E \in [Task -> State] /\ E[t] = "READY" /\ v.TD_STATE[t] = "READY"
        /\ \A u \in Task \ {t} : E[u] = D[u] /\ v.TD_STATE[u] = c.TD_STATE[u]
    BY <1>2, <1>10, States DEF ReadyStates
  <2> HIDE DEF E
  <2>2. v \in Kernel
    BY <1>9 DEF Unscheduled, KInv
  <2> SUFFICES ASSUME NEW u \in Task
               PROVE  /\ u \in Writers(v) => /\ v.TD_STATE[u] = "LWMSGQ_WRITE_BLOCKED"
                                             /\ E[u] \in {"READY", "LWMSGQ_WRITE_BLOCKED"}
                      /\ u \notin Writers(v) => E[u] = v.TD_STATE[u]
    BY <2>1, <2>2, MakeShadow
  <2>3. CASE u = t
    BY <1>12, <2>1, <2>3
  <2>4. CASE u # t
    BY <1>2, <1>12, <2>1, <2>4 DEF Shadow
  <2> QED
    BY <2>3, <2>4
<1>16. ASSUME NEW n \in Int, NEW m \in Int, NoneLeft(c, d, n, m)
       PROVE  NoneLeft(v, d, IF o = WAITING_READERS THEN n + 1 ELSE n,
                             IF o = WAITING_READERS THEN m ELSE m + 1)
  <2> DEFINE X(b) == Told(c, d, b)
             Y(b) == Told(v, d, b)
  <2>1. /\ \A b : X(b) \in SUBSET Task /\ Y(b) \in SUBSET Task /\ X(b) \subseteq Y(b)
        /\ t \in Y(at) \ X(at)
    BY <1>1, <1>3, <1>5, <1>10 DEF Told
  <2> HIDE DEF X, Y
  <2>2. \A b : /\ Cardinality(X(b)) \in Nat /\ Cardinality(Y(b)) \in Nat
               /\ Cardinality(X(b)) <= Cardinality(Y(b))
    BY <2>1, ToldCount
  <2>3. Cardinality(X(at)) + 1 <= Cardinality(Y(at))
    BY <2>1, ToldCount
  <2>4. \A p \in Queue : v.QUEUE[p] # <<>> => c.QUEUE[p] # <<>>
    BY <1>11
  <2>5. CASE o = WAITING_READERS
    BY <1>1, <1>16, <2>2, <2>3, <2>4, <2>5 DEF NoneLeft, X, Y
  <2>6. CASE o = WAITING_WRITERS
    BY <1>1, <1>16, <2>2, <2>3, <2>4, <2>6 DEF NoneLeft, X, Y
  <2> QED
    BY <2>5, <2>6
<1> QED
  BY <1>4, <1>7, <1>8, <1>9, <1>10, <1>14, <1>15, <1>16

\* The call made, and the STATE, of the tasks on a queue.
CallOn(o) == IF o = WAITING_READERS THEN "receive" ELSE "send"
StateOn(o) ==
    IF o = WAITING_READERS THEN "LWMSGQ_READ_BLOCKED" ELSE "LWMSGQ_WRITE_BLOCKED"

\* In v the active task a of c has gone on queue o.  The states were D and are E, the
\* calls were d and are e.  There is no message, or no slot, to wait for.
Joins(c, v, D, E, d, e, a, o, n, m) ==
    /\ a = c.ACTIVE_PTR /\ a # Idle /\ o \in {WAITING_READERS, WAITING_WRITERS}
    /\ v \in Kernel /\ Joined(c, v, a, o, StateOn(o), Append(c.QUEUE[o], a))
    /\ \/ v.ON_TIMEOUT_Q = c.ON_TIMEOUT_Q
       \/ o = WAITING_READERS /\ v.ON_TIMEOUT_Q = c.ON_TIMEOUT_Q \cup {a}
    /\ E \in [Task -> State] /\ \A t \in Task \ {a} : E[t] = D[t]
    /\ E[a] = StateOn(o) \/ (o = WAITING_WRITERS /\ E[a] = "READY")
    /\ e \in [Task -> Calls] /\ \A t \in Task \ {a} : e[t] = d[t]
    /\ e[a].at = CallOn(o) /\ d[a].at \in {"none", CallOn(o)}
    /\ o = WAITING_WRITERS <=> e[a].msg # NULL
    /\ n \in Int /\ m \in Int
    /\ o = WAITING_READERS => n <= 0
    /\ o = WAITING_WRITERS => m <= 0

\* That is how the active task blocks in a call.
LEMMA JoinFits ==
    ASSUME NEW c, NEW v, NEW j, NEW E, NEW d, NEW e, NEW a, NEW o,
           NEW n, NEW m, Shadow(j, c), Unscheduled(c), Fits(c, d), NoneLeft(c, d, n, m),
           Joins(c, v, j.TD_STATE, E, d, e, a, o, n, m)
    PROVE  Shadow(Restate(v, E), v) /\ Fits(v, e) /\ NoneLeft(v, e, n, m)
<1> DEFINE at == CallOn(o)
           st == StateOn(o)
<1>0. /\ a = c.ACTIVE_PTR /\ a # Idle /\ o \in {WAITING_READERS, WAITING_WRITERS}
      /\ at = (IF o = WAITING_READERS THEN "receive" ELSE "send")
      /\ st = (IF o = WAITING_READERS THEN "LWMSGQ_READ_BLOCKED" ELSE "LWMSGQ_WRITE_BLOCKED")
      /\ v \in Kernel /\ Joined(c, v, a, o, st, Append(c.QUEUE[o], a))
      /\ \/ v.ON_TIMEOUT_Q = c.ON_TIMEOUT_Q
         \/ o = WAITING_READERS /\ v.ON_TIMEOUT_Q = c.ON_TIMEOUT_Q \cup {a}
      /\ E \in [Task -> State] /\ \A t \in Task \ {a} : E[t] = j.TD_STATE[t]
      /\ E[a] = st \/ (o = WAITING_WRITERS /\ E[a] = "READY")
      /\ e \in [Task -> Calls] /\ \A t \in Task \ {a} : e[t] = d[t]
      /\ e[a].at = at /\ d[a].at \in {"none", at}
      /\ (o = WAITING_WRITERS <=> e[a].msg # NULL)
      /\ n \in Int /\ m \in Int
      /\ (o = WAITING_READERS => n <= 0) /\ (o = WAITING_WRITERS => m <= 0)
  BY DEF Joins, CallOn, StateOn
<1> USE <1>0
<1> HIDE DEF at, st
<1>1. /\ o \in Queue /\ WAITING_READERS \in Queue /\ WAITING_WRITERS \in Queue
      /\ WAITING_READERS # WAITING_WRITERS /\ WAITING_READERS # NULL /\ WAITING_WRITERS # NULL
  BY Queues
<1>2. /\ a \in Task /\ IsReady(c, a) /\ a \notin Writers(c) /\ a \notin Readers(c)
      /\ a \notin c.ON_TIMEOUT_Q
  BY Active
<1>3. /\ c \in Kernel /\ c.QUEUE \in [Queue -> Seq(Task)] /\ c.INFO \in [Task -> Info]
      /\ c.TD_STATE \in [Task -> State]
  BY KernelFields DEF Shadow
<1>4. /\ v.TD_STATE[a] = st /\ v.INFO[a] = o
      /\ \A t \in Task \ {a} : v.TD_STATE[t] = c.TD_STATE[t] /\ v.INFO[t] = c.INFO[t]
      /\ v.QUEUE[o] = Append(c.QUEUE[o], a)
      /\ \A p \in Queue \ {o} : v.QUEUE[p] = c.QUEUE[p]
  BY <1>1, <1>2, <1>3 DEF Joined
<1>5. Elems(v.QUEUE[o]) = Elems(c.QUEUE[o]) \cup {a}
  BY <1>1, <1>2, <1>3, <1>4, AppendElems
<1>6. /\ o = WAITING_READERS => Readers(v) = Readers(c) \cup {a} /\ Writers(v) = Writers(c)
      /\ o = WAITING_WRITERS => Readers(v) = Readers(c) /\ Writers(v) = Writers(c) \cup {a}
  <2>1. CASE o = WAITING_READERS
    BY <1>1, <1>4, <1>5, <2>1 DEF Readers, Writers
  <2>2. CASE o = WAITING_WRITERS
    BY <1>1, <1>4, <1>5, <2>2 DEF Readers, Writers
  <2> QED
    BY <1>1, <2>1, <2>2
<1>7. /\ ~IsReady(v, a)
      /\ \A t \in Task \ {a} : /\ IsReady(v, t) <=> IsReady(c, t)
                               /\ t \in v.ON_TIMEOUT_Q <=> t \in c.ON_TIMEOUT_Q
  BY <1>4 DEF IsReady
<1>8. Fits(v, e)
  <2> SUFFICES ASSUME NEW t \in Task
               PROVE  CallFits(v, e, t)
    BY DEF Fits
  <2>1. CallFits(c, d, t)
    BY DEF Fits
  <2>2. CASE t = a
    <3>1. CASE o = WAITING_READERS
      BY <1>1, <1>2, <1>6, <1>7, <2>2, <3>1 DEF CallFits
    <3>2. CASE o = WAITING_WRITERS
      BY <1>1, <1>2, <1>6, <1>7, <2>2, <3>2 DEF CallFits
    <3> QED
      BY <3>1, <3>2
  <2>3. CASE t # a
    <3>1. /\ e[t] = d[t]
          /\ t \in Readers(v) <=> t \in Readers(c)
          /\ t \in Writers(v) <=> t \in Writers(c)
      BY <1>6, <2>3
    <3> QED
      BY <1>7, <2>1, <2>3, <3>1 DEF CallFits
  <2> QED
    BY <2>2, <2>3
<1>9. Shadow(Restate(v, E), v)
  <2> SUFFICES ASSUME NEW t \in Task
               PROVE  /\ t \in Writers(v) => /\ v.TD_STATE[t] = "LWMSGQ_WRITE_BLOCKED"
                                             /\ E[t] \in {"READY", "LWMSGQ_WRITE_BLOCKED"}
                      /\ t \notin Writers(v) => E[t] = v.TD_STATE[t]
    BY MakeShadow
  <2>1. CASE t = a
    BY <1>1, <1>2, <1>4, <1>6, <2>1
  <2>2. CASE t # a
    <3>1. t \in Writers(v) <=> t \in Writers(c)
      BY <1>6, <2>2
    <3> QED
      BY <1>4, <2>2, <3>1 DEF Shadow
  <2> QED
    BY <2>1, <2>2
<1>10. NoneLeft(v, e, n, m)
  <2> DEFINE R == Told(c, d, "receive")
             S == Told(c, d, "send")
             R2 == Told(v, e, "receive")
             S2 == Told(v, e, "send")
  <2>1. /\ R \in SUBSET Task /\ S \in SUBSET Task /\ R2 \in SUBSET Task /\ S2 \in SUBSET Task
        /\ o = WAITING_READERS => S \subseteq S2
        /\ o = WAITING_WRITERS => R \subseteq R2
    BY <1>1, <1>4 DEF Told
  <2> HIDE DEF R, S, R2, S2
  <2>2. /\ Cardinality(R) \in Nat /\ Cardinality(S) \in Nat
        /\ Cardinality(R2) \in Nat /\ Cardinality(S2) \in Nat
        /\ S \subseteq S2 => Cardinality(S) <= Cardinality(S2)
        /\ R \subseteq R2 => Cardinality(R) <= Cardinality(R2)
    BY <2>1, ToldCount
  <2>3. CASE o = WAITING_READERS
    <3>1. v.QUEUE[WAITING_WRITERS] = c.QUEUE[WAITING_WRITERS]
      BY <1>1, <1>4, <2>3
    <3> QED
      BY <2>1, <2>2, <2>3, <3>1 DEF NoneLeft, R, S, R2, S2
  <2>4. CASE o = WAITING_WRITERS
    <3>1. v.QUEUE[WAITING_READERS] = c.QUEUE[WAITING_READERS]
      BY <1>1, <1>4, <2>4
    <3> QED
      BY <1>1, <2>1, <2>2, <2>4, <3>1 DEF NoneLeft, R, S, R2, S2
  <2> QED
    BY <2>3, <2>4
<1> QED
  BY <1>8, <1>9, <1>10

(***************************************************************************)
(* The steps of a call.  x is the kernel reached, d the calls under way, n   *)
(* the messages in the queue and m the free slots.                           *)
(***************************************************************************)
\* Between calls.
Settled(x, d, n, m) ==
    \E v : Shadow(x, v) /\ Consistent(v) /\ Fits(v, d) /\ NoneLeft(v, d, n, m)

\* Inside a call or an interrupt, with a the active task.
Midway(x, a, d, n, m) ==
    \E v : /\ Shadow(x, v) /\ Unscheduled(v) /\ Fits(v, d) /\ NoneLeft(v, d, n, m)
           /\ v.ACTIVE_PTR = a

\* A call begins.
LEMMA Starts ==
    ASSUME Inv
    PROVE  /\ Midway(k, td, call, q.CURRENT_SIZE, MAX_SIZE - q.CURRENT_SIZE)
           /\ td \in Task /\ call \in [Task -> Calls] /\ (call[td].at # "none" => td # Idle)
           /\ q.CURRENT_SIZE \in 0 .. MAX_SIZE /\ MAX_SIZE \in Nat \ {0}
<1>1. PICK c : /\ Shadow(k, c) /\ Unscheduled(c) /\ Fits(c, call)
               /\ NoneLeft(c, call, q.CURRENT_SIZE, MAX_SIZE - q.CURRENT_SIZE)
               /\ c.ACTIVE_PTR = td
  BY Facts DEF td
<1>2. td \in Task /\ (call[td].at # "none" => td # Idle)
  BY <1>1, Active
<1>3. call \in [Task -> Calls] /\ q.CURRENT_SIZE \in 0 .. MAX_SIZE
  BY DEF Inv, RingOK, LwmsgqStruct
<1> QED
  BY <1>1, <1>2, <1>3, LwmsgqAssumption DEF Midway

\* A call that leaves the kernel alone.
LEMMA Stays ==
    ASSUME Inv, NEW a, NEW d, NEW n, NEW m, Midway(k, a, d, n, m)
    PROVE  Settled(k, d, n, m)
<1>1. PICK v : Shadow(k, v) /\ Fits(v, d) /\ NoneLeft(v, d, n, m)
  BY DEF Midway
<1>2. v = Corrected
  BY <1>1, ShadowIs DEF Corrected
<1> QED
  BY <1>1, <1>2 DEF Settled, Inv

\* Fewer messages and fewer slots need fewer tasks that know of them, and none when
\* nobody waits.
LEMMA Weaken ==
    ASSUME NEW x, NEW a, NEW d, NEW n \in Int, NEW m \in Int, Midway(x, a, d, n, m),
           NEW r \in Int, NEW s \in Int,
           r <= n \/ x.QUEUE[WAITING_READERS] = <<>>,
           s <= m \/ x.QUEUE[WAITING_WRITERS] = <<>>
    PROVE  Midway(x, a, d, r, s)
<1>1. PICK v : /\ Shadow(x, v) /\ Unscheduled(v) /\ Fits(v, d) /\ NoneLeft(v, d, n, m)
               /\ v.ACTIVE_PTR = a
  BY DEF Midway
<1>2. x.QUEUE = v.QUEUE
  BY <1>1, ShadowIs
<1> DEFINE R == Cardinality(Told(v, d, "receive"))
           S == Cardinality(Told(v, d, "send"))
<1>3. R \in Nat /\ S \in Nat
  <2>1. Told(v, d, "receive") \in SUBSET Task /\ Told(v, d, "send") \in SUBSET Task
    BY DEF Told
  <2> QED
    BY <2>1, ToldCount
<1>4. NoneLeft(v, d, r, s)
  <2>1. v.QUEUE[WAITING_READERS] # <<>> => r <= R
    <3> SUFFICES ASSUME v.QUEUE[WAITING_READERS] # <<>>
                 PROVE  r <= R
      OBVIOUS
    <3>1. n <= R
      BY <1>1 DEF NoneLeft
    <3> HIDE DEF R
    <3> QED
      BY <1>2, <1>3, <3>1
  <2>2. v.QUEUE[WAITING_WRITERS] # <<>> => s <= S
    <3> SUFFICES ASSUME v.QUEUE[WAITING_WRITERS] # <<>>
                 PROVE  s <= S
      OBVIOUS
    <3>1. m <= S
      BY <1>1 DEF NoneLeft
    <3> HIDE DEF S
    <3> QED
      BY <1>2, <1>3, <3>1
  <2> QED
    BY <2>1, <2>2 DEF NoneLeft
<1> QED
  BY <1>1, <1>4 DEF Midway

\* The active task's call is over.
LEMMA Leaves ==
    ASSUME NEW x, NEW a, NEW d \in [Task -> Calls], NEW n \in Int, NEW m \in Int,
           Midway(x, a, d, n, m)
    PROVE  LET e == [d EXCEPT ![a] = NoCall]
           IN  /\ e \in [Task -> Calls] /\ e[a] = NoCall /\ e[a].at = "none"
               /\ d[a].at # "send" => Midway(x, a, e, n - 1, m)
               /\ d[a].at # "receive" => Midway(x, a, e, n, m - 1)
               /\ d[a].at \in {"none", "init"} \/ x.INFO[a] # NULL => Midway(x, a, e, n, m)
<1>1. PICK v : /\ Shadow(x, v) /\ Unscheduled(v) /\ Fits(v, d) /\ NoneLeft(v, d, n, m)
               /\ v.ACTIVE_PTR = a
  BY DEF Midway
<1>2. a \in Task /\ IsReady(v, a)
  BY <1>1, Active
<1>3. x.INFO = v.INFO
  BY <1>1, ShadowIs
<1>4. PICK e : e = [d EXCEPT ![a] = NoCall]
  OBVIOUS
<1>5. /\ e \in [Task -> Calls] /\ Fits(v, e) /\ e[a] = NoCall /\ e[a].at = "none"
      /\ d[a].at # "send" => NoneLeft(v, e, n - 1, m)
      /\ d[a].at # "receive" => NoneLeft(v, e, n, m - 1)
      /\ d[a].at \in {"none", "init"} \/ x.INFO[a] # NULL => NoneLeft(v, e, n, m)
  BY <1>1, <1>2, <1>3, <1>4, LeaveFits
<1> QED
  BY <1>1, <1>4, <1>5 DEF Midway

\* The first receiver, or the first sender, is told.
LEMMA Wakes ==
    ASSUME NEW x, NEW a, NEW d, NEW n \in Int, NEW m \in Int, Midway(x, a, d, n, m),
           NEW o \in {WAITING_READERS, WAITING_WRITERS}, x.QUEUE[o] # <<>>
    PROVE  /\ Midway(HandedOver(x, o, NULL), a, d,
                     IF o = WAITING_READERS THEN n + 1 ELSE n,
                     IF o = WAITING_READERS THEN m ELSE m + 1)
           /\ o = WAITING_WRITERS =>
                 TASK_READY([x EXCEPT !.QUEUE[o] = Tail(@),
                                      !.INFO[Head(x.QUEUE[o])] = NULL], Head(x.QUEUE[o]))
                    = HandedOver(x, o, NULL)
<1>1. PICK v : /\ Shadow(x, v) /\ Unscheduled(v) /\ Fits(v, d) /\ NoneLeft(v, d, n, m)
               /\ v.ACTIVE_PTR = a
  BY DEF Midway
<1>2. x.QUEUE = v.QUEUE
  BY <1>1, ShadowIs
<1>3. PICK w : w = HandedOver(v, o, NULL)
  OBVIOUS
<1>4. /\ Shadow(HandedOver(x, o, NULL), w) /\ Unscheduled(w) /\ Fits(w, d)
      /\ w.ACTIVE_PTR = a
      /\ NoneLeft(w, d, IF o = WAITING_READERS THEN n + 1 ELSE n,
                        IF o = WAITING_READERS THEN m ELSE m + 1)
  BY <1>1, <1>2, <1>3, WakeFits
<1>5. o = WAITING_WRITERS =>
         TASK_READY([x EXCEPT !.QUEUE[o] = Tail(@), !.INFO[Head(v.QUEUE[o])] = NULL],
                    Head(v.QUEUE[o])) = HandedOver(x, o, NULL)
  BY <1>1, <1>2, WakeFits
<1> QED
  BY <1>2, <1>4, <1>5 DEF Midway

\* A call or an interrupt ends.
LEMMA Ends ==
    ASSUME NEW x, NEW a, NEW d, NEW n, NEW m, Midway(x, a, d, n, m)
    PROVE  /\ Settled(CHECK_RUN_SCHEDULER(x), d, n, m)
           /\ Settled(IsrReturn(x), d, n, m)
           /\ a # Idle /\ d[a].at = "none" => Settled(TaskBlock(x), d, n, m)
<1>1. PICK v : /\ Shadow(x, v) /\ Unscheduled(v) /\ Fits(v, d) /\ NoneLeft(v, d, n, m)
               /\ v.ACTIVE_PTR = a
  BY DEF Midway
<1>2. Settled(CHECK_RUN_SCHEDULER(x), d, n, m)
  BY <1>1, ScheduleFits DEF Settled
<1>3. Settled(IsrReturn(x), d, n, m)
  BY <1>1, ScheduleFits DEF Settled
<1>4. a # Idle /\ d[a].at = "none" => Settled(TaskBlock(x), d, n, m)
  BY <1>1, BlockFits DEF Settled
<1> QED
  BY <1>2, <1>3, <1>4

\* A sender blocks, for the first time or again.
LEMMA WriteBlocks ==
    ASSUME Inv, NEW a, a = td, a # Idle, call[a].at \in {"none", "send"},
           NEW j \in {k, [k EXCEPT !.TD_STATE[a] = "LWMSGQ_WRITE_BLOCKED"]},
           NEW e \in [Task -> Calls], \A t \in Task \ {a} : e[t] = call[t],
           e[a].at = "send", e[a].msg # NULL, q.CURRENT_SIZE >= MAX_SIZE
    PROVE  Settled(WriteBlock(j), e, q.CURRENT_SIZE, MAX_SIZE - q.CURRENT_SIZE)
<1> DEFINE o == WAITING_WRITERS
           st == "LWMSGQ_WRITE_BLOCKED"
<1>1. PICK c, D :
         /\ D = k.TD_STATE /\ k = Restate(c, D) /\ D \in [Task -> State] /\ Shadow(k, c)
         /\ Unscheduled(c) /\ c \in Kernel /\ Fits(c, call)
         /\ NoneLeft(c, call, q.CURRENT_SIZE, MAX_SIZE - q.CURRENT_SIZE)
         /\ k.ACTIVE_PTR = c.ACTIVE_PTR
         /\ c.QUEUE \in [Queue -> Seq(Task)] /\ c.INFO \in [Task -> Info]
  BY Facts
<1>2. /\ a = c.ACTIVE_PTR /\ a \in Task /\ IsReady(c, a) /\ a \notin Writers(c)
      /\ D[a] = "READY"
  BY <1>1, Active DEF td
<1>3. o \in Queue /\ o \in {WAITING_READERS, WAITING_WRITERS} /\ o # WAITING_READERS
  BY Queues
<1> DEFINE Q == Append(c.QUEUE[o], a)
           E == j.TD_STATE
           w == Waiting(c, a, o, st, Q)
           v == Dispatch(UnlinkReady(w, a))
<1>4. Q \in Seq(Task) /\ NoDuplicates(Q) /\ Elems(Q) = Elems(c.QUEUE[o]) \cup {a}
  <2>1. NoDuplicates(c.QUEUE[o])
    BY <1>1, <1>3 DEF Unscheduled, WaitInv, WaitQueuesOK
  <2> QED
    BY <1>1, <1>2, <1>3, <2>1, AppendElems DEF Writers
<1>5. /\ E \in [Task -> State] /\ j = Restate(c, E)
      /\ \A t \in Task \ {a} : E[t] = D[t]
      /\ E[a] \in {"READY", st}
  <2>1. CASE j = k
    BY <1>1, <1>2, <2>1
  <2>2. CASE j = [k EXCEPT !.TD_STATE[a] = st]
    <3> DEFINE G == [D EXCEPT ![a] = st]
    <3>1. G \in [Task -> State] /\ G[a] = st /\ \A t \in Task \ {a} : G[t] = D[t]
      BY <1>1, <1>2 DEF State, AuxStates
    <3>2. j = [k EXCEPT !.TD_STATE = G]
      BY <1>1, <2>2
    <3> HIDE DEF G
    <3>3. j = Restate(c, G) /\ j.TD_STATE = G
      BY <1>1, <3>2 DEF Restate, Kernel
    <3> QED
      BY <3>1, <3>3
  <2> QED
    BY <2>1, <2>2
<1> HIDE DEF E
<1>6. KInv(c, {}) /\ WaitInv(c) /\ st \in WaitStates /\ st \in State
  BY <1>1 DEF Unscheduled, WaitStates, AuxStates, State
<1>7. /\ w \in Kernel /\ Consistent(v) /\ Joined(c, v, a, o, st, Q)
      /\ v.ON_TIMEOUT_Q = c.ON_TIMEOUT_Q /\ UnlinkReady(w, a) \in Kernel
  <2> DEFINE u == UnlinkReady(w, a)
  <2> HIDE DEF o, st, Q
  <2>1. w \in Kernel
    BY <1>1, <1>2, <1>3, <1>4, <1>6, WaitingFields
  <2>2. KInv(u, {}) /\ WaitInv(u) /\ Joined(c, u, a, o, st, Q) /\ u.ON_TIMEOUT_Q = c.ON_TIMEOUT_Q
    BY <1>2, <1>3, <1>4, <1>6, BlockWait
  <2> HIDE DEF u, w
  <2>3. Consistent(v) /\ OnlySwitched(u, v)
    BY <2>2, DispatchWait DEF u
  <2> HIDE DEF v
  <2> QED
    BY <2>1, <2>2, <2>3 DEF Joined, OnlySwitched, KInv, u
<1>8. WriteBlock(j) = Restate(v, E)
  <2> DEFINE I == [c.INFO EXCEPT ![a] = o]
             W == [c.QUEUE EXCEPT ![o] = Q]
             F == [c.TD_STATE EXCEPT ![a] = st]
  <2>1. j.INFO = c.INFO /\ j.QUEUE = c.QUEUE
    BY <1>1, <1>5, RestateFields
  <2>2. [j EXCEPT !.INFO[a] = o, !.QUEUE[o] = Append(@, a)] = [j EXCEPT !.INFO = I, !.QUEUE = W]
    BY <2>1
  <2>3. w = [c EXCEPT !.TD_STATE = F, !.INFO = I, !.QUEUE = W]
    BY <1>1 DEF Waiting
  <2> HIDE DEF I, W, F, w
  <2>4. [j EXCEPT !.INFO = I, !.QUEUE = W] = Restate(w, E)
    BY <1>1, <1>5, <2>3 DEF Restate, Kernel
  <2>5. UnlinkReady(Restate(w, E), a) = Restate(UnlinkReady(w, a), E)
    BY <1>2, <1>7, RestateUnlink
  <2>6. Dispatch(Restate(UnlinkReady(w, a), E)) = Restate(v, E)
    BY <1>7, RestateDispatch
  <2> QED
    BY <2>2, <2>4, <2>5, <2>6 DEF WriteBlock, td
<1> HIDE DEF w, v, Q
<1>9. v \in Kernel /\ q.CURRENT_SIZE \in Int /\ MAX_SIZE - q.CURRENT_SIZE \in Int
      /\ MAX_SIZE - q.CURRENT_SIZE <= 0
  BY <1>7, LwmsgqAssumption DEF Consistent, KInv, Inv, RingOK, LwmsgqStruct
<1>10. /\ Shadow(Restate(v, E), v) /\ Fits(v, e)
       /\ NoneLeft(v, e, q.CURRENT_SIZE, MAX_SIZE - q.CURRENT_SIZE)
  <2> DEFINE n == q.CURRENT_SIZE
             m == MAX_SIZE - q.CURRENT_SIZE
  <2>1. Joins(c, v, k.TD_STATE, E, call, e, a, o, n, m)
    <3>1. st = StateOn(o) /\ CallOn(o) = "send"
      BY <1>3 DEF StateOn, CallOn
    <3>2. Joined(c, v, a, o, StateOn(o), Append(c.QUEUE[o], a))
      BY <1>7, <3>1 DEF Q
    <3> QED
      BY <1>1, <1>2, <1>3, <1>5, <1>7, <1>9, <3>1, <3>2 DEF Joins
  <2> QED
    BY <1>1, <2>1, JoinFits
<1> QED
  BY <1>7, <1>8, <1>10 DEF Settled

\* A receiver blocks, for the first time or again, with or without a timeout.
LEMMA ReadBlocks ==
    ASSUME Inv, NEW a, a = td, a # Idle, call[a].at \in {"none", "receive"},
           NEW timeout, NEW ticks \in Int,
           NEW e \in [Task -> Calls], \A t \in Task \ {a} : e[t] = call[t],
           e[a].at = "receive", e[a].msg = NULL, q.CURRENT_SIZE = 0
    PROVE  Settled(ReadBlock(timeout, ticks), e, q.CURRENT_SIZE, MAX_SIZE - q.CURRENT_SIZE)
<1> DEFINE o == WAITING_READERS
           st == "LWMSGQ_READ_BLOCKED"
<1>1. PICK c, D :
         /\ D = k.TD_STATE /\ k = Restate(c, D) /\ D \in [Task -> State] /\ Shadow(k, c)
         /\ Unscheduled(c) /\ c \in Kernel /\ Fits(c, call)
         /\ NoneLeft(c, call, q.CURRENT_SIZE, MAX_SIZE - q.CURRENT_SIZE)
         /\ k.ACTIVE_PTR = c.ACTIVE_PTR
         /\ c.QUEUE \in [Queue -> Seq(Task)] /\ c.INFO \in [Task -> Info]
  BY Facts
<1>2. /\ a = c.ACTIVE_PTR /\ a \in Task /\ IsReady(c, a) /\ a \notin Readers(c)
      /\ D[a] = "READY"
  BY <1>1, Active DEF td
<1>3. o \in Queue /\ o \in {WAITING_READERS, WAITING_WRITERS} /\ o # WAITING_WRITERS
  BY Queues
<1> DEFINE Q == Append(c.QUEUE[o], a)
           E == [D EXCEPT ![a] = st]
           w == Waiting(c, a, o, st, Q)
           x == Dispatch(UnlinkReady(w, a))
           y == time_delay_internal(w, a, ticks)
<1>4. Q \in Seq(Task) /\ NoDuplicates(Q) /\ Elems(Q) = Elems(c.QUEUE[o]) \cup {a}
  <2>1. NoDuplicates(c.QUEUE[o])
    BY <1>1, <1>3 DEF Unscheduled, WaitInv, WaitQueuesOK
  <2> QED
    BY <1>1, <1>2, <1>3, <2>1, AppendElems DEF Readers
<1>5. E \in [Task -> State] /\ (\A t \in Task \ {a} : E[t] = D[t]) /\ E[a] = st
  BY <1>1, <1>2 DEF State, AuxStates
<1>6. KInv(c, {}) /\ WaitInv(c) /\ st \in WaitStates /\ st \in State /\ st \in AuxStates
  BY <1>1 DEF Unscheduled, WaitStates, AuxStates, State
<1>7. /\ w \in Kernel /\ UnlinkReady(w, a) \in Kernel
      /\ Consistent(x) /\ Joined(c, x, a, o, st, Q) /\ x.ON_TIMEOUT_Q = c.ON_TIMEOUT_Q
      /\ Consistent(y) /\ Joined(c, y, a, o, st, Q) /\ y.ON_TIMEOUT_Q = c.ON_TIMEOUT_Q \cup {a}
  <2> DEFINE u == UnlinkReady(w, a)
  <2> HIDE DEF o, st, Q
  <2>1. w \in Kernel
    BY <1>1, <1>2, <1>3, <1>4, <1>6, WaitingFields
  <2>2. KInv(u, {}) /\ WaitInv(u) /\ Joined(c, u, a, o, st, Q) /\ u.ON_TIMEOUT_Q = c.ON_TIMEOUT_Q
    BY <1>2, <1>3, <1>4, <1>6, BlockWait
  <2>3. Consistent(y) /\ Joined(c, y, a, o, st, Q) /\ y.ON_TIMEOUT_Q = c.ON_TIMEOUT_Q \cup {a}
    BY <1>2, <1>3, <1>4, <1>6, TimedBlockWait
  <2> HIDE DEF u, w
  <2>4. Consistent(x) /\ OnlySwitched(u, x)
    BY <2>2, DispatchWait DEF u
  <2> HIDE DEF x
  <2>5. Joined(c, x, a, o, st, Q) /\ x.ON_TIMEOUT_Q = c.ON_TIMEOUT_Q /\ u \in Kernel
    BY <2>2, <2>4 DEF Joined, OnlySwitched, KInv
  <2> HIDE DEF y
  <2> QED
    BY <2>1, <2>3, <2>4, <2>5 DEF u
<1>8. PICK v \in {x, y} : ReadBlock(timeout, ticks) = Restate(v, E)
  <2> DEFINE I == [c.INFO EXCEPT ![a] = o]
             W == [c.QUEUE EXCEPT ![o] = Q]
             F == [c.TD_STATE EXCEPT ![a] = st]
             g == [k EXCEPT !.TD_STATE[td] = "LWMSGQ_READ_BLOCKED",
                            !.INFO[td] = WAITING_READERS,
                            !.QUEUE[WAITING_READERS] = Append(@, td)]
  <2>1. k.INFO = c.INFO /\ k.QUEUE = c.QUEUE
    BY <1>1, RestateFields
  <2>2. g = [k EXCEPT !.TD_STATE = E, !.INFO = I, !.QUEUE = W]
    BY <1>1, <2>1
  <2>3. w = [c EXCEPT !.TD_STATE = F, !.INFO = I, !.QUEUE = W]
    BY <1>1 DEF Waiting
  <2>4. g = Restate(w, E)
    <3> HIDE DEF I, W, F, w, E, g
    <3> QED
      BY <1>1, <2>2, <2>3 DEF Restate, Kernel
  <2>5. ReadBlock(timeout, ticks) = IF timeout = "none" THEN Dispatch(UnlinkReady(g, a))
                                    ELSE time_delay_internal(g, a, ticks)
    BY DEF ReadBlock
  <2> HIDE DEF I, W, F, w, E, g
  <2>6. UnlinkReady(g, a) = Restate(UnlinkReady(w, a), E)
    BY <1>2, <1>7, <2>4, RestateUnlink
  <2>7. Dispatch(UnlinkReady(g, a)) = Restate(x, E)
    BY <1>7, <2>6, RestateDispatch
  <2>8. time_delay_internal(g, a, ticks) = Restate(y, E)
    BY <1>2, <1>7, <2>4, RestateDelay
  <2> HIDE DEF x, y
  <2> QED
    BY <2>5, <2>7, <2>8
<1>9. /\ Consistent(v) /\ Joined(c, v, a, o, st, Q)
      /\ v.ON_TIMEOUT_Q = c.ON_TIMEOUT_Q \/ v.ON_TIMEOUT_Q = c.ON_TIMEOUT_Q \cup {a}
  BY <1>7
<1> HIDE DEF w, x, y, Q, E
<1>10. v \in Kernel /\ q.CURRENT_SIZE \in Int /\ MAX_SIZE - q.CURRENT_SIZE \in Int
  BY <1>9, LwmsgqAssumption DEF Consistent, KInv
<1>11. /\ Shadow(Restate(v, E), v) /\ Fits(v, e)
       /\ NoneLeft(v, e, q.CURRENT_SIZE, MAX_SIZE - q.CURRENT_SIZE)
  <2> DEFINE n == q.CURRENT_SIZE
             m == MAX_SIZE - q.CURRENT_SIZE
  <2>1. Joins(c, v, k.TD_STATE, E, call, e, a, o, n, m)
    <3>1. st = StateOn(o) /\ CallOn(o) = "receive"
      BY <1>3 DEF StateOn, CallOn
    <3>2. Joined(c, v, a, o, StateOn(o), Append(c.QUEUE[o], a))
      BY <1>9, <3>1 DEF Q
    <3> QED
      BY <1>1, <1>2, <1>3, <1>5, <1>9, <1>10, <3>1, <3>2 DEF Joins
  <2> QED
    BY <1>1, <2>1, JoinFits
<1> QED
  BY <1>8, <1>9, <1>11 DEF Settled

\* _lwmsgq_deinit: nobody waits any more.
LEMMA Deinits ==
    ASSUME Inv
    PROVE  Settled(CHECK_RUN_SCHEDULER(Deinit), call, q.CURRENT_SIZE, MAX_SIZE - q.CURRENT_SIZE)
<1>1. PICK c, D :
         /\ D = k.TD_STATE /\ k = Restate(c, D) /\ D \in [Task -> State] /\ Shadow(k, c)
         /\ Unscheduled(c) /\ c \in Kernel /\ Fits(c, call)
  BY Facts
<1> DEFINE E == ReadyStates(ReadyStates(D, Writers(c)), Readers(c))
<1>2. PICK v : Unscheduled(v) /\ AllReleased(c, v) /\ Deinit = Restate(v, E)
  BY <1>1, DeinitWait
<1>3. Writers(v) = {} /\ Readers(v) = {}
  BY <1>2 DEF AllReleased, Writers, Readers, Elems
<1>4. E \in [Task -> State]
  BY <1>1, States DEF ReadyStates
<1>5. \A t \in Task : /\ v.TD_STATE[t] = E[t]
                      /\ IsReady(v, t) <=> IsReady(c, t) \/ t \in Writers(c) \cup Readers(c)
                      /\ t \in v.ON_TIMEOUT_Q => t \in c.ON_TIMEOUT_Q
  <2> SUFFICES ASSUME NEW t \in Task
               PROVE  /\ v.TD_STATE[t] = E[t]
                      /\ IsReady(v, t) <=> IsReady(c, t) \/ t \in Writers(c) \cup Readers(c)
                      /\ t \in v.ON_TIMEOUT_Q => t \in c.ON_TIMEOUT_Q
    OBVIOUS
  <2>1. t \notin Writers(c) => D[t] = c.TD_STATE[t]
    BY <1>1 DEF Shadow
  <2>2. /\ v.TD_STATE[t] = IF t \in Writers(c) \cup Readers(c) THEN "READY" ELSE c.TD_STATE[t]
        /\ E[t] = IF t \in Writers(c) \cup Readers(c) THEN "READY" ELSE D[t]
        /\ v.ON_TIMEOUT_Q = (c.ON_TIMEOUT_Q \ Writers(c)) \ Readers(c)
    BY <1>2 DEF AllReleased, ReadyStates
  <2> QED
    BY <2>1, <2>2 DEF IsReady
<1> HIDE DEF E
<1>6. Fits(v, call)
  <2> SUFFICES ASSUME NEW t \in Task
               PROVE  CallFits(v, call, t)
    BY DEF Fits
  <2>1. CallFits(c, call, t)
    BY <1>1 DEF Fits
  <2> QED
    BY <1>3, <1>5, <2>1 DEF CallFits
<1>7. Shadow(Deinit, v)
  <2>1. v \in Kernel
    BY <1>2 DEF Unscheduled, KInv
  <2> QED
    BY <1>2, <1>3, <1>4, <1>5, <2>1, MakeShadow
<1>8. NoneLeft(v, call, q.CURRENT_SIZE, MAX_SIZE - q.CURRENT_SIZE)
  BY <1>2 DEF NoneLeft, AllReleased
<1> QED
  BY <1>2, <1>6, <1>7, <1>8, Ends DEF Midway

\* The timer interrupt.  e are the calls with the time to their timeouts counted down.
LEMMA Ticks ==
    ASSUME Inv, NEW e, \A t \in Task : e[t].at = call[t].at /\ e[t].msg = call[t].msg
                                       /\ (call[t] = NoCall => e[t] = NoCall)
    PROVE  Settled(IsrReturn(time_notify_kernel(k)), e, q.CURRENT_SIZE,
                   MAX_SIZE - q.CURRENT_SIZE)
<1>1. PICK c, D :
         /\ D = k.TD_STATE /\ k = Restate(c, D) /\ D \in [Task -> State] /\ Shadow(k, c)
         /\ Unscheduled(c) /\ c \in Kernel /\ Fits(c, call)
         /\ NoneLeft(c, call, q.CURRENT_SIZE, MAX_SIZE - q.CURRENT_SIZE)
         /\ c.ON_TIMEOUT_Q \in SUBSET Task /\ c.QUEUE \in [Queue -> Seq(Task)]
         /\ c.TD_STATE \in [Task -> State]
  BY Facts
<1>2. \A t \in Task : CallFits(c, call, t)
  BY <1>1 DEF Fits
<1>3. \A t \in c.ON_TIMEOUT_Q : t \notin Writers(c) /\ D[t] = c.TD_STATE[t]
  BY <1>1, <1>2 DEF CallFits, Shadow
<1>4. KInv(c, {}) /\ IsReady(c, c.ACTIVE_PTR) /\ WaitInv(c) /\ D[c.ACTIVE_PTR] = "READY"
  <2>1. KInv(c, {}) /\ IsReady(c, c.ACTIVE_PTR) /\ WaitInv(c)
    BY <1>1 DEF Unscheduled
  <2>2. PICK a : a = c.ACTIVE_PTR
    OBVIOUS
  <2>3. D[a] = "READY"
    BY <1>1, <2>2, Active
  <2> QED
    BY <2>1, <2>2, <2>3
<1>5. PICK v : v = IsrReturn(time_notify_kernel(c))
  OBVIOUS
<1>6. PICK S \in SUBSET c.ON_TIMEOUT_Q :
         /\ IsrReturn(time_notify_kernel(k)) = Restate(v, ReadyStates(D, S))
         /\ v.TD_STATE = ReadyStates(c.TD_STATE, S)
  <2>1. \A t \in c.ON_TIMEOUT_Q : D[t] = c.TD_STATE[t]
    BY <1>3
  <2>2. \E S \in SUBSET c.ON_TIMEOUT_Q :
           /\ IsrReturn(time_notify_kernel(Restate(c, D)))
                 = Restate(IsrReturn(time_notify_kernel(c)), ReadyStates(D, S))
           /\ IsrReturn(time_notify_kernel(c)).TD_STATE = ReadyStates(c.TD_STATE, S)
    BY <1>1, <1>4, <2>1, RestateTick
  <2> QED
    BY <1>1, <1>5, <2>2
<1>7. PICK O \in SUBSET c.ON_TIMEOUT_Q : TimedOut(c, v, O) /\ Consistent(v)
  BY <1>1, <1>5, TickWait
<1>8. /\ \A o \in Queue : v.QUEUE[o] \in Seq(Task) /\ Elems(v.QUEUE[o]) = Elems(c.QUEUE[o]) \ O
      /\ Readers(v) = Readers(c) \ O /\ Writers(v) = Writers(c) \ O
  <2>1. v.QUEUE = LeaveAuxQueues(c, O)
    BY <1>7 DEF TimedOut
  <2>2. \A o \in Queue : v.QUEUE[o] \in Seq(Task) /\ Elems(v.QUEUE[o]) = Elems(c.QUEUE[o]) \ O
    <3> DEFINE W == LeaveAuxQueues(c, O)
    <3>1. \A o \in Queue : /\ W[o] \in Seq(Task) /\ NoDuplicates(W[o])
                           /\ Elems(W[o]) = Elems(c.QUEUE[o]) \ O
      BY <1>1, <1>4, LeaveAuxElems
    <3> HIDE DEF W
    <3> QED
      BY <2>1, <3>1 DEF W
  <2> QED
    <3>1. WAITING_READERS \in Queue /\ WAITING_WRITERS \in Queue
      BY Queues
    <3> QED
      BY <2>2, <3>1 DEF Readers, Writers
<1>9. Writers(v) = Writers(c)
  BY <1>3, <1>7, <1>8
<1>10. \A t \in Task : /\ IsReady(v, t) <=> t \in O \/ IsReady(c, t)
                       /\ t \in v.ON_TIMEOUT_Q => t \in c.ON_TIMEOUT_Q
                       /\ v.INFO[t] = c.INFO[t]
  BY <1>7 DEF TimedOut, Readied, IsReady
<1>11. Fits(v, e)
  <2> SUFFICES ASSUME NEW t \in Task
               PROVE  CallFits(v, e, t)
    BY DEF Fits
  <2>1. CallFits(c, call, t) /\ (t \in O => t \in c.ON_TIMEOUT_Q)
    BY <1>2, <1>7
  <2>2. NoCall.at = "none"
    BY DEF NoCall
  <2> QED
    BY <1>8, <1>9, <1>10, <2>1, <2>2 DEF CallFits
<1>12. Shadow(Restate(v, ReadyStates(D, S)), v)
  <2> DEFINE E == ReadyStates(D, S)
  <2>1. /\ E \in [Task -> State]
        /\ \A t \in S : E[t] = "READY" /\ v.TD_STATE[t] = "READY"
        /\ \A t \in Task \ S : E[t] = D[t] /\ v.TD_STATE[t] = c.TD_STATE[t]
    BY <1>1, <1>6, States DEF ReadyStates
  <2> HIDE DEF E
  <2>2. v \in Kernel
    BY <1>7 DEF Consistent, KInv
  <2> SUFFICES ASSUME NEW t \in Task
               PROVE  /\ t \in Writers(v) => /\ v.TD_STATE[t] = "LWMSGQ_WRITE_BLOCKED"
                                             /\ E[t] \in {"READY", "LWMSGQ_WRITE_BLOCKED"}
                      /\ t \notin Writers(v) => E[t] = v.TD_STATE[t]
    BY <2>1, <2>2, MakeShadow DEF E
  <2>3. CASE t \in S
    BY <1>3, <1>9, <2>1, <2>3
  <2>4. CASE t \notin S
    BY <1>1, <1>9, <2>1, <2>4 DEF Shadow
  <2> QED
    BY <2>3, <2>4
<1>13. NoneLeft(v, e, q.CURRENT_SIZE, MAX_SIZE - q.CURRENT_SIZE)
  <2>1. Told(v, e, "receive") = Told(c, call, "receive") /\ Told(v, e, "send") = Told(c, call, "send")
    BY <1>10 DEF Told
  <2>2. \A o \in {WAITING_READERS, WAITING_WRITERS} : v.QUEUE[o] # <<>> => c.QUEUE[o] # <<>>
    <3> SUFFICES ASSUME NEW o \in {WAITING_READERS, WAITING_WRITERS}, v.QUEUE[o] # <<>>
                 PROVE  c.QUEUE[o] # <<>>
      OBVIOUS
    <3>1. v.QUEUE[o] \in Seq(Task) /\ Elems(v.QUEUE[o]) \subseteq Elems(c.QUEUE[o])
      <4>1. o \in Queue
        BY Queues
      <4> QED
        BY <1>8, <4>1
    <3>2. c.QUEUE[o] \in Seq(Task)
      BY <1>1, Queues
    <3>3. Elems(v.QUEUE[o]) # {}
      BY <3>1, EmptyQueue
    <3>4. Elems(c.QUEUE[o]) # {}
      BY <3>1, <3>3
    <3> QED
      BY <3>2, <3>4, EmptyQueue
  <2> QED
    BY <1>1, <2>1, <2>2 DEF NoneLeft
<1> QED
  BY <1>6, <1>7, <1>11, <1>12, <1>13 DEF Settled

\* A task that is in no call sleeps.
LEMMA Delays ==
    ASSUME Inv, NEW a, a = td, a # Idle, call[a].at = "none", NEW ticks \in Int
    PROVE  Settled(time_delay_internal(k, a, ticks), call, q.CURRENT_SIZE,
                   MAX_SIZE - q.CURRENT_SIZE)
<1>1. PICK c, D :
         /\ D = k.TD_STATE /\ k = Restate(c, D) /\ D \in [Task -> State] /\ Shadow(k, c)
         /\ Unscheduled(c) /\ c \in Kernel /\ Fits(c, call)
         /\ NoneLeft(c, call, q.CURRENT_SIZE, MAX_SIZE - q.CURRENT_SIZE)
         /\ k.ACTIVE_PTR = c.ACTIVE_PTR
  BY Facts
<1>2. a \in Task /\ IsReady(c, a) /\ KInv(c, {}) /\ WaitInv(c)
  BY <1>1, Active DEF td, Unscheduled
<1>3. PICK v : v = time_delay_internal(c, a, ticks)
  OBVIOUS
<1>4. /\ Consistent(v) /\ v.TD_STATE = c.TD_STATE /\ v.INFO = c.INFO /\ v.QUEUE = c.QUEUE
      /\ v.ON_TIMEOUT_Q = c.ON_TIMEOUT_Q \cup {a} /\ v \in Kernel
  BY <1>2, <1>3, DelayWait DEF Consistent, KInv
<1>5. time_delay_internal(k, a, ticks) = Restate(v, D)
  BY <1>1, <1>2, <1>3, RestateDelay
<1>6. Undisturbed(c, v, call)
  BY <1>4 DEF Undisturbed, IsReady
<1>7. Fits(v, call) /\ NoneLeft(v, call, q.CURRENT_SIZE, MAX_SIZE - q.CURRENT_SIZE)
      /\ Writers(v) = Writers(c)
  BY <1>1, <1>6, UndisturbedFits
<1>8. Shadow(Restate(v, D), v)
  <2>1. \A t \in Task :
           /\ t \in Writers(v) => /\ v.TD_STATE[t] = "LWMSGQ_WRITE_BLOCKED"
                                  /\ D[t] \in {"READY", "LWMSGQ_WRITE_BLOCKED"}
           /\ t \notin Writers(v) => D[t] = v.TD_STATE[t]
    BY <1>1, <1>4, <1>7 DEF Shadow
  <2> QED
    BY <1>1, <1>4, <2>1, MakeShadow
<1> QED
  BY <1>4, <1>5, <1>7, <1>8 DEF Settled

\* _task_ready of a task that blocked itself.
LEMMA Readies ==
    ASSUME Inv, NEW t \in Task, k.TD_STATE[t] = "BLOCKED", t \notin k.ON_TIMEOUT_Q
    PROVE  Settled(CHECK_RUN_SCHEDULER(TASK_READY(k, t)), call, q.CURRENT_SIZE,
                   MAX_SIZE - q.CURRENT_SIZE)
<1>1. PICK c, D :
         /\ D = k.TD_STATE /\ k = Restate(c, D) /\ D \in [Task -> State] /\ Shadow(k, c)
         /\ Unscheduled(c) /\ c \in Kernel /\ Fits(c, call)
         /\ NoneLeft(c, call, q.CURRENT_SIZE, MAX_SIZE - q.CURRENT_SIZE)
         /\ k.ON_TIMEOUT_Q = c.ON_TIMEOUT_Q /\ c.TD_STATE \in [Task -> State]
  BY Facts
<1>2. t \notin Writers(c) /\ c.TD_STATE[t] = "BLOCKED"
  BY <1>1 DEF Shadow
<1>3. t \notin Readers(c)
  BY <1>1, <1>2, Queues, States DEF Unscheduled, WaitInv, WaitQueuesOK, Readers, WaitStates
<1>4. call[t].at \notin {"send", "receive"}
  <2>1. CallFits(c, call, t) /\ ~IsReady(c, t)
    BY <1>1, <1>2 DEF Fits, IsReady
  <2> QED
    BY <1>2, <1>3, <2>1 DEF CallFits
<1>5. PICK v : v = TASK_READY(c, t)
  OBVIOUS
<1>6. /\ Unscheduled(v) /\ v.TD_STATE = [c.TD_STATE EXCEPT ![t] = "READY"]
      /\ v.QUEUE = c.QUEUE /\ v.INFO = c.INFO /\ v.ON_TIMEOUT_Q = c.ON_TIMEOUT_Q
  <2>1. c.TD_STATE[t] # "READY" /\ c.TD_STATE[t] \notin WaitStates
    BY <1>2, States
  <2> QED
    BY <1>1, <1>5, <2>1, ReadyWait
<1> DEFINE E == [D EXCEPT ![t] = "READY"]
<1>7. TASK_READY(k, t) = Restate(v, E)
  BY <1>1, <1>5, RestateReady
<1>8. /\ E \in [Task -> State] /\ E[t] = "READY" /\ v.TD_STATE[t] = "READY"
      /\ \A u \in Task \ {t} : E[u] = D[u] /\ v.TD_STATE[u] = c.TD_STATE[u]
  BY <1>1, <1>6, States
<1> HIDE DEF E
<1>9. Undisturbed(c, v, call)
  BY <1>4, <1>6, <1>8 DEF Undisturbed, IsReady
<1>10. Fits(v, call) /\ NoneLeft(v, call, q.CURRENT_SIZE, MAX_SIZE - q.CURRENT_SIZE)
       /\ Writers(v) = Writers(c)
  BY <1>1, <1>9, UndisturbedFits
<1>11. Shadow(Restate(v, E), v)
  <2>1. v \in Kernel
    BY <1>6 DEF Unscheduled, KInv
  <2> SUFFICES ASSUME NEW u \in Task
               PROVE  /\ u \in Writers(v) => /\ v.TD_STATE[u] = "LWMSGQ_WRITE_BLOCKED"
                                             /\ E[u] \in {"READY", "LWMSGQ_WRITE_BLOCKED"}
                      /\ u \notin Writers(v) => E[u] = v.TD_STATE[u]
    BY <1>8, <2>1, MakeShadow
  <2>2. CASE u = t
    BY <1>2, <1>8, <1>10, <2>2
  <2>3. CASE u # t
    BY <1>1, <1>8, <1>10, <2>3 DEF Shadow
  <2> QED
    BY <2>2, <2>3
<1> QED
  BY <1>6, <1>7, <1>10, <1>11, Ends DEF Midway

(***************************************************************************)
(* The ring of messages.                                                    *)
(***************************************************************************)
\* Locations wrap around once.
LEMMA Wraps ==
    ASSUME NEW i \in Nat, i < 2 * MAX_SIZE
    PROVE  /\ i % MAX_SIZE = IF i < MAX_SIZE THEN i ELSE i - MAX_SIZE
           /\ i % MAX_SIZE \in Slot
<1>1. MAX_SIZE \in Nat \ {0}
  BY LwmsgqAssumption
<1>2. CASE i < MAX_SIZE
  BY <1>1, <1>2 DEF Slot
<1>3. CASE i >= MAX_SIZE
  BY <1>1, <1>3 DEF Slot
<1> QED
  BY <1>1, <1>2, <1>3

\* The fields of a queue.
LEMMA RingFields ==
    ASSUME NEW r \in LwmsgqStruct
    PROVE  /\ r.VALID \in BOOLEAN /\ r.CURRENT_SIZE \in 0 .. MAX_SIZE /\ r.CURRENT_SIZE \in Nat
           /\ r.MSG_READ_LOC \in Slot /\ r.MSG_WRITE_LOC \in Slot
           /\ r.MSG_READ_LOC \in Nat /\ r.MSG_WRITE_LOC \in Nat
           /\ r.MSG_READ_LOC < MAX_SIZE /\ r.MSG_WRITE_LOC < MAX_SIZE
           /\ r.MSGS \in [Slot -> Msg \cup {NULL}] /\ MAX_SIZE \in Nat \ {0}
<1>1. MAX_SIZE \in Nat \ {0}
  BY LwmsgqAssumption
<1> QED
  BY <1>1 DEF LwmsgqStruct, Slot

\* Where the i-th message lies.
LEMMA Place ==
    ASSUME NEW r \in LwmsgqStruct, NEW i \in 1 .. (MAX_SIZE + 1)
    PROVE  LET p == r.MSG_READ_LOC + i - 1
           IN  /\ p % MAX_SIZE = IF p < MAX_SIZE THEN p ELSE p - MAX_SIZE
               /\ p % MAX_SIZE \in Slot
<1>1. /\ r.MSG_READ_LOC \in Nat /\ r.MSG_READ_LOC < MAX_SIZE /\ MAX_SIZE \in Nat
  BY RingFields
<1>2. r.MSG_READ_LOC + i - 1 \in Nat /\ r.MSG_READ_LOC + i - 1 < 2 * MAX_SIZE
  BY <1>1
<1> QED
  BY <1>2, Wraps

\* Sequences with the same elements.
LEMMA SameSeq ==
    ASSUME NEW S, NEW s \in Seq(S), NEW t \in Seq(S), Len(s) = Len(t),
           \A i \in 1 .. Len(s) : s[i] = t[i]
    PROVE  s = t
<1>1. s \in [1 .. Len(s) -> S] /\ t \in [1 .. Len(s) -> S]
  OBVIOUS
<1> QED
  BY <1>1

\* A message is copied in behind the others.
LEMMA PutRing ==
    ASSUME RingOK(q), q.CURRENT_SIZE < MAX_SIZE, NEW m \in Msg, PutMessage(m)
    PROVE  /\ RingOK(q') /\ q'.CURRENT_SIZE = q.CURRENT_SIZE + 1
           /\ Buffer' = Append(Buffer, m) /\ Len(Buffer) < MAX_SIZE
<1> DEFINE R == q.MSG_READ_LOC
           W == q.MSG_WRITE_LOC
           n == q.CURRENT_SIZE
           f == q.MSGS
           g == [f EXCEPT ![W] = m]
           p(i) == (R + i - 1) % MAX_SIZE
<1>1. /\ n \in 0 .. MAX_SIZE /\ R \in Slot /\ W \in Slot /\ f \in [Slot -> Msg \cup {NULL}]
      /\ n \in Nat /\ R \in Nat /\ W \in Nat /\ R < MAX_SIZE /\ W < MAX_SIZE
      /\ MAX_SIZE \in Nat \ {0} /\ q \in LwmsgqStruct /\ W = (R + n) % MAX_SIZE
      /\ n < MAX_SIZE
  BY RingFields DEF RingOK
<1>2. q' = [q EXCEPT !.MSGS = g, !.MSG_WRITE_LOC = Next_Loc(W), !.CURRENT_SIZE = n + 1]
  BY DEF PutMessage
<1>3. \A i \in 1 .. (MAX_SIZE + 1) :
         p(i) \in Slot /\ p(i) = IF R + i - 1 < MAX_SIZE THEN R + i - 1 ELSE R + i - 1 - MAX_SIZE
  BY <1>1, Place
<1> HIDE DEF p
<1>4. W = p(n + 1)
  BY <1>1 DEF p
<1>5. Next_Loc(W) = p(n + 2) /\ Next_Loc(W) \in Slot
  <2>1. p(n + 1) = IF R + n < MAX_SIZE THEN R + n ELSE R + n - MAX_SIZE
    BY <1>1, <1>3
  <2>2. p(n + 2) = (IF R + n + 1 < MAX_SIZE THEN R + n + 1 ELSE R + n + 1 - MAX_SIZE)
        /\ p(n + 2) \in Slot
    <3>1. PICK i \in 1 .. (MAX_SIZE + 1) : i = n + 2
      BY <1>1
    <3>2. p(i) \in Slot /\ p(i) = IF R + i - 1 < MAX_SIZE THEN R + i - 1 ELSE R + i - 1 - MAX_SIZE
      BY <1>3
    <3> HIDE DEF R, n
    <3> QED
      BY <1>1, <3>1, <3>2
  <2> HIDE DEF R, W, n
  <2>3. Next_Loc(W) = IF W + 1 >= MAX_SIZE THEN 0 ELSE W + 1
    BY DEF Next_Loc
  <2>4. CASE R + n < MAX_SIZE
    BY <1>1, <1>4, <2>1, <2>2, <2>3, <2>4
  <2>5. CASE R + n >= MAX_SIZE
    BY <1>1, <1>4, <2>1, <2>2, <2>3, <2>5
  <2> QED
    BY <1>1, <2>4, <2>5
<1>6. g \in [Slot -> Msg \cup {NULL}] /\ g[W] = m /\ \A s \in Slot \ {W} : g[s] = f[s]
  BY <1>1
<1>7. /\ q' \in LwmsgqStruct /\ q'.MSGS = g /\ q'.MSG_READ_LOC = R
      /\ q'.MSG_WRITE_LOC = Next_Loc(W) /\ q'.CURRENT_SIZE = n + 1
  <2> DEFINE l == Next_Loc(W)
  <2>1. g \in [Slot -> Msg \cup {NULL}] /\ l \in Slot /\ n + 1 \in 0 .. MAX_SIZE
    BY <1>1, <1>5, <1>6
  <2> HIDE DEF g, l
  <2> QED
    BY <1>1, <1>2, <2>1 DEF LwmsgqStruct, l
<1>8. RingOK(q')
  <2>1. p(n + 2) = (R + (n + 1)) % MAX_SIZE
    BY <1>1 DEF p
  <2> QED
    BY <1>5, <1>7, <2>1 DEF RingOK
<1>9. Buffer = [i \in 1 .. n |-> f[p(i)]] /\ Buffer' = [i \in 1 .. (n + 1) |-> g[p(i)]]
  BY <1>7 DEF Buffer, p
<1> HIDE DEF g, R, W, n, f
<1>10. \A i \in 1 .. n : g[p(i)] = f[p(i)]
  <2> SUFFICES ASSUME NEW i \in 1 .. n
               PROVE  p(i) # W /\ p(i) \in Slot
    BY <1>6
  <2>1. /\ p(i) \in Slot /\ p(i) = IF R + i - 1 < MAX_SIZE THEN R + i - 1 ELSE R + i - 1 - MAX_SIZE
    BY <1>1, <1>3
  <2>2. W = IF R + n < MAX_SIZE THEN R + n ELSE R + n - MAX_SIZE
    BY <1>1, <1>3, <1>4
  <2> QED
    BY <1>1, <2>1, <2>2 DEF n
<1>11. \A i \in 1 .. n : f[p(i)] \in Msg \cup {NULL}
  BY <1>1, <1>3
<1>12. [i \in 1 .. (n + 1) |-> g[p(i)]] = Append([i \in 1 .. n |-> f[p(i)]], m)
  <2> DEFINE A == [i \in 1 .. (n + 1) |-> g[p(i)]]
             B == [i \in 1 .. n |-> f[p(i)]]
  <2>1. B \in Seq(Msg \cup {NULL}) /\ Len(B) = n
    BY <1>1, <1>11
  <2>2. g[p(n + 1)] = m
    BY <1>4, <1>6
  <2>3. /\ Append(B, m) \in Seq(Msg \cup {NULL}) /\ Len(Append(B, m)) = n + 1
        /\ Append(B, m)[n + 1] = m /\ \A i \in 1 .. n : Append(B, m)[i] = B[i]
    <3> HIDE DEF B
    <3> QED
      BY <1>1, <2>1
  <2>4. A \in Seq(Msg \cup {NULL}) /\ Len(A) = n + 1
    BY <1>1, <1>10, <1>11, <2>2
  <2>5. \A i \in 1 .. (n + 1) : A[i] = Append(B, m)[i]
    BY <1>1, <1>10, <2>2, <2>3
  <2> HIDE DEF A, B
  <2> QED
    BY <2>3, <2>4, <2>5, SameSeq DEF A, B
<1>13. Len(Buffer) = n
  BY <1>1, <1>9
<1> QED
  BY <1>7, <1>8, <1>9, <1>12, <1>13 DEF n

\* The oldest message is taken off.
LEMMA TakeRing ==
    ASSUME RingOK(q), q.CURRENT_SIZE # 0,
           q' = [q EXCEPT !.MSG_READ_LOC = Next_Loc(@), !.CURRENT_SIZE = @ - 1]
    PROVE  /\ RingOK(q') /\ q'.CURRENT_SIZE = q.CURRENT_SIZE - 1
           /\ Buffer' = Tail(Buffer) /\ Buffer # <<>> /\ Head(Buffer) = q.MSGS[q.MSG_READ_LOC]
           /\ q.MSGS[q.MSG_READ_LOC] \in Msg \cup {NULL}
<1> DEFINE R == q.MSG_READ_LOC
           W == q.MSG_WRITE_LOC
           n == q.CURRENT_SIZE
           f == q.MSGS
           N == Next_Loc(R)
           p(i) == (R + i - 1) % MAX_SIZE
           s(i) == (N + i - 1) % MAX_SIZE
<1>1. /\ n \in 0 .. MAX_SIZE /\ R \in Slot /\ W \in Slot /\ f \in [Slot -> Msg \cup {NULL}]
      /\ n \in Nat /\ R \in Nat /\ W \in Nat /\ R < MAX_SIZE /\ W < MAX_SIZE
      /\ MAX_SIZE \in Nat \ {0} /\ q \in LwmsgqStruct /\ W = (R + n) % MAX_SIZE
      /\ n > 0
  BY RingFields DEF RingOK
<1>2. /\ N = (IF R + 1 >= MAX_SIZE THEN 0 ELSE R + 1)
      /\ N \in Slot /\ N \in Nat /\ N < MAX_SIZE
  BY <1>1 DEF Next_Loc, Slot
<1>3. /\ q' \in LwmsgqStruct /\ q'.MSGS = f /\ q'.MSG_READ_LOC = N
      /\ q'.MSG_WRITE_LOC = W /\ q'.CURRENT_SIZE = n - 1
  <2>1. q' = [q EXCEPT !.MSG_READ_LOC = N, !.CURRENT_SIZE = n - 1] /\ n - 1 \in 0 .. MAX_SIZE
    BY <1>1
  <2> HIDE DEF N
  <2> QED
    BY <1>1, <1>2, <2>1 DEF LwmsgqStruct
<1>4. \A i \in 1 .. (MAX_SIZE + 1) :
         p(i) \in Slot /\ p(i) = IF R + i - 1 < MAX_SIZE THEN R + i - 1 ELSE R + i - 1 - MAX_SIZE
  BY <1>1, Place
<1>5. \A i \in 1 .. (MAX_SIZE + 1) :
         s(i) \in Slot /\ s(i) = IF N + i - 1 < MAX_SIZE THEN N + i - 1 ELSE N + i - 1 - MAX_SIZE
  <2> SUFFICES ASSUME NEW i \in 1 .. (MAX_SIZE + 1)
               PROVE  s(i) \in Slot /\ s(i) = IF N + i - 1 < MAX_SIZE THEN N + i - 1
                                              ELSE N + i - 1 - MAX_SIZE
    OBVIOUS
  <2>1. N + i - 1 \in Nat /\ N + i - 1 < 2 * MAX_SIZE
    BY <1>1, <1>2
  <2> DEFINE l == N + i - 1
  <2> HIDE DEF l
  <2>2. l % MAX_SIZE \in Slot /\ l % MAX_SIZE = IF l < MAX_SIZE THEN l ELSE l - MAX_SIZE
    BY <2>1, Wraps DEF l
  <2>3. s(i) = l % MAX_SIZE
    BY DEF l
  <2> HIDE DEF s, N
  <2> QED
    BY <1>1, <1>2, <2>2, <2>3 DEF l
<1>6. p(1) = R /\ W = p(n + 1) /\ s(n) = (N + (n - 1)) % MAX_SIZE
  <2>1. W = p(n + 1) /\ s(n) = (N + (n - 1)) % MAX_SIZE
    BY <1>1, <1>2
  <2> HIDE DEF p, s
  <2>2. p(1) = R
    BY <1>1, <1>4
  <2> QED
    BY <2>1, <2>2
<1>7. Buffer = [i \in 1 .. n |-> f[p(i)]] /\ Buffer' = [i \in 1 .. (n - 1) |-> f[s(i)]]
  BY <1>3 DEF Buffer
<1> HIDE DEF p, s, N, R, W, n, f
<1>8. \A i \in 1 .. MAX_SIZE : s(i) = p(i + 1)
  <2> SUFFICES ASSUME NEW i \in 1 .. MAX_SIZE
               PROVE  s(i) = p(i + 1)
    OBVIOUS
  <2>1. PICK j \in 1 .. (MAX_SIZE + 1) : j = i + 1
    BY <1>1
  <2>2. p(j) = IF R + j - 1 < MAX_SIZE THEN R + j - 1 ELSE R + j - 1 - MAX_SIZE
    BY <1>4
  <2>3. s(i) = IF N + i - 1 < MAX_SIZE THEN N + i - 1 ELSE N + i - 1 - MAX_SIZE
    BY <1>1, <1>5
  <2>4. p(j) = s(i)
    <3>1. CASE R + 1 >= MAX_SIZE
      BY <1>1, <1>2, <2>1, <2>2, <2>3, <3>1
    <3>2. CASE R + 1 < MAX_SIZE
      BY <1>1, <1>2, <2>1, <2>2, <2>3, <3>2
    <3> QED
      BY <1>1, <3>1, <3>2
  <2> QED
    BY <2>1, <2>4
<1>9. RingOK(q')
  <2>1. W = (N + (n - 1)) % MAX_SIZE
    BY <1>1, <1>6, <1>8
  <2> QED
    BY <1>3, <2>1 DEF RingOK
<1> DEFINE A == [i \in 1 .. (n - 1) |-> f[s(i)]]
           B == [i \in 1 .. n |-> f[p(i)]]
<1>10. /\ B \in Seq(Msg \cup {NULL}) /\ Len(B) = n /\ B # <<>> /\ B[1] = f[R]
       /\ A \in Seq(Msg \cup {NULL}) /\ Len(A) = n - 1
  <2>1. \A i \in 1 .. n : f[p(i)] \in Msg \cup {NULL}
    BY <1>1, <1>4
  <2>2. \A i \in 1 .. (n - 1) : f[s(i)] \in Msg \cup {NULL}
    BY <1>1, <1>5
  <2>3. B \in Seq(Msg \cup {NULL}) /\ Len(B) = n /\ B[1] = f[R]
    BY <1>1, <1>6, <2>1
  <2>4. A \in Seq(Msg \cup {NULL}) /\ Len(A) = n - 1
    BY <1>1, <2>2
  <2> HIDE DEF A, B
  <2> QED
    BY <1>1, <2>3, <2>4
<1>11. \A i \in 1 .. (n - 1) : A[i] = B[i + 1]
  BY <1>1, <1>8
<1> HIDE DEF A, B
<1>12. /\ Tail(B) \in Seq(Msg \cup {NULL}) /\ Len(Tail(B)) = n - 1 /\ Head(B) = B[1]
       /\ \A i \in 1 .. (n - 1) : Tail(B)[i] = B[i + 1]
  BY <1>1, <1>10
<1>13. A = Tail(B)
  BY <1>1, <1>10, <1>11, <1>12, SameSeq
<1>14. f[R] \in Msg \cup {NULL}
  BY <1>1
<1> QED
  BY <1>3, <1>7, <1>9, <1>10, <1>12, <1>13, <1>14 DEF A, B, f, R, n

\* The queue is set up anew, or its VALID is changed.
LEMMA SetRing ==
    ASSUME RingOK(q), NEW b \in BOOLEAN
    PROVE  LET r == [q EXCEPT !.VALID = TRUE, !.CURRENT_SIZE = 0,
                              !.MSG_READ_LOC = 0, !.MSG_WRITE_LOC = 0]
               s == [q EXCEPT !.VALID = b]
           IN  /\ RingOK(r) /\ r.CURRENT_SIZE = 0
               /\ RingOK(s) /\ s.CURRENT_SIZE = q.CURRENT_SIZE
               /\ s.MSGS = q.MSGS /\ s.MSG_READ_LOC = q.MSG_READ_LOC
<1>1. q \in LwmsgqStruct /\ 0 \in Slot /\ 0 \in 0 .. MAX_SIZE /\ 0 % MAX_SIZE = 0
  <2>1. MAX_SIZE \in Nat \ {0} /\ 0 \in Nat /\ 0 < 2 * MAX_SIZE
    BY LwmsgqAssumption
  <2>2. 0 % MAX_SIZE = 0
    BY <2>1, Wraps
  <2> QED
    BY <2>1, <2>2 DEF RingOK, Slot
<1> DEFINE r == [q EXCEPT !.VALID = TRUE, !.CURRENT_SIZE = 0,
                          !.MSG_READ_LOC = 0, !.MSG_WRITE_LOC = 0]
           s == [q EXCEPT !.VALID = b]
<1>2. /\ r \in LwmsgqStruct /\ r.CURRENT_SIZE = 0 /\ r.MSG_READ_LOC = 0 /\ r.MSG_WRITE_LOC = 0
      /\ s \in LwmsgqStruct /\ s.CURRENT_SIZE = q.CURRENT_SIZE /\ s.MSGS = q.MSGS
      /\ s.MSG_READ_LOC = q.MSG_READ_LOC /\ s.MSG_WRITE_LOC = q.MSG_WRITE_LOC
  BY <1>1 DEF LwmsgqStruct
<1> HIDE DEF r, s
<1>3. RingOK(r) /\ RingOK(s)
  BY <1>1, <1>2 DEF RingOK
<1> QED
  BY <1>2, <1>3 DEF r, s

(***************************************************************************)
(* One lemma per action.                                                    *)
(***************************************************************************)
\* What there is to show of a step.
LEMMA SettledInv ==
    ASSUME Settled(k', call', q'.CURRENT_SIZE, MAX_SIZE - q'.CURRENT_SIZE),
           call' \in [Task -> Calls], RingOK(q'), LWMSGQS' \in BOOLEAN,
           got' \in [Task -> Msg \cup {NULL}], inits' \in Nat
    PROVE  Inv'
<1>1. PICK v : /\ Shadow(k', v) /\ Consistent(v) /\ Fits(v, call')
               /\ NoneLeft(v, call', q'.CURRENT_SIZE, MAX_SIZE - q'.CURRENT_SIZE)
  BY DEF Settled
<1> QED
  BY <1>1, StepInv

\* WakeReader makes room for one more message to be known of.
LEMMA WakesReader ==
    ASSUME NEW d, NEW n \in Int, NEW m \in Int, Midway(k, td, d, n, m)
    PROVE  Midway(WakeReader, td, d, n + 1, m)
<1>1. WAITING_READERS \in {WAITING_READERS, WAITING_WRITERS} /\ n + 1 \in Int
  OBVIOUS
<1>2. CASE k.QUEUE[WAITING_READERS] = <<>>
  <2>1. WakeReader = k
    BY <1>2 DEF WakeReader
  <2>2. Midway(k, td, d, n + 1, m)
    BY <1>1, <1>2, Weaken
  <2> QED
    BY <2>1, <2>2
<1>3. CASE k.QUEUE[WAITING_READERS] # <<>>
  <2>1. WakeReader = HandedOver(k, WAITING_READERS, NULL)
    BY <1>3 DEF WakeReader, HandedOver
  <2>2. Midway(HandedOver(k, WAITING_READERS, NULL), td, d, n + 1, m)
    BY <1>1, <1>3, Wakes
  <2> QED
    BY <2>1, <2>2
<1> QED
  BY <1>2, <1>3

\* A task has put its message in.
LEMMA Puts ==
    ASSUME Inv, td # Idle, call[td].at \in {"none", "send"}, NEW b \in BOOLEAN
    PROVE  LET e == [call EXCEPT ![td] = NoCall]
               n == q.CURRENT_SIZE + 1
           IN  e \in [Task -> Calls] /\ Settled(AfterSend(b), e, n, MAX_SIZE - n)
<1> DEFINE e == [call EXCEPT ![td] = NoCall]
           s == q.CURRENT_SIZE
           n == s + 1
<1>1. /\ Midway(k, td, call, s, MAX_SIZE - s) /\ call \in [Task -> Calls]
      /\ s \in Int /\ MAX_SIZE - s \in Int /\ n \in Int /\ (MAX_SIZE - s) - 1 = MAX_SIZE - n
  BY Starts
<1>2. e \in [Task -> Calls] /\ e[td].at = "none" /\ Midway(k, td, e, s, (MAX_SIZE - s) - 1)
  BY <1>1, Leaves
<1> HIDE DEF e
<1>3. Midway(WakeReader, td, e, n, MAX_SIZE - n)
  BY <1>1, <1>2, WakesReader
<1>4. Settled(AfterSend(b), e, n, MAX_SIZE - n)
  <2>1. CASE b
    <3>1. AfterSend(b) = TaskBlock(WakeReader)
      BY <2>1 DEF AfterSend
    <3> QED
      BY <1>2, <1>3, <3>1, Ends
  <2>2. CASE ~b /\ k.QUEUE[WAITING_READERS] = <<>>
    <3>1. WakeReader = k /\ AfterSend(b) = k
      BY <2>2 DEF WakeReader, AfterSend
    <3> QED
      BY <1>3, <3>1, Stays
  <2>3. CASE ~b /\ k.QUEUE[WAITING_READERS] # <<>>
    <3>1. AfterSend(b) = CHECK_RUN_SCHEDULER(WakeReader)
      BY <2>3 DEF AfterSend
    <3> QED
      BY <1>3, <3>1, Ends
  <2> QED
    BY <2>1, <2>2, <2>3
<1> QED
  BY <1>2, <1>4 DEF e

\* A task has taken a message out.
LEMMA Takes ==
    ASSUME Inv, call[td].at \in {"none", "receive"}
    PROVE  LET e == [call EXCEPT ![td] = NoCall]
               n == q.CURRENT_SIZE - 1
           IN  e \in [Task -> Calls] /\ Settled(WakeWriter, e, n, MAX_SIZE - n)
<1> DEFINE e == [call EXCEPT ![td] = NoCall]
           s == q.CURRENT_SIZE
           n == s - 1
           o == WAITING_WRITERS
<1>1. /\ Midway(k, td, call, s, MAX_SIZE - s) /\ call \in [Task -> Calls]
      /\ s \in Int /\ MAX_SIZE - s \in Int /\ n \in Int /\ (MAX_SIZE - s) + 1 = MAX_SIZE - n
      /\ MAX_SIZE - n \in Int
  BY Starts
<1>2. e \in [Task -> Calls] /\ Midway(k, td, e, n, MAX_SIZE - s)
  BY <1>1, Leaves
<1> HIDE DEF e
<1>3. o \in {WAITING_READERS, WAITING_WRITERS} /\ o # WAITING_READERS
  BY Queues
<1>4. CASE k.QUEUE[o] = <<>>
  <2>1. WakeWriter = k
    BY <1>4 DEF WakeWriter
  <2>2. Midway(k, td, e, n, MAX_SIZE - n)
    BY <1>1, <1>2, <1>4, Weaken
  <2> QED
    BY <1>2, <2>1, <2>2, Stays DEF e
<1>5. CASE k.QUEUE[o] # <<>>
  <2>1. /\ Midway(HandedOver(k, o, NULL), td, e, IF o = WAITING_READERS THEN n + 1 ELSE n,
                  IF o = WAITING_READERS THEN MAX_SIZE - s ELSE (MAX_SIZE - s) + 1)
        /\ TASK_READY([k EXCEPT !.QUEUE[o] = Tail(@), !.INFO[Head(k.QUEUE[o])] = NULL],
                      Head(k.QUEUE[o])) = HandedOver(k, o, NULL)
    BY <1>1, <1>2, <1>3, <1>5, Wakes
  <2>2. Midway(HandedOver(k, o, NULL), td, e, n, MAX_SIZE - n)
    BY <1>1, <1>3, <2>1
  <2>3. WakeWriter = CHECK_RUN_SCHEDULER(HandedOver(k, o, NULL))
    BY <1>5, <2>1 DEF WakeWriter
  <2> QED
    BY <1>2, <2>2, <2>3, Ends DEF e
<1> QED
  BY <1>4, <1>5

\* The variables that the kernel does not depend on.
LEMMA Held ==
    ASSUME Inv
    PROVE  /\ RingOK(q) /\ LWMSGQS \in BOOLEAN /\ got \in [Task -> Msg \cup {NULL}]
           /\ inits \in Nat /\ call \in [Task -> Calls] /\ k \in Kernel
           /\ q.CURRENT_SIZE \in 0 .. MAX_SIZE /\ MAX_SIZE \in Nat \ {0} /\ td \in Task
<1>1. k \in Kernel
  BY ShadowIs DEF Inv
<1> QED
  BY <1>1, Starts DEF Inv

\* _lwmsgq_init: nobody waits on the memory that it sets up.
LEMMA InitFieldsStep ==
    ASSUME Inv, InitFields
    PROVE  Inv'
<1> DEFINE e == [call EXCEPT ![td].at = "init"]
<1>1. /\ RingOK(q) /\ LWMSGQS \in BOOLEAN /\ got \in [Task -> Msg \cup {NULL}]
      /\ inits \in Nat /\ call \in [Task -> Calls] /\ k \in Kernel /\ td \in Task
  BY Held
<1>2. /\ td # Idle /\ call[td] = NoCall /\ call' = e /\ inits' \in Nat
      /\ LWMSGQS' = LWMSGQS /\ got' = got
      /\ k.QUEUE[WAITING_WRITERS] = <<>> /\ k.QUEUE[WAITING_READERS] = <<>>
  BY <1>1 DEF InitFields, Free
<1>3. k' = k
  <2>1. k.QUEUE \in [Queue -> Seq(Task)]
    BY <1>1, KernelFields
  <2> DEFINE Q == k.QUEUE
             W == [Q EXCEPT ![WAITING_WRITERS] = <<>>, ![WAITING_READERS] = <<>>]
  <2>2. W = Q
    <3> HIDE DEF Q
    <3>1. Q \in [Queue -> Seq(Task)] /\ Q[WAITING_WRITERS] = <<>> /\ Q[WAITING_READERS] = <<>>
      BY <1>2, <2>1 DEF Q
    <3>2. \A o \in Queue : W[o] = Q[o]
      BY <3>1, Queues
    <3>3. W = [o \in Queue |-> W[o]] /\ Q = [o \in Queue |-> Q[o]]
      BY <3>1
    <3> QED
      BY <3>2, <3>3
  <2>3. k' = [k EXCEPT !.QUEUE = W]
    BY DEF InitFields
  <2>4. k' = [k EXCEPT !.QUEUE = k.QUEUE]
    <3> HIDE DEF W
    <3> QED
      BY <2>2, <2>3
  <2> QED
    BY <1>1, <2>4 DEF Kernel
<1>4. RingOK(q') /\ q'.CURRENT_SIZE = 0
  BY <1>1, SetRing DEF InitFields
<1>5. PICK c : Shadow(k, c) /\ Unscheduled(c) /\ Fits(c, call) /\ c.ACTIVE_PTR = td /\ k.QUEUE = c.QUEUE
  BY Facts DEF td
<1>6. /\ e \in [Task -> Calls] /\ \A t \in Task \ {td} : e[t] = call[t]
      /\ e[td].at = "init" /\ e[td].msg = NULL
  <2>1. PICK y \in Calls : y = call[td]
    BY <1>1
  <2>2. y.msg = NULL
    BY <1>2, <2>1 DEF NoCall
  <2> DEFINE z == [y EXCEPT !.at = "init"]
  <2>3. z \in Calls /\ z.at = "init" /\ z.msg = y.msg
    BY DEF Calls
  <2>4. e = [call EXCEPT ![td] = z]
    BY <2>1
  <2> HIDE DEF e, z
  <2> QED
    BY <1>1, <2>2, <2>3, <2>4
<1> HIDE DEF e
<1>7. Fits(c, e)
  <2> SUFFICES ASSUME NEW t \in Task
               PROVE  CallFits(c, e, t)
    BY DEF Fits
  <2>1. CallFits(c, call, t)
    BY <1>5 DEF Fits
  <2>2. CASE t = td
    <3>1. call[td].at = "none"
      BY <1>2 DEF NoCall
    <3> QED
      BY <1>2, <1>6, <2>1, <2>2, <3>1 DEF CallFits
  <2>3. CASE t # td
    BY <1>6, <2>1, <2>3 DEF CallFits
  <2> QED
    BY <2>2, <2>3
<1>8. Midway(k, td, e, 0, MAX_SIZE - 0)
  BY <1>2, <1>5, <1>7 DEF Midway, NoneLeft
<1>9. Settled(k, e, 0, MAX_SIZE - 0)
  BY <1>8, Stays
<1> QED
  BY <1>1, <1>2, <1>3, <1>4, <1>6, <1>9, SettledInv

\* _lwmsgq_init, its end.
LEMMA LwmsgqInitStep ==
    ASSUME Inv, lwmsgq_init
    PROVE  Inv'
<1>1. /\ RingOK(q) /\ LWMSGQS \in BOOLEAN /\ got \in [Task -> Msg \cup {NULL}]
      /\ inits \in Nat /\ call \in [Task -> Calls]
  BY Held
<1> DEFINE e == [call EXCEPT ![td] = NoCall]
           n == q.CURRENT_SIZE
           m == MAX_SIZE - n
<1>2. /\ call[td].at = "init" /\ call' = e /\ LWMSGQS' = TRUE /\ k' = k /\ q' = q
      /\ got' = got /\ inits' = inits
  BY DEF lwmsgq_init, GoOn, Leave
<1>3. Midway(k, td, call, n, m) /\ n \in Int /\ m \in Int
  BY Starts
<1>4. e \in [Task -> Calls] /\ Midway(k, td, e, n, m)
  BY <1>1, <1>2, <1>3, Leaves
<1>5. Settled(k, e, n, m)
  BY <1>4, Stays
<1> QED
  BY <1>1, <1>2, <1>4, <1>5, SettledInv

\* _lwmsgq_deinit
LEMMA LwmsgqDeinitStep ==
    ASSUME Inv, lwmsgq_deinit
    PROVE  Inv'
<1>1. /\ RingOK(q) /\ LWMSGQS \in BOOLEAN /\ got \in [Task -> Msg \cup {NULL}]
      /\ inits \in Nat /\ call \in [Task -> Calls]
  BY Held
<1>2. /\ call' = call /\ LWMSGQS' = FALSE /\ k' = CHECK_RUN_SCHEDULER(Deinit)
      /\ q' = [q EXCEPT !.VALID = FALSE] /\ got' = got /\ inits' = inits
  BY DEF lwmsgq_deinit
<1>3. RingOK(q') /\ q'.CURRENT_SIZE = q.CURRENT_SIZE
  BY <1>1, <1>2, SetRing
<1>4. Settled(CHECK_RUN_SCHEDULER(Deinit), call, q.CURRENT_SIZE, MAX_SIZE - q.CURRENT_SIZE)
  BY Deinits
<1> QED
  BY <1>1, <1>2, <1>3, <1>4, SettledInv

\* The two ways into TakeMessage.
LEMMA TakeStep ==
    ASSUME Inv, call[td].at \in {"none", "receive"}, ~IS_EMPTY, TakeMessage,
           call' = [call EXCEPT ![td] = NoCall], UNCHANGED <<LWMSGQS, inits>>
    PROVE  Inv'
<1>1. /\ RingOK(q) /\ LWMSGQS \in BOOLEAN /\ got \in [Task -> Msg \cup {NULL}]
      /\ inits \in Nat /\ q.CURRENT_SIZE # 0
  BY Held DEF IS_EMPTY
<1>2. /\ got' = [got EXCEPT ![td] = q.MSGS[q.MSG_READ_LOC]] /\ k' = WakeWriter
      /\ q' = [q EXCEPT !.MSG_READ_LOC = Next_Loc(@), !.CURRENT_SIZE = @ - 1]
  BY DEF TakeMessage
<1>3. /\ RingOK(q') /\ q'.CURRENT_SIZE = q.CURRENT_SIZE - 1
      /\ q.MSGS[q.MSG_READ_LOC] \in Msg \cup {NULL}
  BY <1>1, <1>2, TakeRing
<1>4. got' \in [Task -> Msg \cup {NULL}]
  BY <1>1, <1>2, <1>3
<1>5. call' \in [Task -> Calls] /\ Settled(k', call', q'.CURRENT_SIZE, MAX_SIZE - q'.CURRENT_SIZE)
  BY <1>2, <1>3, Takes
<1> QED
  BY <1>1, <1>3, <1>4, <1>5, SettledInv

\* The two ways into PutMessage by a task.
LEMMA PutStep ==
    ASSUME Inv, td # Idle, call[td].at \in {"none", "send"}, ~IS_FULL,
           NEW m \in Msg, PutMessage(m), NEW b \in BOOLEAN, k' = AfterSend(b),
           call' = [call EXCEPT ![td] = NoCall], UNCHANGED <<LWMSGQS, got, inits>>
    PROVE  Inv'
<1>1. /\ RingOK(q) /\ LWMSGQS \in BOOLEAN /\ got \in [Task -> Msg \cup {NULL}]
      /\ inits \in Nat /\ q.CURRENT_SIZE < MAX_SIZE
  BY Held DEF IS_FULL
<1>2. RingOK(q') /\ q'.CURRENT_SIZE = q.CURRENT_SIZE + 1
  BY <1>1, PutRing
<1>3. call' \in [Task -> Calls] /\ Settled(k', call', q'.CURRENT_SIZE, MAX_SIZE - q'.CURRENT_SIZE)
  BY <1>2, Puts
<1> QED
  BY <1>1, <1>2, <1>3, SettledInv

\* The two calls that end without a message.
LEMMA FailStep ==
    ASSUME Inv, k.INFO[td] # NULL, call' = [call EXCEPT ![td] = NoCall],
           UNCHANGED <<k, q, LWMSGQS, got, inits>>
    PROVE  Inv'
<1>1. /\ RingOK(q) /\ LWMSGQS \in BOOLEAN /\ got \in [Task -> Msg \cup {NULL}]
      /\ inits \in Nat /\ call \in [Task -> Calls]
  BY Held
<1> DEFINE n == q.CURRENT_SIZE
           m == MAX_SIZE - n
<1>2. Midway(k, td, call, n, m) /\ n \in Int /\ m \in Int
  BY Starts
<1>3. call' \in [Task -> Calls] /\ Midway(k, td, call', n, m)
  BY <1>1, <1>2, Leaves
<1>4. Settled(k, call', n, m)
  BY <1>3, Stays
<1> QED
  BY <1>1, <1>3, <1>4, SettledInv

\* The call of a receiver that blocks.
LEMMA ReceiveCall ==
    ASSUME NEW timeout \in {"none", "for", "until"}, NEW n \in 0 .. MaxDelay
    PROVE  LET r == [NoCall EXCEPT !.at = "receive", !.timeout = timeout,
                                   !.ticks = n, !.left = n]
           IN  r \in Calls /\ r.at = "receive" /\ r.msg = NULL
<1>1. PICK y : y = NoCall
  OBVIOUS
<1>2. y \in Calls /\ y.msg = NULL
  BY <1>1, LwmsgqAssumption DEF NoCall, Calls
<1>3. n \in -1 .. MaxDelay
  BY LwmsgqAssumption
<1>4. LET r == [y EXCEPT !.at = "receive", !.timeout = timeout, !.ticks = n, !.left = n]
      IN  r \in Calls /\ r.at = "receive" /\ r.msg = NULL
  BY <1>2, <1>3 DEF Calls
<1> QED
  BY <1>1, <1>4

\* The call of a sender that blocks.
LEMMA SendCall ==
    ASSUME NEW m \in Msg, NEW b \in BOOLEAN
    PROVE  LET s == [NoCall EXCEPT !.at = "send", !.msg = m, !.block_on_send = b]
           IN  s \in Calls /\ s.at = "send" /\ s.msg = m
<1>1. PICK y : y = NoCall
  OBVIOUS
<1>2. y \in Calls
  BY <1>1, LwmsgqAssumption DEF NoCall, Calls
<1>3. LET s == [y EXCEPT !.at = "send", !.msg = m, !.block_on_send = b]
      IN  s \in Calls /\ s.at = "send" /\ s.msg = m
  BY <1>2 DEF Calls
<1> QED
  BY <1>1, <1>3

\* The constants that calls are made with.
LEMMA Arguments ==
    /\ \A w \in ReceiveTimeouts : w[1] \in {"none", "for", "until"} /\ w[2] \in 0 .. MaxDelay
    /\ \A f \in SendFlags : f[1] \in BOOLEAN /\ f[2] \in BOOLEAN
    /\ MaxDelay \in Nat /\ NULL \notin Msg /\ IsrMsg \subseteq Msg
BY LwmsgqAssumption

\* _lwmsgq_receive
LEMMA ReceiveStep ==
    ASSUME Inv, NEW w \in ReceiveTimeouts, lwmsgq_receive(w[1], w[2])
    PROVE  Inv'
<1> DEFINE y == [NoCall EXCEPT !.at = "receive", !.timeout = w[1], !.ticks = w[2], !.left = w[2]]
<1>1. /\ RingOK(q) /\ LWMSGQS \in BOOLEAN /\ got \in [Task -> Msg \cup {NULL}]
      /\ inits \in Nat /\ call \in [Task -> Calls] /\ td \in Task
  BY Held
<1>2. td # Idle /\ call[td] = NoCall /\ call[td].at = "none" /\ UNCHANGED <<LWMSGQS, inits>>
  BY DEF lwmsgq_receive, Free, NoCall
<1>3. CASE IS_EMPTY
  <2>1. /\ k' = ReadBlock(w[1], w[2]) /\ call' = [call EXCEPT ![td] = y] /\ UNCHANGED <<q, got>>
        /\ q.CURRENT_SIZE = 0
    BY <1>3 DEF lwmsgq_receive, IS_EMPTY
  <2>2. y \in Calls /\ y.at = "receive" /\ y.msg = NULL /\ w[2] \in Int
    <3>1. w[1] \in {"none", "for", "until"} /\ w[2] \in 0 .. MaxDelay /\ w[2] \in Int
      BY Arguments
    <3> QED
      BY <3>1, ReceiveCall, ZenonT(30)
  <2> HIDE DEF y
  <2>3. /\ call' \in [Task -> Calls] /\ \A t \in Task \ {td} : call'[t] = call[t]
        /\ call'[td].at = "receive" /\ call'[td].msg = NULL
    BY <1>1, <2>1, <2>2
  <2>4. Settled(k', call', q.CURRENT_SIZE, MAX_SIZE - q.CURRENT_SIZE)
    BY <1>2, <2>1, <2>2, <2>3, ReadBlocks
  <2> QED
    BY <1>1, <1>2, <2>1, <2>3, <2>4, SettledInv
<1>4. CASE ~IS_EMPTY
  <2>1. TakeMessage /\ call' = call
    BY <1>4 DEF lwmsgq_receive
  <2>2. call' = [call EXCEPT ![td] = NoCall]
    BY <1>1, <1>2, <2>1
  <2> QED
    BY <1>2, <1>4, <2>1, <2>2, TakeStep
<1> QED
  BY <1>3, <1>4

\* _lwmsgq_receive, switched in again.
LEMMA ReceiveResumeStep ==
    ASSUME Inv, ReceiveResume
    PROVE  Inv'
<1>1. /\ RingOK(q) /\ LWMSGQS \in BOOLEAN /\ got \in [Task -> Msg \cup {NULL}]
      /\ inits \in Nat /\ call \in [Task -> Calls] /\ td \in Task
  BY Held
<1>2. call[td].at = "receive" /\ UNCHANGED <<LWMSGQS, inits>> /\ td # Idle
  BY Starts DEF ReceiveResume, GoOn
<1>3. CASE ReceiveFails /\ Leave /\ UNCHANGED <<k, q, got>>
  <2>1. k.INFO[td] # NULL
    BY <1>3, Queues DEF ReceiveFails
  <2> QED
    BY <1>2, <1>3, <2>1, FailStep DEF Leave
<1>4. CASE ~IS_EMPTY /\ TakeMessage /\ Leave
  BY <1>2, <1>4, TakeStep DEF Leave
<1>5. CASE /\ IS_EMPTY
           /\ k' = ReadBlock(call[td].timeout, IF call[td].timeout = "until"
                                               THEN call[td].left ELSE call[td].ticks)
           /\ UNCHANGED <<q, call, got>>
  <2>1. PICK n \in Int : n = IF call[td].timeout = "until" THEN call[td].left ELSE call[td].ticks
    BY <1>1, LwmsgqAssumption DEF Calls
  <2>2. call[td].msg = NULL /\ q.CURRENT_SIZE = 0
    <3>1. PICK c : Fits(c, call)
      BY Facts
    <3> QED
      BY <1>1, <1>2, <1>5, <3>1 DEF Fits, CallFits, IS_EMPTY
  <2>3. Settled(ReadBlock(call[td].timeout, n), call, q.CURRENT_SIZE, MAX_SIZE - q.CURRENT_SIZE)
    BY <1>1, <1>2, <2>2, ReadBlocks
  <2> QED
    BY <1>1, <1>2, <1>5, <2>1, <2>3, SettledInv
<1> QED
  BY <1>3, <1>4, <1>5 DEF ReceiveResume

\* _lwmsgq_send
LEMMA SendStep ==
    ASSUME Inv, NEW m \in Msg, NEW f \in SendFlags, lwmsgq_send(m, f[1], f[2])
    PROVE  Inv'
<1> DEFINE y == [NoCall EXCEPT !.at = "send", !.msg = m, !.block_on_send = f[2]]
<1>1. /\ RingOK(q) /\ LWMSGQS \in BOOLEAN /\ got \in [Task -> Msg \cup {NULL}]
      /\ inits \in Nat /\ call \in [Task -> Calls] /\ td \in Task
  BY Held
<1>2. /\ td # Idle /\ call[td] = NoCall /\ call[td].at = "none"
      /\ UNCHANGED <<LWMSGQS, got, inits>> /\ f[2] \in BOOLEAN
  BY Arguments DEF lwmsgq_send, Free, NoCall
<1>3. CASE IS_FULL
  <2>1. /\ k' = WriteBlock([k EXCEPT !.TD_STATE[td] = "LWMSGQ_WRITE_BLOCKED"])
        /\ call' = [call EXCEPT ![td] = y] /\ q' = q /\ q.CURRENT_SIZE >= MAX_SIZE
    BY <1>3 DEF lwmsgq_send, IS_FULL
  <2>2. y \in Calls /\ y.at = "send" /\ y.msg # NULL
    <3>1. PICK b \in BOOLEAN : b = f[2]
      BY <1>2
    <3>2. [NoCall EXCEPT !.at = "send", !.msg = m, !.block_on_send = b] = y
      BY <3>1
    <3>3. NULL \notin Msg
      BY Arguments
    <3> HIDE DEF y
    <3> QED
      BY <3>2, <3>3, SendCall
  <2> HIDE DEF y
  <2>3. /\ call' \in [Task -> Calls] /\ \A t \in Task \ {td} : call'[t] = call[t]
        /\ call'[td].at = "send" /\ call'[td].msg # NULL
    BY <1>1, <2>1, <2>2
  <2>4. Settled(k', call', q.CURRENT_SIZE, MAX_SIZE - q.CURRENT_SIZE)
    BY <1>2, <2>1, <2>3, WriteBlocks
  <2> QED
    BY <1>1, <1>2, <2>1, <2>3, <2>4, SettledInv
<1>4. CASE ~IS_FULL
  <2>1. PutMessage(m) /\ k' = AfterSend(f[2]) /\ call' = call
    BY <1>4 DEF lwmsgq_send
  <2>2. call' = [call EXCEPT ![td] = NoCall]
    BY <1>1, <1>2, <2>1
  <2> QED
    BY <1>2, <1>4, <2>1, <2>2, PutStep
<1> QED
  BY <1>3, <1>4

\* _lwmsgq_send, switched in again.
LEMMA SendResumeStep ==
    ASSUME Inv, SendResume
    PROVE  Inv'
<1>1. /\ RingOK(q) /\ LWMSGQS \in BOOLEAN /\ got \in [Task -> Msg \cup {NULL}]
      /\ inits \in Nat /\ call \in [Task -> Calls] /\ td \in Task
  BY Held
<1>2. call[td].at = "send" /\ UNCHANGED <<LWMSGQS, got, inits>> /\ td # Idle
  BY Starts DEF SendResume, GoOn
<1>3. call[td].msg \in Msg /\ call[td].msg # NULL /\ call[td].block_on_send \in BOOLEAN
  <2>1. PICK c : Fits(c, call)
    BY Facts
  <2>2. call[td].msg # NULL
    BY <1>1, <1>2, <2>1 DEF Fits, CallFits
  <2>3. PICK y \in Calls : y = call[td]
    BY <1>1
  <2>4. y.msg \in Msg \cup {NULL} /\ y.block_on_send \in BOOLEAN
    BY DEF Calls
  <2> QED
    BY <2>2, <2>3, <2>4
<1>4. CASE k.INFO[td] = LWMSGQ_DEINIT_INFO /\ Leave /\ UNCHANGED <<k, q>>
  <2>1. k.INFO[td] # NULL
    BY <1>4, Queues
  <2> QED
    BY <1>2, <1>4, <2>1, FailStep DEF Leave
<1>5. CASE IS_FULL /\ k' = WriteBlock(k) /\ UNCHANGED <<q, call>>
  <2>1. q.CURRENT_SIZE >= MAX_SIZE
    BY <1>5 DEF IS_FULL
  <2>2. Settled(WriteBlock(k), call, q.CURRENT_SIZE, MAX_SIZE - q.CURRENT_SIZE)
    BY <1>1, <1>2, <1>3, <2>1, WriteBlocks
  <2> QED
    BY <1>1, <1>2, <1>5, <2>2, SettledInv
<1>6. CASE ~IS_FULL /\ PutMessage(call[td].msg) /\ k' = AfterSend(call[td].block_on_send) /\ Leave
  <2>1. PICK m \in Msg, b \in BOOLEAN : m = call[td].msg /\ b = call[td].block_on_send
    BY <1>3
  <2>2. PutMessage(m) /\ k' = AfterSend(b)
    BY <1>6, <2>1
  <2> QED
    BY <1>2, <1>6, <2>2, PutStep DEF Leave
<1> QED
  BY <1>4, <1>5, <1>6 DEF SendResume

\* An interrupt handler sends: the active task's call is not its business.
LEMMA IsrSendStep ==
    ASSUME Inv, NEW m \in Msg, IsrSend(m)
    PROVE  Inv'
<1> DEFINE s == q.CURRENT_SIZE
           n == s + 1
<1>1. /\ RingOK(q) /\ LWMSGQS \in BOOLEAN /\ got \in [Task -> Msg \cup {NULL}]
      /\ inits \in Nat /\ call \in [Task -> Calls]
  BY Held
<1>2. /\ PutMessage(m) /\ k' = IsrReturn(WakeReader) /\ UNCHANGED <<LWMSGQS, call, got, inits>>
      /\ ~(s >= MAX_SIZE)
  BY DEF IsrSend, IS_FULL
<1>3. /\ Midway(k, td, call, s, MAX_SIZE - s) /\ s \in Int /\ MAX_SIZE - s \in Int
      /\ n \in Int /\ MAX_SIZE - n \in Int /\ MAX_SIZE - n <= MAX_SIZE - s /\ s < MAX_SIZE
      /\ s <= s
  BY <1>2, Starts
<1>4. Midway(k, td, call, s, MAX_SIZE - n)
  BY <1>3, Weaken
<1>5. Midway(WakeReader, td, call, n, MAX_SIZE - n)
  BY <1>3, <1>4, WakesReader
<1>6. Settled(IsrReturn(WakeReader), call, n, MAX_SIZE - n)
  BY <1>5, Ends
<1>7. RingOK(q') /\ q'.CURRENT_SIZE = n
  BY <1>1, <1>2, <1>3, PutRing
<1> QED
  BY <1>1, <1>2, <1>6, <1>7, SettledInv

\* A tick counts the time to the timeouts down.
LEMMA TickCalls ==
    ASSUME Inv, Tick
    PROVE  /\ call' \in [Task -> Calls]
           /\ \A t \in Task : /\ call'[t].at = call[t].at /\ call'[t].msg = call[t].msg
                              /\ call[t] = NoCall => call'[t] = NoCall
<1>1. call \in [Task -> Calls] /\ MaxDelay \in Nat
  BY Held, Arguments
<1> DEFINE L(t) == IF call[t].timeout # "none" /\ call[t].left >= 0
                   THEN call[t].left - 1 ELSE call[t].left
           e == [t \in Task |-> [call[t] EXCEPT !.left = L(t)]]
<1>2. call' = e
  BY DEF Tick
<1>3. ASSUME NEW t \in Task
      PROVE  /\ e[t] \in Calls /\ e[t].at = call[t].at /\ e[t].msg = call[t].msg
             /\ call[t] = NoCall => e[t] = NoCall
  <2>1. PICK y \in Calls : y = call[t]
    BY <1>1
  <2>2. y.left \in -1 .. MaxDelay
    BY DEF Calls
  <2>3. L(t) \in -1 .. MaxDelay
    BY <1>1, <2>1, <2>2
  <2>4. call[t] = NoCall => L(t) = y.left
    BY <2>1 DEF NoCall
  <2>5. PICK l \in -1 .. MaxDelay : l = L(t)
    BY <2>3
  <2>6. e[t] = [y EXCEPT !.left = l]
    BY <2>1, <2>5
  <2>7. /\ [y EXCEPT !.left = l] \in Calls /\ [y EXCEPT !.left = l].at = y.at
        /\ [y EXCEPT !.left = l].msg = y.msg /\ (l = y.left => [y EXCEPT !.left = l] = y)
    BY DEF Calls
  <2> HIDE DEF e, L
  <2> QED
    BY <2>1, <2>4, <2>5, <2>6, <2>7
<1>4. e \in [Task -> Calls]
  <2>1. e = [t \in Task |-> e[t]]
    OBVIOUS
  <2> HIDE DEF e
  <2> QED
    BY <1>3, <2>1
<1> HIDE DEF e
<1> QED
  BY <1>2, <1>3, <1>4

\* The timer interrupt.
LEMMA TickStep ==
    ASSUME Inv, Tick
    PROVE  Inv'
<1>1. /\ RingOK(q) /\ LWMSGQS \in BOOLEAN /\ got \in [Task -> Msg \cup {NULL}]
      /\ inits \in Nat
  BY Held
<1>2. k' = IsrReturn(time_notify_kernel(k)) /\ UNCHANGED <<q, LWMSGQS, got, inits>>
  BY DEF Tick
<1>3. /\ call' \in [Task -> Calls]
      /\ \A t \in Task : /\ call'[t].at = call[t].at /\ call'[t].msg = call[t].msg
                         /\ call[t] = NoCall => call'[t] = NoCall
  BY TickCalls
<1>4. Settled(IsrReturn(time_notify_kernel(k)), call', q.CURRENT_SIZE, MAX_SIZE - q.CURRENT_SIZE)
  BY <1>3, Ticks
<1> QED
  BY <1>1, <1>2, <1>3, <1>4, SettledInv

\* _time_delay_ticks
LEMMA TimeDelayStep ==
    ASSUME Inv, NEW n \in Int, time_delay_ticks(n)
    PROVE  Inv'
<1>1. /\ RingOK(q) /\ LWMSGQS \in BOOLEAN /\ got \in [Task -> Msg \cup {NULL}]
      /\ inits \in Nat /\ call \in [Task -> Calls]
  BY Held
<1>2. /\ k' = time_delay_internal(k, td, n) /\ UNCHANGED <<q, LWMSGQS, call, got, inits>>
      /\ td # Idle /\ call[td].at = "none"
  BY DEF time_delay_ticks, Free, NoCall
<1>3. Settled(time_delay_internal(k, td, n), call, q.CURRENT_SIZE, MAX_SIZE - q.CURRENT_SIZE)
  BY <1>2, Delays
<1> QED
  BY <1>1, <1>2, <1>3, SettledInv

\* _task_ready
LEMMA TaskReadyStep ==
    ASSUME Inv, NEW t \in Task, task_ready(t)
    PROVE  Inv'
<1>1. /\ RingOK(q) /\ LWMSGQS \in BOOLEAN /\ got \in [Task -> Msg \cup {NULL}]
      /\ inits \in Nat /\ call \in [Task -> Calls]
  BY Held
<1>2. /\ k' = CHECK_RUN_SCHEDULER(TASK_READY(k, t)) /\ UNCHANGED <<q, LWMSGQS, call, got, inits>>
      /\ k.TD_STATE[t] = "BLOCKED" /\ t \notin k.ON_TIMEOUT_Q
  BY DEF task_ready
<1>3. Settled(CHECK_RUN_SCHEDULER(TASK_READY(k, t)), call, q.CURRENT_SIZE,
              MAX_SIZE - q.CURRENT_SIZE)
  BY <1>2, Readies
<1> QED
  BY <1>1, <1>2, <1>3, SettledInv

(***************************************************************************)
(* The theorems.                                                            *)
(***************************************************************************)
\* The queue after start-up.
LEMMA InitInv ==
    ASSUME Init
    PROVE  Inv
<1>1. /\ k = Boot /\ call = [t \in Task |-> NoCall] /\ LWMSGQS = FALSE
      /\ got = [t \in Task |-> NULL] /\ inits = 0
      /\ q = [VALID |-> FALSE, CURRENT_SIZE |-> 0, MSG_READ_LOC |-> 0,
              MSG_WRITE_LOC |-> 0, MSGS |-> [i \in Slot |-> NULL]]
  BY DEF Init
<1>2. /\ Consistent(Boot) /\ Boot.TD_STATE = [t \in Task |-> "READY"]
      /\ Boot.QUEUE = [o \in Queue |-> <<>>] /\ Boot.ON_TIMEOUT_Q = {}
  BY BootWait
<1>3. Boot \in Kernel /\ Boot.TD_STATE \in [Task -> State]
  BY <1>2, ConsistentKernel, KernelFields
<1>4. /\ Boot.QUEUE[WAITING_READERS] = <<>> /\ Boot.QUEUE[WAITING_WRITERS] = <<>>
      /\ Writers(Boot) = {} /\ Readers(Boot) = {}
  <2>1. Boot.QUEUE[WAITING_READERS] = <<>> /\ Boot.QUEUE[WAITING_WRITERS] = <<>>
    BY <1>2, Queues
  <2>2. Elems(<<>>) = {}
    BY DEF Elems
  <2> QED
    BY <2>1, <2>2 DEF Writers, Readers
<1>5. Shadow(k, Boot)
  <2>1. Shadow(Restate(Boot, Boot.TD_STATE), Boot)
    BY <1>3, <1>4, MakeShadow
  <2> QED
    BY <1>1, <1>3, <2>1, RestateFields
<1>6. Corrected = Boot
  BY <1>5, ShadowIs DEF Corrected
<1>7. /\ NoCall \in Calls /\ NoCall.at = "none" /\ NoCall.msg = NULL
  BY LwmsgqAssumption DEF NoCall, Calls
<1>8. call \in [Task -> Calls] /\ \A t \in Task : call[t] = NoCall
  BY <1>1, <1>7
<1>9. Fits(Boot, call)
  BY <1>2, <1>4, <1>7, <1>8 DEF Fits, CallFits
<1>10. NoneLeft(Boot, call, q.CURRENT_SIZE, MAX_SIZE - q.CURRENT_SIZE)
  BY <1>4 DEF NoneLeft
<1>11. RingOK(q)
  <2>1. MAX_SIZE \in Nat \ {0} /\ 0 \in Nat /\ 0 < 2 * MAX_SIZE /\ 0 \in 0 .. MAX_SIZE
    BY LwmsgqAssumption
  <2>2. 0 % MAX_SIZE = 0 /\ 0 \in Slot
    BY <2>1, Wraps
  <2> QED
    BY <1>1, <2>1, <2>2 DEF RingOK, LwmsgqStruct
<1>12. got \in [Task -> Msg \cup {NULL}]
  BY <1>1
<1> QED
  BY <1>1, <1>2, <1>5, <1>6, <1>8, <1>9, <1>10, <1>11, <1>12 DEF Inv

\* Every step preserves the invariant.
LEMMA NextInv ==
    ASSUME Inv, Next
    PROVE  Inv'
<1>1. ASSUME NEW n \in 1 .. MaxDelay, time_delay_ticks(n)
      PROVE  Inv'
  <2>1. n \in Int
    OBVIOUS
  <2> QED
    BY <1>1, <2>1, TimeDelayStep
<1>2. ASSUME NEW m \in IsrMsg, IsrSend(m)
      PROVE  Inv'
  <2>1. m \in Msg
    BY Arguments
  <2> QED
    BY <1>2, <2>1, IsrSendStep
<1>3. ASSUME NEW m \in Msg \ IsrMsg, NEW f \in SendFlags, lwmsgq_send(m, f[1], f[2])
      PROVE  Inv'
  BY <1>3, SendStep
<1>4. ASSUME NEW w \in ReceiveTimeouts, lwmsgq_receive(w[1], w[2])
      PROVE  Inv'
  BY <1>4, ReceiveStep
<1>5. ASSUME NEW t \in Task, task_ready(t)
      PROVE  Inv'
  BY <1>5, TaskReadyStep
<1> QED
  BY <1>1, <1>2, <1>3, <1>4, <1>5, InitFieldsStep, LwmsgqInitStep, LwmsgqDeinitStep,
     ReceiveResumeStep, SendResumeStep, TickStep DEF Next

\* A step that changes nothing.
LEMMA StutterInv ==
    ASSUME Inv, UNCHANGED vars
    PROVE  Inv'
<1>1. /\ k' = k /\ q' = q /\ call' = call /\ LWMSGQS' = LWMSGQS /\ got' = got /\ inits' = inits
  BY DEF vars
<1>2. Settled(k, call, q.CURRENT_SIZE, MAX_SIZE - q.CURRENT_SIZE)
  BY Starts, Stays
<1> QED
  BY <1>1, <1>2, Held, SettledInv

\* The inductive invariant holds in every reachable state.
THEOREM Invariance == Spec => []Inv
<1>1. Inv /\ [Next]_vars => Inv'
  BY NextInv, StutterInv
<1> QED
  BY <1>1, InitInv, PTL DEF Spec

\* Whatever sends, receives, timeouts and interrupts meet, the ready queues, the timeout
\* queue, the wait queues and the running task fit together, but for the STATE of a sender
\* that found the queue full twice; and a task blocked in a send or a receive is on that
\* wait queue or ready, never both and never neither.
THEOREM KernelAlwaysConsistent == Spec => []KernelConsistent
<1>1. ASSUME Inv PROVE KernelConsistent
  <2>1. PICK c : c = Corrected
    OBVIOUS
  <2>2. c \in Kernel /\ SchedulerOK(c) /\ WaitQueuesOK(c, {}) /\ Fits(c, call)
    BY <1>1, <2>1, ConsistentKernel DEF Inv
  <2>3. TypeOK
    BY <1>1, Held DEF TypeOK, RingOK
  <2>4. k.QUEUE = c.QUEUE
    BY <1>1, <2>1, ShadowIs DEF Inv
  <2>5. WaitersExact
    <3> SUFFICES ASSUME NEW t \in Task
                 PROVE  /\ call[t].at = "receive" =>
                              (t \in Elems(k.QUEUE[WAITING_READERS]) <=> ~IsReady(c, t))
                        /\ call[t].at = "send" =>
                              (t \in Elems(k.QUEUE[WAITING_WRITERS]) <=> ~IsReady(c, t))
      BY <2>1, <2>2 DEF WaitersExact
    <3>1. CallFits(c, call, t)
      BY <2>2 DEF Fits
    <3> QED
      BY <2>4, <3>1 DEF CallFits, Readers, Writers
  <2> QED
    BY <2>1, <2>2, <2>3, <2>5 DEF KernelConsistent, SchedulerConsistent
<1> QED
  BY <1>1, Invariance, PTL

\* While a receiver waits there is a woken receiver on its way to every message, and while
\* a sender waits a woken sender on its way to every free slot: sends, receives and timeouts
\* pass every wake-up on.
THEOREM NobodyLeft == Spec => []NobodyLeftWaiting
<1>1. ASSUME Inv PROVE NobodyLeftWaiting
  <2>1. PICK c : c = Corrected
    OBVIOUS
  <2>2. k.QUEUE = c.QUEUE /\ k.INFO = c.INFO
    BY <1>1, <2>1, ShadowIs DEF Inv
  <2>3. NoneLeft(c, call, q.CURRENT_SIZE, MAX_SIZE - q.CURRENT_SIZE)
    BY <1>1, <2>1 DEF Inv
  <2>4. Told(c, call, "receive") = Woken("receive") /\ Told(c, call, "send") = Woken("send")
    BY <2>2 DEF Told, Woken
  <2> QED
    BY <2>2, <2>3, <2>4 DEF NobodyLeftWaiting, NoMessageLeft, NoRoomLeft, NoneLeft
<1> QED
  BY <1>1, Invariance, PTL

(***************************************************************************)
(* The queue implements MqxChannel.                                         *)
(***************************************************************************)
\* What a task in call y stands waiting for, as MqxChannel sees it.
WantOf(y) ==
    [op  |-> CASE y.at = "receive" -> "get"
               [] y.at = "send" -> "put"
               [] OTHER -> "none",
     msg |-> y.msg]

Want == [t \in Task |-> WantOf(call[t])]

\* A step of MqxChannel, or none.
ChannelStep == Channel!Next \/ UNCHANGED Channel!vars

\* The steps of MqxChannel, in terms of the queue.
LEMMA ChannelSteps ==
    /\ \A m \in Msg : Len(Buffer) < MAX_SIZE /\ Buffer' = Append(Buffer, m) /\ Want' = Want
                      /\ got' = got => ChannelStep
    /\ \A t \in Task : Want[t].op = "put" /\ Len(Buffer) < MAX_SIZE
                       /\ Buffer' = Append(Buffer, Want[t].msg)
                       /\ Want' = [Want EXCEPT ![t] = Channel!Idling] /\ got' = got => ChannelStep
    /\ \A t \in Task : Want[t] \in {Channel!Idling, Channel!Getting} /\ Buffer # <<>>
                       /\ Buffer' = Tail(Buffer) /\ got' = [got EXCEPT ![t] = Head(Buffer)]
                       /\ Want' = [Want EXCEPT ![t] = Channel!Idling] => ChannelStep
    /\ \A t \in Task : Want[t] = Channel!Idling /\ Buffer = <<>>
                       /\ Want' = [Want EXCEPT ![t] = Channel!Getting]
                       /\ Buffer' = Buffer /\ got' = got => ChannelStep
    /\ \A t \in Task, m \in Msg :
          Want[t] = Channel!Idling /\ Len(Buffer) = MAX_SIZE
          /\ Want' = [Want EXCEPT ![t] = Channel!Putting(m)]
          /\ Buffer' = Buffer /\ got' = got => ChannelStep
    /\ \A t \in Task : Want' = [Want EXCEPT ![t] = Channel!Idling]
                       /\ Buffer' = Buffer /\ got' = got => ChannelStep
    /\ Buffer' = <<>> /\ Want' = Want /\ got' = got => ChannelStep
    /\ Buffer' = Buffer /\ Want' = Want /\ got' = got => ChannelStep
<1>1. \A m \in Msg : Channel!Put(m) => ChannelStep
  BY DEF ChannelStep, Channel!Next
<1>2. \A t \in Task : Channel!PutWaiting(t) \/ Channel!Get(t) \/ Channel!GiveUp(t) => ChannelStep
  BY DEF ChannelStep, Channel!Next
<1>3. \A t \in Task : Channel!Wait(t, Channel!Getting) => ChannelStep
  BY DEF ChannelStep, Channel!Next
<1>4. \A t \in Task, m \in Msg : Channel!Wait(t, Channel!Putting(m)) => ChannelStep
  BY DEF ChannelStep, Channel!Next
<1>5. Channel!Reset => ChannelStep
  BY DEF ChannelStep, Channel!Next
<1>6. \A m \in Msg : Len(Buffer) < MAX_SIZE /\ Buffer' = Append(Buffer, m) /\ Want' = Want
                     /\ got' = got => Channel!Put(m)
  BY DEF Channel!Put, Want, WantOf
<1>7. \A t \in Task : Want[t].op = "put" /\ Len(Buffer) < MAX_SIZE
                      /\ Buffer' = Append(Buffer, Want[t].msg)
                      /\ Want' = [Want EXCEPT ![t] = Channel!Idling] /\ got' = got
                      => Channel!PutWaiting(t)
  BY DEF Channel!PutWaiting, Want, WantOf
<1>8. \A t \in Task : Want[t] \in {Channel!Idling, Channel!Getting} /\ Buffer # <<>>
                      /\ Buffer' = Tail(Buffer) /\ got' = [got EXCEPT ![t] = Head(Buffer)]
                      /\ Want' = [Want EXCEPT ![t] = Channel!Idling] => Channel!Get(t)
  BY DEF Channel!Get, Want, WantOf
<1>9. \A t \in Task : Want[t] = Channel!Idling /\ Buffer = <<>>
                      /\ Want' = [Want EXCEPT ![t] = Channel!Getting]
                      /\ Buffer' = Buffer /\ got' = got => Channel!Wait(t, Channel!Getting)
  BY DEF Channel!Wait, Want, WantOf
<1>10. \A m : Channel!Putting(m) # Channel!Getting
  BY DEF Channel!Putting, Channel!Getting
<1>11. \A t \in Task, m \in Msg :
          Want[t] = Channel!Idling /\ Len(Buffer) = MAX_SIZE
          /\ Want' = [Want EXCEPT ![t] = Channel!Putting(m)]
          /\ Buffer' = Buffer /\ got' = got => Channel!Wait(t, Channel!Putting(m))
  BY <1>10 DEF Channel!Wait, Want, WantOf
<1>12. \A t \in Task : Want' = [Want EXCEPT ![t] = Channel!Idling]
                       /\ Buffer' = Buffer /\ got' = got => Channel!GiveUp(t)
  BY DEF Channel!GiveUp, Want, WantOf
<1>13. Buffer' = <<>> /\ Want' = Want /\ got' = got => Channel!Reset
  BY DEF Channel!Reset, Want, WantOf
<1>14. Buffer' = Buffer /\ Want' = Want /\ got' = got => UNCHANGED Channel!vars
  BY DEF Channel!vars, Want, WantOf
<1> QED
  BY <1>1, <1>2, <1>3, <1>4, <1>5, <1>6, <1>7, <1>8, <1>9, <1>11, <1>12, <1>13, <1>14
     DEF ChannelStep

\* What a task waits for, by its call.
LEMMA WantIs ==
    /\ WantOf(NoCall) = Channel!Idling
    /\ \A y : y.at \in {"none", "init"} /\ y.msg = NULL => WantOf(y) = Channel!Idling
    /\ \A y : y.at = "receive" /\ y.msg = NULL => WantOf(y) = Channel!Getting
    /\ \A y : y.at = "send" => /\ WantOf(y) = Channel!Putting(y.msg)
                               /\ WantOf(y).op = "put" /\ WantOf(y).msg = y.msg
    /\ \A y, z : y.at = z.at /\ y.msg = z.msg => WantOf(y) = WantOf(z)
BY DEF WantOf, NoCall, Channel!Idling, Channel!Getting, Channel!Putting

\* One call changes.
LEMMA WantStep ==
    ASSUME call \in [Task -> Calls], NEW a \in Task, NEW y, call' = [call EXCEPT ![a] = y]
    PROVE  /\ Want' = [Want EXCEPT ![a] = WantOf(y)]
           /\ Want[a] = WantOf(call[a])
           /\ WantOf(y) = WantOf(call[a]) => Want' = Want
<1>1. Want' = [t \in Task |-> WantOf(call'[t])] /\ Want = [t \in Task |-> WantOf(call[t])]
  BY DEF Want
<1>2. \A t \in Task : WantOf(call'[t]) = IF t = a THEN WantOf(y) ELSE WantOf(call[t])
  OBVIOUS
<1> QED
  BY <1>1, <1>2

\* The length of the channel.
LEMMA BufferLen ==
    ASSUME RingOK(q)
    PROVE  /\ Len(Buffer) = q.CURRENT_SIZE /\ Buffer \in Seq(Msg \cup {NULL})
           /\ q.CURRENT_SIZE = 0 <=> Buffer = <<>>
<1>1. /\ q \in LwmsgqStruct /\ q.CURRENT_SIZE \in Nat /\ q.CURRENT_SIZE \in 0 .. MAX_SIZE
      /\ q.MSGS \in [Slot -> Msg \cup {NULL}] /\ MAX_SIZE \in Nat
  BY RingFields DEF RingOK
<1>2. \A i \in 1 .. q.CURRENT_SIZE : (q.MSG_READ_LOC + i - 1) % MAX_SIZE \in Slot
  BY <1>1, Place
<1>3. \A i \in 1 .. q.CURRENT_SIZE :
         q.MSGS[(q.MSG_READ_LOC + i - 1) % MAX_SIZE] \in Msg \cup {NULL}
  BY <1>1, <1>2
<1>4. Len(Buffer) = q.CURRENT_SIZE /\ Buffer \in Seq(Msg \cup {NULL})
  BY <1>1, <1>3 DEF Buffer
<1> QED
  BY <1>1, <1>4

\* The calls of the active task.
LEMMA ActiveCall ==
    ASSUME Inv
    PROVE  /\ td \in Task /\ call \in [Task -> Calls]
           /\ call[td] = NoCall => Want[td] = Channel!Idling
           /\ call[td].at = "init" => Want[td] = Channel!Idling
           /\ call[td].at = "receive" => Want[td] = Channel!Getting
           /\ call[td].at = "send" => /\ Want[td].op = "put" /\ Want[td].msg = call[td].msg
                                      /\ call[td].msg # NULL
<1>1. td \in Task /\ call \in [Task -> Calls]
  BY Held
<1>2. PICK c : Fits(c, call)
  BY Facts
<1>3. call[td].at = "send" <=> call[td].msg # NULL
  BY <1>1, <1>2 DEF Fits, CallFits
<1>4. PICK y : y = call[td]
  OBVIOUS
<1>5. Want[td] = WantOf(y)
  BY <1>1, <1>4 DEF Want
<1> QED
  BY <1>1, <1>3, <1>4, <1>5, WantIs

\* A call of _lwmsgq_receive takes the oldest message out.
LEMMA TakeGets ==
    ASSUME Inv, call[td] = NoCall \/ call[td].at = "receive", ~IS_EMPTY, TakeMessage,
           call' = [call EXCEPT ![td] = NoCall]
    PROVE  ChannelStep
<1>1. /\ RingOK(q) /\ q.CURRENT_SIZE # 0 /\ td \in Task /\ call \in [Task -> Calls]
      /\ Want[td] \in {Channel!Idling, Channel!Getting}
  BY Held, ActiveCall DEF IS_EMPTY
<1>2. /\ got' = [got EXCEPT ![td] = q.MSGS[q.MSG_READ_LOC]]
      /\ q' = [q EXCEPT !.MSG_READ_LOC = Next_Loc(@), !.CURRENT_SIZE = @ - 1]
  BY DEF TakeMessage
<1>3. Buffer' = Tail(Buffer) /\ Buffer # <<>> /\ got' = [got EXCEPT ![td] = Head(Buffer)]
  BY <1>1, <1>2, TakeRing
<1>4. Want' = [Want EXCEPT ![td] = Channel!Idling]
  BY <1>1, WantStep, WantIs
<1> QED
  BY <1>1, <1>3, <1>4, ChannelSteps

\* A call ends without a message.
LEMMA FailGivesUp ==
    ASSUME Inv, call' = [call EXCEPT ![td] = NoCall], UNCHANGED <<q, got>>
    PROVE  ChannelStep
<1>1. td \in Task /\ call \in [Task -> Calls]
  BY Held
<1>2. Want' = [Want EXCEPT ![td] = Channel!Idling]
  BY <1>1, WantStep, WantIs
<1>3. Buffer' = Buffer
  BY DEF Buffer
<1> QED
  BY <1>1, <1>2, <1>3, ChannelSteps

\* What leaves the messages and the calls alone.
LEMMA AloneStutters ==
    ASSUME UNCHANGED <<q, call, got>>
    PROVE  ChannelStep
<1>1. Buffer' = Buffer /\ Want' = Want /\ got' = got
  BY DEF Buffer, Want
<1> QED
  BY <1>1, ChannelSteps

\* _lwmsgq_init and _lwmsgq_deinit
LEMMA SetUpSteps ==
    ASSUME Inv, InitFields \/ lwmsgq_init \/ lwmsgq_deinit
    PROVE  ChannelStep
<1>1. RingOK(q) /\ td \in Task /\ call \in [Task -> Calls]
  BY Held
<1>2. CASE InitFields
  <2>1. RingOK(q)' /\ (q.CURRENT_SIZE = 0)'
    BY <1>1, <1>2, SetRing DEF InitFields
  <2>2. Buffer' = <<>>
    BY <2>1 DEF Buffer
  <2>3. PICK y : y = [call[td] EXCEPT !.at = "init"]
    OBVIOUS
  <2>4. call' = [call EXCEPT ![td] = y] /\ call[td] = NoCall /\ got' = got
    BY <1>1, <1>2, <2>3 DEF InitFields, Free
  <2>5. y.at = "init" /\ y.msg = NULL
    BY <2>3, <2>4 DEF NoCall
  <2>6. WantOf(y) = WantOf(call[td])
    BY <2>4, <2>5, WantIs
  <2>7. Want' = Want
    BY <1>1, <2>4, <2>6, WantStep
  <2> QED
    BY <2>2, <2>4, <2>7, ChannelSteps
<1>3. CASE lwmsgq_init
  <2>1. /\ call[td].at = "init" /\ call' = [call EXCEPT ![td] = NoCall] /\ q' = q /\ got' = got
    BY <1>3 DEF lwmsgq_init, GoOn, Leave
  <2> QED
    BY <2>1, FailGivesUp
<1>4. CASE lwmsgq_deinit
  <2>1. q' = [q EXCEPT !.VALID = FALSE] /\ UNCHANGED <<call, got>>
    BY <1>4 DEF lwmsgq_deinit
  <2>2. /\ q'.CURRENT_SIZE = q.CURRENT_SIZE /\ q'.MSGS = q.MSGS
        /\ q'.MSG_READ_LOC = q.MSG_READ_LOC
    BY <1>1, <2>1, SetRing
  <2>3. Buffer' = Buffer /\ Want' = Want /\ got' = got
    BY <2>1, <2>2 DEF Buffer, Want
  <2> QED
    BY <2>3, ChannelSteps
<1> QED
  BY <1>2, <1>3, <1>4

\* _lwmsgq_receive
LEMMA ReceiveSteps ==
    ASSUME Inv, NEW w \in ReceiveTimeouts, lwmsgq_receive(w[1], w[2])
    PROVE  ChannelStep
<1>1. RingOK(q) /\ td \in Task /\ call \in [Task -> Calls]
  BY Held
<1>2. call[td] = NoCall /\ Want[td] = Channel!Idling
  BY ActiveCall DEF lwmsgq_receive, Free
<1>3. CASE IS_EMPTY
  <2> DEFINE r == [NoCall EXCEPT !.at = "receive", !.timeout = w[1], !.ticks = w[2], !.left = w[2]]
  <2>1. call' = [call EXCEPT ![td] = r] /\ q' = q /\ got' = got
    BY <1>3 DEF lwmsgq_receive
  <2>2. r.at = "receive" /\ r.msg = NULL
    BY DEF NoCall
  <2> HIDE DEF r
  <2>3. WantOf(r) = Channel!Getting
    BY <2>2, WantIs
  <2>4. Want' = [Want EXCEPT ![td] = Channel!Getting]
    BY <1>1, <2>1, <2>3, WantStep
  <2>5. Buffer' = Buffer /\ Buffer = <<>>
    <3>1. Buffer' = Buffer
      BY <2>1 DEF Buffer
    <3>2. Buffer = <<>>
      BY <1>1, <1>3, BufferLen DEF IS_EMPTY
    <3> QED
      BY <3>1, <3>2
  <2> QED
    BY <1>1, <1>2, <2>1, <2>4, <2>5, ChannelSteps
<1>4. CASE ~IS_EMPTY
  <2>1. TakeMessage /\ call' = call
    BY <1>4 DEF lwmsgq_receive
  <2>2. call' = [call EXCEPT ![td] = NoCall]
    BY <1>1, <1>2, <2>1
  <2> QED
    BY <1>2, <1>4, <2>1, <2>2, TakeGets
<1> QED
  BY <1>3, <1>4

\* _lwmsgq_receive, switched in again: a receive ends with the message or gives up.
LEMMA ReceiveResumeSteps ==
    ASSUME Inv, ReceiveResume
    PROVE  ChannelStep
<1>1. call[td].at = "receive"
  BY DEF ReceiveResume, GoOn
<1>2. CASE Leave /\ UNCHANGED <<k, q, got>>
  BY <1>2, FailGivesUp DEF Leave
<1>3. CASE ~IS_EMPTY /\ TakeMessage /\ Leave
  BY <1>1, <1>3, TakeGets DEF Leave
<1>4. CASE UNCHANGED <<q, call, got>>
  BY <1>4, AloneStutters
<1> QED
  BY <1>2, <1>3, <1>4 DEF ReceiveResume

\* _lwmsgq_send
LEMMA SendSteps ==
    ASSUME Inv, NEW m \in Msg, NEW f \in SendFlags, lwmsgq_send(m, f[1], f[2])
    PROVE  ChannelStep
<1>1. RingOK(q) /\ td \in Task /\ call \in [Task -> Calls]
  BY Held
<1>2. Want[td] = Channel!Idling /\ got' = got
  BY ActiveCall DEF lwmsgq_send, Free
<1>3. CASE IS_FULL
  <2> DEFINE s == [NoCall EXCEPT !.at = "send", !.msg = m, !.block_on_send = f[2]]
  <2>1. call' = [call EXCEPT ![td] = s] /\ q' = q
    BY <1>3 DEF lwmsgq_send
  <2>2. s.at = "send" /\ s.msg = m
    BY DEF NoCall
  <2> HIDE DEF s
  <2>3. WantOf(s) = Channel!Putting(m)
    BY <2>2, WantIs
  <2>4. Want' = [Want EXCEPT ![td] = Channel!Putting(m)]
    BY <1>1, <2>1, <2>3, WantStep
  <2>5. Buffer' = Buffer
    BY <2>1 DEF Buffer
  <2>6. Len(Buffer) = MAX_SIZE
    <3>1. q.CURRENT_SIZE \in 0 .. MAX_SIZE /\ MAX_SIZE \in Nat
      BY Held
    <3>2. Len(Buffer) = q.CURRENT_SIZE
      BY <1>1, BufferLen
    <3> QED
      BY <1>3, <3>1, <3>2 DEF IS_FULL
  <2> QED
    BY <1>1, <1>2, <2>4, <2>5, <2>6, ChannelSteps
<1>4. CASE ~IS_FULL
  <2>1. PutMessage(m) /\ call' = call /\ q.CURRENT_SIZE < MAX_SIZE
    BY <1>4, Held DEF lwmsgq_send, IS_FULL
  <2>2. Buffer' = Append(Buffer, m) /\ Len(Buffer) < MAX_SIZE
    BY <1>1, <2>1, PutRing
  <2>3. Want' = Want
    BY <2>1 DEF Want
  <2> QED
    BY <1>2, <2>2, <2>3, ChannelSteps
<1> QED
  BY <1>3, <1>4

\* _lwmsgq_send, switched in again: its message goes in once, or it gives up.
LEMMA SendResumeSteps ==
    ASSUME Inv, SendResume
    PROVE  ChannelStep
<1>1. RingOK(q) /\ td \in Task /\ call \in [Task -> Calls]
  BY Held
<1>2. call[td].at = "send" /\ got' = got
  BY DEF SendResume, GoOn
<1>3. CASE Leave /\ UNCHANGED <<k, q>>
  BY <1>2, <1>3, FailGivesUp DEF Leave
<1>4. CASE UNCHANGED <<q, call>>
  BY <1>2, <1>4, AloneStutters
<1>5. CASE ~IS_FULL /\ PutMessage(call[td].msg) /\ Leave
  <2>1. Want[td].op = "put" /\ Want[td].msg = call[td].msg /\ call[td].msg # NULL
    BY <1>2, ActiveCall
  <2>2. PICK y \in Calls : y = call[td]
    BY <1>1
  <2>3. y.msg \in Msg \cup {NULL}
    BY DEF Calls
  <2>4. PICK m \in Msg : m = call[td].msg
    BY <2>1, <2>2, <2>3
  <2>5. PutMessage(m) /\ q.CURRENT_SIZE < MAX_SIZE
    BY <1>5, <2>4, Held DEF IS_FULL
  <2>6. Buffer' = Append(Buffer, m) /\ Len(Buffer) < MAX_SIZE
    BY <1>1, <2>5, PutRing
  <2>7. Want' = [Want EXCEPT ![td] = Channel!Idling]
    BY <1>1, <1>5, WantStep, WantIs DEF Leave
  <2>8. Buffer' = Append(Buffer, Want[td].msg)
    BY <2>1, <2>4, <2>6
  <2> QED
    BY <1>1, <1>2, <2>1, <2>6, <2>7, <2>8, ChannelSteps
<1> QED
  BY <1>3, <1>4, <1>5 DEF SendResume

\* Interrupts, and what else tasks do.
LEMMA OtherSteps ==
    ASSUME Inv
    PROVE  /\ \A m \in Msg : IsrSend(m) => ChannelStep
           /\ Tick => ChannelStep
           /\ \A n : time_delay_ticks(n) => ChannelStep
           /\ \A t : task_ready(t) => ChannelStep
<1>1. ASSUME NEW m \in Msg, IsrSend(m) PROVE ChannelStep
  <2>1. PutMessage(m) /\ UNCHANGED <<call, got>> /\ q.CURRENT_SIZE < MAX_SIZE /\ RingOK(q)
    BY <1>1, Held DEF IsrSend, IS_FULL
  <2>2. Buffer' = Append(Buffer, m) /\ Len(Buffer) < MAX_SIZE
    BY <2>1, PutRing
  <2>3. Want' = Want
    BY <2>1 DEF Want
  <2> QED
    BY <2>1, <2>2, <2>3, ChannelSteps
<1>2. ASSUME Tick PROVE ChannelStep
  <2>1. \A t \in Task : call'[t].at = call[t].at /\ call'[t].msg = call[t].msg
    BY <1>2, TickCalls
  <2>2. \A t \in Task : WantOf(call'[t]) = WantOf(call[t])
    BY <2>1, WantIs
  <2>3. Want' = Want
    BY <2>2 DEF Want
  <2>4. Buffer' = Buffer /\ got' = got
    BY <1>2 DEF Tick, Buffer
  <2> QED
    BY <2>3, <2>4, ChannelSteps
<1>3. ASSUME NEW n, time_delay_ticks(n) PROVE ChannelStep
  <2>1. UNCHANGED <<q, call, got>>
    BY <1>3 DEF time_delay_ticks
  <2> QED
    BY <2>1, AloneStutters
<1>4. ASSUME NEW t, task_ready(t) PROVE ChannelStep
  <2>1. UNCHANGED <<q, call, got>>
    BY <1>4 DEF task_ready
  <2> QED
    BY <2>1, AloneStutters
<1> QED
  BY <1>1, <1>2, <1>3, <1>4

\* Every step of the queue is one of the channel, or none.
LEMMA NextChannel ==
    ASSUME Inv, [Next]_vars
    PROVE  [Channel!Next]_(Channel!vars)
<1>1. CASE UNCHANGED vars
  <2>1. UNCHANGED <<q, call, got>>
    BY <1>1 DEF vars
  <2> QED
    BY <2>1, AloneStutters DEF ChannelStep
<1>2. CASE Next
  <2>1. IsrMsg \subseteq Msg
    BY Arguments
  <2>2. ASSUME NEW m \in Msg \ IsrMsg, NEW f \in SendFlags, lwmsgq_send(m, f[1], f[2])
        PROVE  ChannelStep
    BY <2>2, SendSteps
  <2>3. ASSUME NEW w \in ReceiveTimeouts, lwmsgq_receive(w[1], w[2])
        PROVE  ChannelStep
    BY <2>3, ReceiveSteps
  <2>4. ChannelStep
    BY <1>2, <2>1, <2>2, <2>3, SetUpSteps, ReceiveResumeSteps, SendResumeSteps, OtherSteps DEF Next
  <2> QED
    BY <2>4 DEF ChannelStep
<1> QED
  BY <1>1, <1>2

\* The channel is empty at the start, and nobody wants anything.
LEMMA InitChannel ==
    ASSUME Init
    PROVE  Channel!Init
<1>1. Buffer = <<>>
  <2>1. RingOK(q) /\ q.CURRENT_SIZE = 0
    BY InitInv DEF Inv, Init
  <2> QED
    BY <2>1, BufferLen
<1>2. call = [t \in Task |-> NoCall] /\ got = [t \in Task |-> NULL]
  BY DEF Init
<1>3. Want = [t \in Task |-> Channel!Idling]
  BY <1>2, WantIs DEF Want
<1> QED
  BY <1>1, <1>2, <1>3 DEF Channel!Init, Want, WantOf

\* The queue is a bounded first-in-first-out channel: whatever blocks, wakes, times out
\* or finds its message taken, each send that returns MQX_OK puts its message in once,
\* each receive that does takes the oldest out once, and every other call leaves the
\* messages alone.
THEOREM Implements == Spec => ImplementsChannel
<1>1. Inv /\ [Next]_vars => [Channel!Next]_(Channel!vars)
  BY NextChannel
<1> QED
  BY <1>1, InitChannel, Invariance, PTL DEF Spec, ImplementsChannel, Channel!Spec
=============================================================================
