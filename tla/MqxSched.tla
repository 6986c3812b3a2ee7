------------------------------- MODULE MqxSched -------------------------------
(***************************************************************************)
(* The scheduler and the time services of MQX: what tasks and interrupt      *)
(* handlers do with _task_block, _task_ready, _sched_yield, the _time_delay  *)
(* family, _time_dequeue, _task_set_priority, the round-robin policy and     *)
(* _task_stop_preemption, driven by the timer interrupt.                     *)
(*                                                                           *)
(* One CPU: the active task makes a call, or an interrupt handler runs to    *)
(* its end.  An action is one call, from entry to the point where the caller *)
(* is back or has been switched out.                                         *)
(***************************************************************************)
EXTENDS MqxKernel

CONSTANT
    MaxDelay     \* bound: the longest delay a task asks for, in ticks

ASSUME MaxDelayAssumption == MaxDelay \in Nat

VARIABLE
    k            \* KERNEL_DATA and the task descriptors

Init == k = Boot

\* The idle task only counts loops: it makes no kernel call.
Caller == k.ACTIVE_PTR \in Task \ {Idle}

(***************************************************************************)
(* Calls of the active task.                                                *)
(***************************************************************************)
task_block == Caller /\ k' = TaskBlock(k)

\* _task_ready is for tasks that blocked themselves: one that waits for an
\* object or for its timeout is linked elsewhere.  A ready one is an error.
Readyable(t) == k.TD_STATE[t] = "BLOCKED" /\ t \notin k.ON_TIMEOUT_Q

task_ready(t) ==
    /\ Caller
    /\ Readyable(t)
    /\ k' = CHECK_RUN_SCHEDULER(TASK_READY(k, t))

sched_yield == Caller /\ k' = SchedYield(k)

\* _time_delay, _time_delay_for, _time_delay_ticks
time_delay_ticks(n) ==
    /\ Caller
    /\ k' = IF n = 0 THEN SchedYield(k)
                     ELSE time_delay_internal(k, k.ACTIVE_PTR, n)

\* The absolute time is n ticks from now; n <= 0 is a time gone by.
time_delay_until(n) ==
    /\ Caller
    /\ k' = time_delay_internal(k, k.ACTIVE_PTR, n)

time_dequeue(t) ==
    /\ Caller
    /\ t \in k.ON_TIMEOUT_Q
    /\ k' = TIME_DEQUEUE(k, t)

task_set_priority(t, p) ==
    /\ Caller
    /\ t # Idle
    /\ k' = TaskSetPriority(k, t, p)

task_stop_preemption ==
    /\ Caller
    /\ k' = [k EXCEPT !.PREEMPTION_DISABLED = @ \cup {k.ACTIVE_PTR}]

task_start_preemption_NoSched ==         \* fault: the scheduler is not called
    /\ Caller
    /\ k' = [k EXCEPT !.PREEMPTION_DISABLED = @ \ {k.ACTIVE_PTR}]

task_start_preemption ==
    /\ Caller
    /\ k' = CHECK_RUN_SCHEDULER(
                [k EXCEPT !.PREEMPTION_DISABLED = @ \ {k.ACTIVE_PTR}])

\* MQX_SCHED_RR or MQX_SCHED_FIFO
sched_set_policy(t, rr) ==
    /\ Caller
    /\ t # Idle
    /\ k' = [k EXCEPT !.TIME_SLICE_TASK = IF rr THEN @ \cup {t} ELSE @ \ {t}]

sched_set_rr_interval(t, n) ==
    /\ Caller
    /\ t # Idle
    /\ k' = [k EXCEPT !.TIME_SLICE[t] = n]

(***************************************************************************)
(* Interrupts: the timer's, and a device's whose handler readies a task.    *)
(***************************************************************************)
Tick == k' = IsrReturn(time_notify_kernel(k))

IsrTaskReady(t) ==
    /\ Readyable(t)
    /\ k' = IsrReturn(TASK_READY(k, t))

TaskCall ==
    \/ task_block
    \/ \E t \in Task : task_ready(t)
    \/ sched_yield
    \/ \E n \in 0 .. MaxDelay : time_delay_ticks(n)
    \/ \E n \in -1 .. MaxDelay : time_delay_until(n)
    \/ \E t \in Task : time_dequeue(t)
    \/ \E t \in Task, p \in 0 .. LOWEST_TASK_PRIORITY : task_set_priority(t, p)
    \/ task_stop_preemption
    \/ task_start_preemption
    \/ \E t \in Task, rr \in BOOLEAN : sched_set_policy(t, rr)
    \/ \E t \in Task, n \in 0 .. MaxTimeSlice : sched_set_rr_interval(t, n)

Next ==
    \/ TaskCall
    \/ Tick
    \/ \E t \in Task : IsrTaskReady(t)

Spec == Init /\ [][Next]_k

(***************************************************************************)
(* The timer keeps interrupting (a hardware timer does, whatever the tasks   *)
(* do); nothing is assumed of the tasks.                                     *)
(***************************************************************************)
\* WF_k(Tick), with its ENABLED written out as the state predicate it amounts to.
TimerKeepsTicking ==
    \/ []<>(k = IsrReturn(time_notify_kernel(k)))
    \/ []<><<Tick>>_k

FairSpec == Spec /\ TimerKeepsTicking

(***************************************************************************)
(* Properties.                                                              *)
(***************************************************************************)
\* The kernel data has the shape the C structures give it.
TypeOK == k \in Kernel

\* The ready queues hold exactly the tasks whose STATE is READY, each once, in the
\* queue of its current priority: what _TASK_READY, _QUEUE_UNLINK and a change of
\* MY_QUEUE must preserve together, in whatever order calls and interrupts come.
ReadyQueuesExact == ReadyQueuesOK(k)

\* No task is ever ready above CURRENT_READY_Q, where the dispatcher, which searches
\* downwards from there, would not find it.
HintIsSafe == HintOK(k)

\* Fixed-priority scheduling: the active task is ready, and no ready task has a
\* higher priority unless the active task has stopped preemption.  (It need not
\* be the head of its queue: _task_set_priority with the priority a task has
\* already moves it to the tail and lets it run on.)
RunsHighestPriority == RunningOK(k)

\* The timeout queue holds exactly the tasks with IS_ON_TIMEOUT_Q, sorted by
\* TIMEOUT: the timer interrupt stops at the first entry that is not due.
TimeoutQueueExact == TimeoutQueueOK(k)

\* A delayed task is made ready by the tick its delay ends with, no earlier and no
\* later, whatever was inserted in or removed from the timeout queue meanwhile.
WakesOnTime ==
    [][\A t \in k.ON_TIMEOUT_Q :
          /\ IsReady(k', t) => k.TIMEOUT[t] <= 1
          /\ t \in k'.ON_TIMEOUT_Q /\ k'.TIMEOUT[t] < k.TIMEOUT[t] => k'.TIMEOUT[t] > 0]_k

RoundRobin == k.TIME_SLICE_TASK = Task \ {Idle} /\ k.PREEMPTION_DISABLED = {}

SetsPriority == \E t \in Task \ {Idle} : task_set_priority(t, k'.HOME_QUEUE[t])

\* Round robin starves no one: a task that stays ready at the priority that runs gets
\* the processor, as long as every task has MQX_TIME_SLICE_TASK, none stops preemption
\* and the active task does not call _task_set_priority over and over (each call links
\* the task anew and starts its time slice again).  Nothing else that the active task
\* does, yielding, sleeping or setting time slices, lets it keep the processor.
RoundRobinFair ==
    \A t \in Task \ {Idle} :
        \/ []<><<SetsPriority>>_k
        \/ []<>(\/ ~RoundRobin
                \/ k.ACTIVE_PTR = t
                \/ ~IsReady(k, t)
                \/ k.MY_QUEUE[t] # k.MY_QUEUE[k.ACTIVE_PTR])

\* A delay ends, unless _time_dequeue ends it first.
DelaysEnd == \A t \in Task \ {Idle} : t \in k.ON_TIMEOUT_Q ~> t \notin k.ON_TIMEOUT_Q
=============================================================================
