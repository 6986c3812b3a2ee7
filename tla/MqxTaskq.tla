------------------------------- MODULE MqxTaskq -------------------------------
(***************************************************************************)
(* Task queues (taskq.c) on the scheduling core, with the calls of MqxSched  *)
(* that meet them: blocking, delays, changes of priority, stopping           *)
(* preemption.                                                               *)
(*                                                                           *)
(* All calls check VALID and do their work with interrupts disabled, and are *)
(* one action.  Only _taskq_destroy enables interrupts after each task it    *)
(* readies, and frees the structure after it has called the scheduler: it is *)
(* one action per task, and a last one.  A call that finds VALID wrong, or   *)
(* the queue empty, or the task not ready, changes nothing and is no action. *)
(***************************************************************************)
EXTENDS MqxSched

VARIABLES
    VALID,                \* the TASK_QUEUE_STRUCTs with VALID = TASK_QUEUE_VALID
    KERNEL_TASK_QUEUES,   \* the TASK_QUEUE_STRUCTs on the kernel's list
    destroying            \* per task: the task queue it is destroying, or NULL

vars == <<k, VALID, KERNEL_TASK_QUEUES, destroying>>

TaskqInit ==
    /\ Init
    /\ VALID = {}
    /\ KERNEL_TASK_QUEUES = {}
    /\ destroying = [t \in Task |-> NULL]

\* The active task makes a call.
Calls == Caller /\ destroying[k.ACTIVE_PTR] = NULL

Others == UNCHANGED <<VALID, KERNEL_TASK_QUEUES, destroying>>

\* The memory of q is the allocator's.
Freed(q) == q \notin KERNEL_TASK_QUEUES /\ \A t \in Task : destroying[t] # q

\* The POLICY of a structure is the same whenever it is used: PriorityQueue.
taskq_create(q) ==
    /\ Calls
    /\ Freed(q)
    /\ VALID' = VALID \cup {q}
    /\ KERNEL_TASK_QUEUES' = KERNEL_TASK_QUEUES \cup {q}
    /\ UNCHANGED <<k, destroying>>

(***************************************************************************)
(* _taskq_suspend, _taskq_suspend_task                                      *)
(***************************************************************************)
\* Task t, which is ready, moved to q.
Suspend(t, q) ==
    [UnlinkReady(k, t) EXCEPT
        !.TD_STATE[t] = "TASK_QUEUE_BLOCKED",
        !.INFO[t] = q,
        !.QUEUE[q] = IF q \in PriorityQueue
                     THEN sched_insert_priorityq_internal(k, @, t)
                     ELSE Append(@, t)]

taskq_suspend(q) ==
    /\ Calls
    /\ q \in VALID
    /\ k' = Dispatch(Suspend(k.ACTIVE_PTR, q))
    /\ Others

taskq_suspend_task_Unchecked(t, q) ==    \* fault: STATE is not tested
    /\ Calls
    /\ q \in VALID
    /\ t # Idle
    /\ k' = IF t = k.ACTIVE_PTR THEN Dispatch(Suspend(t, q)) ELSE Suspend(t, q)
    /\ Others

taskq_suspend_task(t, q) ==
    /\ Calls
    /\ q \in VALID
    /\ t # Idle /\ IsReady(k, t)
    /\ k' = IF t = k.ACTIVE_PTR THEN Dispatch(Suspend(t, q)) ELSE Suspend(t, q)
    /\ Others

\* From an interrupt handler, for any task but the one it interrupted.
IsrSuspendTask(t, q) ==
    /\ q \in VALID
    /\ t \notin {Idle, k.ACTIVE_PTR} /\ IsReady(k, t)
    /\ k' = IsrReturn(Suspend(t, q))
    /\ Others

(***************************************************************************)
(* _taskq_resume                                                            *)
(***************************************************************************)
\* The first n tasks of q made ready.
Release(q, n) ==
    ReadyAll([k EXCEPT !.QUEUE[q] = SubSeq(@, n + 1, Len(@))], SubSeq(k.QUEUE[q], 1, n))

Resumed(q, all_tasks) == Release(q, IF all_tasks THEN Len(k.QUEUE[q]) ELSE 1)

taskq_resume(q, all_tasks) ==
    /\ Calls
    /\ q \in VALID /\ k.QUEUE[q] # <<>>
    /\ k' = CHECK_RUN_SCHEDULER(Resumed(q, all_tasks))
    /\ Others

IsrResume(q, all_tasks) ==
    /\ q \in VALID /\ k.QUEUE[q] # <<>>
    /\ k' = IsrReturn(Resumed(q, all_tasks))
    /\ Others

(***************************************************************************)
(* _taskq_destroy                                                           *)
(***************************************************************************)
taskq_destroy_StaysValid(q) ==           \* fault: VALID is cleared at the end
    /\ Calls
    /\ q \in VALID
    /\ destroying' = [destroying EXCEPT ![k.ACTIVE_PTR] = q]
    /\ k' = IF k.QUEUE[q] = <<>> THEN k ELSE Release(q, 1)
    /\ UNCHANGED <<VALID, KERNEL_TASK_QUEUES>>

\* Up to the first _int_enable.
taskq_destroy(q) ==
    /\ Calls
    /\ q \in VALID
    /\ VALID' = VALID \ {q}
    /\ destroying' = [destroying EXCEPT ![k.ACTIVE_PTR] = q]
    /\ k' = IF k.QUEUE[q] = <<>> THEN k ELSE Release(q, 1)
    /\ UNCHANGED KERNEL_TASK_QUEUES

\* The active task is in the loop over the tasks that wait on q.
InLoop(q) == destroying[k.ACTIVE_PTR] = q /\ q \in KERNEL_TASK_QUEUES

\* Interrupts have been enabled; the loop goes on.
DestroyNext(q) ==
    /\ InLoop(q)
    /\ k.QUEUE[q] # <<>>
    /\ k' = Release(q, 1)
    /\ Others

DestroyUnlink(q) ==
    /\ InLoop(q)
    /\ k.QUEUE[q] = <<>>
    /\ KERNEL_TASK_QUEUES' = KERNEL_TASK_QUEUES \ {q}
    /\ k' = CHECK_RUN_SCHEDULER(k)
    /\ UNCHANGED <<VALID, destroying>>

\* Back from the scheduler: _mem_free.
DestroyFree(q) ==
    /\ destroying[k.ACTIVE_PTR] = q
    /\ q \notin KERNEL_TASK_QUEUES
    /\ destroying' = [destroying EXCEPT ![k.ACTIVE_PTR] = NULL]
    /\ UNCHANGED <<k, VALID, KERNEL_TASK_QUEUES>>

(***************************************************************************)
(* The calls of MqxSched that other tasks make meanwhile, and the timer.    *)
(***************************************************************************)
SchedCall ==
    /\ destroying[k.ACTIVE_PTR] = NULL
    /\ \/ \E n \in 1 .. MaxDelay : time_delay_ticks(n)
       \/ \E t \in Task, p \in 0 .. LOWEST_TASK_PRIORITY : task_set_priority(t, p)
       \/ task_stop_preemption
       \/ task_start_preemption
    /\ Others

TaskqNext ==
    \/ \E q \in Queue :
        \/ taskq_create(q)
        \/ taskq_suspend(q)
        \/ \E t \in Task : taskq_suspend_task(t, q)
        \/ \E t \in Task : IsrSuspendTask(t, q)
        \/ \E all_tasks \in BOOLEAN : taskq_resume(q, all_tasks)
        \/ \E all_tasks \in BOOLEAN : IsrResume(q, all_tasks)
        \/ taskq_destroy(q)
        \/ DestroyNext(q)
        \/ DestroyUnlink(q)
        \/ DestroyFree(q)
    \/ SchedCall
    \/ Tick /\ Others

TaskqSpec == TaskqInit /\ [][TaskqNext]_vars

(***************************************************************************)
(* Properties.                                                              *)
(***************************************************************************)
\* The kernel data and the task queues have their types.
TaskqTypeOK ==
    /\ k \in Kernel
    /\ VALID \in SUBSET Queue
    /\ KERNEL_TASK_QUEUES \in SUBSET Queue
    /\ destroying \in [Task -> Queue \cup {NULL}]

\* Moving tasks, one's own, other ready ones or a whole queue, between the ready
\* queues and a task queue leaves no task on both, on neither, or behind the
\* dispatcher's hint, also when an interrupt handler does it under a task that has
\* stopped preemption or is in the middle of _taskq_destroy.
QueuesConsistent ==
    ReadyQueuesOK(k) /\ HintOK(k) /\ TimeoutQueueOK(k) /\ WaitQueuesOK(k, {})

\* No ready task has a higher priority than the running one, unless that has stopped
\* preemption or is in the loop of _taskq_destroy, which calls the scheduler only at
\* its end.
RunsHighestAfterCalls ==
    (\A q \in Queue : ~InLoop(q)) => RunningOK(k)

\* Whatever task queue calls, changes of priority, delays and interrupts meet, the ready
\* queues, the timeout queue, the task queues and the running task fit together.
KernelConsistent == TaskqTypeOK /\ QueuesConsistent /\ RunsHighestAfterCalls

\* A queue BY_PRIORITY holds its tasks in the order of their priorities at all times,
\* so _taskq_resume readies the most urgent one: _task_set_priority must move a task
\* that waits.
UrgentFirst ==
    \A q \in PriorityQueue : \A i, j \in 1 .. Len(k.QUEUE[q]) :
        i < j => k.MY_QUEUE[k.QUEUE[q][i]] <= k.MY_QUEUE[k.QUEUE[q][j]]

\* A task waits on a valid queue, or on one that the task destroying it has yet to
\* get to: none is left behind on a structure that is freed and used again.
NoneLeftBehind ==
    \A q \in Queue : k.QUEUE[q] # <<>> =>
        /\ q \in KERNEL_TASK_QUEUES
        /\ q \in VALID \/ \E t \in Task : destroying[t] = q
=============================================================================
