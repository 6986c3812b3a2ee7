# A TLA+ verification project for the MQX 4.1.1 kernel

MQX is a real-time operating system for microcontrollers. Its kernel
(`src/mqx/source/kernel`, with the processor port in `src/mqx/source/psp`) schedules
tasks by fixed priority on one CPU; everything else in the repository (the RTCS network
stack, the MFS and FFS file systems, USB, the shell, drivers) is built on the kernel's
tasks, semaphores, mutexes, events and messages. This project models the kernel: what its
services do to the ready queues, the timeout queue and the wait queues when calls of
several tasks and interrupts meet in every order.

The port modelled is Cortex-M4 (`psp/cortex_m/core/M4/dispatch.S`) in the default
configuration, with parameter and validity checks on, time slicing on and the idle task
present.

## 1. Inventory

| Component | State | Operations | What is hard |
|---|---|---|---|
| Dispatcher (`dispatch.S`) | `ACTIVE_PTR`, `CURRENT_READY_Q`, `READY_Q` | PendSV, `_task_block`, `_sched_check_scheduler_internal`, exit of the kernel ISR | it searches downwards from a hint that every other service must keep right; it never terminates if nothing is ready |
| Scheduler (`sched.c`) | `MY_QUEUE`, `HOME_QUEUE`, `BOOSTED`, time slices | yield, set priority, boost and unboost, round robin | a task changes queue while it is active or waiting; nested boosts |
| Time (`time.c`) | `TIMEOUT_QUEUE`, `TIMEOUT`, `TIME` | delays, `_time_dequeue`, the timer interrupt | a timeout races the event the task waits for; equal and past timeouts |
| Tasks (`task.c`, `mqx.c`, `inittask.c`, `idletask.c`) | the task descriptors, `TD_LIST`, `TASK_NUMBER`, `TASK_CREATE_LWSEM` | block, ready, set priority, preemption control; create, destroy, abort, restart | destroying a task that is on some queue or in such a call itself |
| Lightweight semaphores (`lwsem.c`) | `VALID`, `VALUE`, `TD_QUEUE`, the kernel's list | create, destroy, wait (timed or not), poll, post (tasks and interrupts) | values read before interrupts are disabled; post against timeout against destroy |
| Mutexes (`mutex.c`) | `LOCK`, `OWNER_TD`, `BOOSTED`, `WAITING_TASKS` | init, lock, try_lock, unlock, destroy, ceilings | the scheduler is called in the middle of lock and unlock; boosts of several mutexes in one counter; spinning |
| Lightweight message queues (`lwmsgq.c`) | a ring, `WAITING_READERS`, `WAITING_WRITERS` | init, deinit, send, receive | a woken task has no claim on what it was woken for; re-checks, deinit in between |
| Lightweight events (`lwevent.c`) | `VALUE`, `AUTO`, `WAITING_TASKS` | create, destroy, set, clear, set_auto_clear, wait | one set serves several waiters that clear bits for each other |
| Task queues (`taskq.c`) | `TD_QUEUE`, `POLICY`, the kernel's list | create, destroy, suspend, suspend_task, resume | destroy enables interrupts between two waiters; priorities change while tasks wait |
| Lightweight timers (`lwtimer.c`) | lists of queues and timers, `TIMER_PTR`, `EXPIRY` | create and cancel a periodic queue, add and cancel a timer, the timer interrupt | functions called by the walk change the lists it walks; checks made before interrupts are disabled |
| Semaphores (`sem.c`) | `COUNT`, `WAITING_TASKS`, `OWNING_TASKS`, connections, names | create, open, wait, post, close, destroy | tokens in transit, delayed destruction, inheritance |
| Events, messages, timers, watchdogs (`event.c`, `msg*.c`, `timer.c`, `watchdog.c`) | components with connections and pools | as the lightweight ones, with names | tasks that die while connected |
| Memory, partitions, names, logs, interrupts, IPC | tables and block lists | allocation, look-up, ring buffers | splitting and merging of blocks |
| Middleware: RTCS, MFS, FFS, USB, shell, MCC | - | - | separate products on top of the kernel |

How they interact: there are no messages between kernel components. All of them share one
structure, `KERNEL_DATA`, and the task descriptors in it. A service runs with interrupts
disabled while it changes that structure, calls `_TASK_READY` and `_QUEUE_*` on it, and
ends in the scheduler; the timer interrupt calls back into `_time_notify_kernel`. The
interleavings that matter come from three places: a call may be preempted wherever it has
interrupts enabled; a call that invokes the scheduler is switched out *there*, even with
interrupts disabled, and does the rest later; and an interrupt handler may call most of
the same services.

The properties that make each component correct, and the line where each could go wrong,
are listed as hazards in `PROJECT.json`.

## 2. Modules

| Module | What it is |
|---|---|
| `MqxKernel` | the scheduling core as operators on one record `k` (`KERNEL_DATA` and the TDs, fields named as in C): queues, `TASK_READY`, the dispatcher, priorities, the timeout queue, the timer interrupt, the state after boot; and the invariants every service must keep |
| `MqxSched` | scheduler and time services: one action per call of the active task, the timer interrupt, an interrupt that readies a task |
| `MqxLwsem` | lightweight semaphores on the core |
| `MqxMutex` | mutexes with all waiting and scheduling protocols on the core |
| `MqxLwmsgq` | lightweight message queues on the core; implements `MqxChannel` |
| `MqxChannel` | the abstract specification of a message queue: a bounded first-in-first-out channel |
| `MqxLwevent` | lightweight events on the core |
| `MqxTaskq` | task queues, together with all of `MqxSched`: priorities, delays and preemption control change under the waiting tasks |
| `MqxTask` | the life of a task: creation, destruction, restart, abort, with the semaphore that serializes them and the numbering of tasks |
| `MqxLwtimer` | lightweight timers on doubly linked lists, no scheduler |
| `MqxSem` | semaphores of the semaphore component on the core |
| `MCMqx...` | instances for TLC; each `.cfg` is one question |
| `MqxKernel_proof` | lemmas about the queue operators; what every operator of the core preserves, and what it does to waiting tasks and their queues |
| `MqxSched_proof`, `MqxLwsem_proof`, `MqxTaskq_proof`, `MqxMutex_proof`, `MqxLwmsgq_proof`, `MqxSem_proof`, `MqxTask_proof` | the theorems about `MqxSched`, `MqxLwsem`, `MqxTaskq`, `MqxMutex`, `MqxLwmsgq`, `MqxSem` and `MqxTask` |

### How a definition corresponds to the code

A kernel service is an operator from the kernel before to the kernel after, composed in
the order of the C calls: `time_notify_kernel(k) == TimeSlice(Expire(IncTime(k)))`. What
the code does between `_INT_DISABLE` and `_INT_ENABLE` without calling the scheduler is
one atomic step: there is one CPU. Where the code enables interrupts, or calls the
scheduler and still has work to do, the call is cut into several actions and a variable
`call[t]` says where task `t` stands. Only the active task makes a step; an interrupt runs
to its end in one step and leaves through `IsrReturn`, the only place that honours
`TASK_PREEMPTION_DISABLED`. A task that was switched out inside an interrupt-disabled
stretch is switched in with interrupts still disabled (the dispatcher restores `BASEPRI`):
no interrupt comes until it has finished it.

Faithfulness notes:

* `STATE` is split: `TD_STATE` is the word without `IS_ON_TIMEOUT_Q`, `ON_TIMEOUT_Q` the
  set of tasks with that bit. `IsReady` is the C test `STATE == READY` on the whole word.
* `TIMEOUT` is kept relative to `TIME`, which is all the code ever compares; a `TIMEOUT` no
  queue refers to is dead data and kept at 0.
* `CURRENT_TIME_SLICE` counts up to the longest interval in use and stays there, since it
  is only compared with `>=`.
* The idle task has priority `LOWEST_TASK_PRIORITY + 2`. Between it and the application
  comes the init task, which stops preemption, creates the autostart tasks and exits
  before the model starts (`Boot`).
* Several services enable interrupts between readying a task and asking for the scheduler:
  `_task_ready` (`task.c:2063`), `_task_create` (`task.c:384`), `_lwsem_destroy`
  (`lwsem.c:323`), `_taskq_resume` (`taskq.c:335`) and the loop of `_taskq_destroy`
  (`taskq.c:180`). An interrupt in that window ends in the scheduler itself, which the call
  then finds done; the model takes the two as one step.
* A queue is the sequence of TDs on it; a queue operation is atomic. `_mutex_destroy` is
  the one place that dequeues with interrupts enabled; the model separates dequeuing a
  waiter from readying it, but does not model a half-updated link.
* `_task_ready` is called only for tasks that blocked themselves (`Readyable`). Called for a
  task that is delayed or waits for an object, the code links it on two queues at once; its
  description leaves such a call to the programmer.
* `_lwsem_wait`, `_wait_for`, `_wait_ticks`, `_wait_until` share their steps: `WaitEnter`
  reads `VALID`, `lwsem_wait` is the interrupt-disabled part, `WaitReturn` what follows the
  scheduler. The history variable `credit` counts what callers were told. A semaphore is
  created in a structure that is no semaphore and that no call is using (`NotInUse`);
  section 5 says what the code does otherwise.
* In `MqxMutex`, `BoostOwner` ends in the scheduler call inside
  `_sched_boost_priority_internal`; `Enqueue` and `SpinBoosted` are the code after it,
  executed when the task runs again. `UnlockCeiling` and `Unboost` are the corresponding
  rest of `_mutex_unlock`. `held` is what the tasks were told. `mutex_init` is restricted to
  the first initialisation of a mutex, and `mutex_destroy` to a valid one (section 5). `RepricesUsers = FALSE` lets `_task_set_priority` be called only
  while no task has or asks for a mutex (section 5). `ValidProtocols` are the attributes that
  `_mutatr_set_wait_protocol` and `_mutatr_set_sched_protocol` accept. A spinning task that
  meets a null `OWNER_TD` dereferences it in C; the model boosts no one.
* In `MqxLwmsgq` a task inside the two loops is at `call[t].at = "receive"` or `"send"`;
  `ReceiveResume` and `SendResume` are the code after the scheduler call, the next test of
  the loop included. A sender blocks a second time with `STATE` still `READY`
  (`lwmsgq.c:722`, section 5); the model keeps that, and the properties that speak of
  `STATE` correct for it (`Corrected`). `left` is what remains of an absolute timeout.
* In `MqxLwevent` the walk over the waiters (`Walk`) is one step, as in the code. `manual`
  and `credit` are history: the bits that were ever set or waited for without auto-clear,
  and how often an auto-clear bit was raised minus used. An event that is valid is not created
  again: the code would have reset its fields before it finds the duplicate (`lwevent.c:74`). `pulse` is flipped by the timer
  interrupt and by returns from waits, so that fairness can refer to them.
* In `MqxTaskq`, `destroying[t]` is the queue that `t` is destroying. The tasks on it are
  released one per step, since the loop enables interrupts.
* In `MqxTask` a TD is a block of memory that is freed and built anew. `Cleanup` stands for
  the release of the victim's resources; the cleanup functions of other components are
  left out. `BuildFails` is a failure to allocate the TD; a stack frame that cannot be
  built for want of memory for the floating-point context (`task.c:3235`) is left out: the TD then
  stays in the list. The search
  for the next free number ends at the end of the list; the test for it in the code
  (`task.c:3610`) compares other addresses and never holds, but the head of the list, read as a TD,
  does not have the number looked for either. A task that is being destroyed is not
  restarted (section 5). `_task_abort` is called for any task with `AbortsAnywhere = TRUE`, and otherwise
  for tasks that are `Abortable`: in no timed wait, not being destroyed or restarted, and
  in none of these calls unless they wait there for `TASK_CREATE_LWSEM`.
* `MqxLwtimer` models `NEXT` and `PREV` as functions because a walk goes on from a node that
  may have been unlinked. A queue head's own node is the queue. A task's call is two steps: the
  checks, with interrupts enabled (`AddChecks`, `CancelTimerChecks`, `CancelPeriodChecks`; the fields of
  a timer that is added are written there, too), and the part with interrupts disabled (`AddLocked` and so
  on); interrupts and other tasks come in between. A timer function makes a call in one step. Three
  things are asked of the program: a timer is added only while it is on no queue and nobody is adding it
  (the code does not look), nothing is cancelled by two callers at once (`CancelsRace = FALSE`;
  section 5), and a function that cancels its own timer then returns (`CallsOn = FALSE`; section 5). A
  structure is used for one periodic queue, since `_lwtimer_cancel_period` leaves its timers `VALID`.
* In `MqxSem` every `_sem_create` takes a fresh block; a freed block keeps its contents, which
  a connection that outlives its semaphore reads. A task has one connection, so it does not own one
  semaphore while it waits for another, and priorities are changed by inheritance only (section 5 says
  what that leaves out). Deleting the name and freeing the block are one step (`FreeSem`). The woken waiter stays on
  `WAITING_TASKS` until it runs, as in the code. `owed` is history.
* Definitions whose names end in `_SomeFault` are deliberate faults used to show that the
  properties can fail; nothing in the specifications refers to them.

## 3. Runs

| Run | Instance | Checks |
|---|---|---|
| `sched` | two tasks and idle, two priorities, delays and slices to 2 | `TypeOK`, `ReadyQueuesExact`, `HintIsSafe`, `RunsHighestPriority`, `TimeoutQueueExact`, `WakesOnTime`, `RoundRobinFair`, `DelaysEnd` |
| `lwsem` | three tasks, one semaphore created with -1 or 1, timeouts to 1, `VALUE` to 2 | `KernelConsistent`, `TokensConserved`, `NoLostWakeup`, `TimedWaitEnds` |
| `mutex` | three tasks of three priorities, one mutex of any protocols, two ceilings, `_task_set_priority` between its uses | `KernelConsistent`, `MutualExclusion`, `NoWaiterOnFree`, `NoBoostLeak`, `OwnerInherits` |
| `lwmsgq` | three tasks, a ring of two messages, sends from an interrupt, one task that deinitialises | `KernelConsistent`, `NobodyLeftWaiting`, `ImplementsChannel` |
| `lwmsgq_deinit` | two tasks, a ring of one message | `NoWaitOnDeinited`, violated (section 5) |
| `lwevent` | two tasks and interrupts, two bits, auto-clear for one or both | `KernelConsistent`, `NoMissedEvent`, `EventsUsedOnce`, `TimedWaitEnds` |
| `taskq` | three tasks, a FIFO and a priority queue, interrupts that suspend and resume | `KernelConsistent`, `UrgentFirst`, `NoneLeftBehind` |
| `task` | three tasks, one more semaphore to wait for, two creations; `Abortable` tasks are aborted | `KernelConsistent`, `Serialized`, `NumbersUnique` |
| `task_abort` | the same tasks, any of them aborted, no creation | `WaitersExact`, violated (section 5) |
| `lwtimer` | one task, two periodic queues of two ticks, three timers, one of them in either | `ListsConsistent`, `CalledOncePerPeriod` |
| `lwtimer_cancel` | the same with `CancelsRace` | `ListsExact`, violated (section 5) |
| `sem` | three tasks of three priorities, one semaphore of any valid policy and initial count to 2 | `KernelConsistent`, `TokensConserved`, `NoLostWakeup`, `NoBoostLeak`, `DestroyedOnce` |

`KernelConsistent` is, in every module on the core, the module's type invariant, the
scheduler's invariants (exact ready and timeout queues, safe hint, right running task) and
the exactness of the wait queues, each a definition of its own; it holds after every step,
except that between readying a task and the scheduler call that ends the service a more
urgent task may be ready. In `MqxTask` it also says that nothing refers to a TD that was
freed.

*Refinement.* `ImplementsChannel` is `Channel!Spec`: the messages of the ring from
`MSG_READ_LOC` on are the channel's buffer, a task inside one of the two loops is a client that stands
waiting. Whatever the wait queues, the timer and the scheduler do must then be a step of
the channel or none: a message goes in once per successful send, comes out once and in
order, and a timeout or a deinit leaves the messages alone.

*Bounds.* Two tasks and idle are enough for every case of the scheduler's operators (a
task acts on itself, on a task above, below, equal, on a delayed one); the scheduler's
invariants are proved without the bound (section 4). Delays up to 2 give equal, earlier
and later timeouts; -1 and 0 are times gone by. The semaphores need three tasks so that
two wait and one posts, -1 as initial number so that posts cross zero while tasks
wait, and two creations, so that a destroyed semaphore is created again; timeouts of 0 and 1 let the timer interrupt come before, between and after the
steps of a post (longer ones, and their order, are the subject of `sched`). The mutex needs
three priorities for inversion. A ring of two messages is full, empty, half full and
wraps; two senders and a receiver that is woken for a message another one takes need three
tasks. Two bits are the fewest for which "any" and "all" differ. Three timers are one
before, one after and one at the cursor; one task is enough to be overtaken between its
checks and their effect, by the functions of the timers. `taskq` and `task` have two tasks of equal
priority among three, and the second creation reuses the memory and the number of a
destroyed task. In `sem` there is one semaphore, created once: a new one of the same name is a
different block. `MaxValue`, `MaxCreates`, `MaxBoosts`, `MaxDelay`, `MaxInits`,
`MaxCount` and `MaxTimeSlice` are named in the modules that use them.

*Fairness.* `TimerKeepsTicking` is weak fairness of the timer interrupt, the hardware
timer's promise, with its `ENABLED` written out. `WaitsReturn` says that a task inside the
kernel with interrupts disabled goes on. `MqxLwevent` says the same with `SF` and `WF`: an
interrupt that finds interrupts disabled stays pending, so a timer that can interrupt again
and again does (strong fairness), and a task switched in inside a wait reaches its end
(weak fairness); `pulse` changes exactly with these steps. Nothing is assumed of the
application's tasks: round robin and the end of delays and timed waits must follow from
the timer alone. A timed `_lwmsgq_receive` has no such property: it may start its timeout
again (section 5).

*Deadlock* is checked in every run: the timer can always interrupt.

## 4. Proofs

Checked by TLAPS for any finite set of tasks, any number of priorities and wait queues, any
delays, initial numbers, protocols and ceilings. The constants are only restricted by the
assumptions of the modules (`KernelAssumption`, `MutexAssumption` and so on), which say no
more than the types of the C code do, and which TLC evaluates in the runs.

| Module | Theorems | Property of the run |
|---|---|---|
| `MqxSched_proof` | `TypeCorrect`, `ReadyQueuesCorrect`, `HintCorrect`, `HighestPriorityRuns`, `TimeoutQueueCorrect`, `DelaysEndOnTime` | `TypeOK`, `ReadyQueuesExact`, `HintIsSafe`, `RunsHighestPriority`, `TimeoutQueueExact`, `WakesOnTime` |
| `MqxLwsem_proof` | `KernelAlwaysConsistent`, `TokensAlwaysConserved`, `WakeupNeverLost` | `KernelConsistent`, `TokensConserved`, `NoLostWakeup` |
| `MqxTaskq_proof` | `KernelAlwaysConsistent`, `QueuesStaySorted`, `NobodyLeftBehind` | `KernelConsistent`, `UrgentFirst`, `NoneLeftBehind` |
| `MqxMutex_proof` | `KernelAlwaysConsistent`, `MutexesExclude` | `KernelConsistent`, `MutualExclusion` |
| `MqxLwmsgq_proof` | `KernelAlwaysConsistent`, `NobodyLeft`, `Implements` | `KernelConsistent`, `NobodyLeftWaiting`, `ImplementsChannel` |
| `MqxSem_proof` | `KernelAlwaysConsistent`, `TokensAlwaysConserved`, `WakeupNeverLost`, `BoostsEnd`, `DestroyedOnlyOnce` | `KernelConsistent`, `TokensConserved`, `NoLostWakeup`, `NoBoostLeak`, `DestroyedOnce` |
| `MqxTask_proof` | `LifeKeepsKernel`, `TokenSurvives`, `NumbersStayUnique` | `KernelConsistent`, `Serialized`, `NumbersUnique` |

Each of them follows from the module's `Invariance`, that its inductive invariant `Inv`
holds in every state. The theorems of `MqxTask_proof` have two hypotheses besides, the
values that the run `task` gives to two constants: `~AbortsAnywhere`, only `Abortable` tasks are
aborted, and `InitTimeSliceTask = {}`, no round robin. Without either, what the code does breaks
`KernelConsistent` (section 5), and `task_abort` is the run that shows it for the first. So the theorems
cover destroying and restarting tasks that are ready, wait, timed or not, or are in the
middle of such calls, and aborting those that `_task_abort` can stop without harm.

*The scheduler.* `RunsHighestPriority` is not inductive: after a change of priority or a
wake-up the right task is found only if the ready queues hold exactly the ready tasks and
none of them is above the hint; the timer interrupt keeps the ready queues exact only if
the timeout queue holds exactly the delayed tasks; and the dispatcher returns a task at
all only because the idle task is always ready and never moved. These together are `KInv`.
Kernel operators pass through states in which it is broken: a task is unlinked from its
ready queue before its state changes, or has changed state and is not linked yet. So the
lemmas of `MqxKernel_proof` are about `KInv(k, X)`: the invariant with the tasks of `X`
unlinked. `UnlinkReady` puts a task into `X`, `TASK_READY` takes it out, `ReadyAll` takes out
all tasks of a sequence, the dispatcher needs `X` to be empty of ready tasks and gives
`RunningOK`. Each service is then a chain of such lemmas in the order of its code, and
`NextInv` has one step per action. The queue lemmas at the head of that module rest on
indexed definitions of the queue operators; the library's `SelectSeq` is recursive and the
provers cannot see through it. `WakesOnTime` is about two states: `DelaysEndOnTime` shows of
every action that it leaves the remaining delay of a task alone or takes it off the queue,
and of the tick that the tasks it readies are exactly those whose delay ends with it,
because the queue is sorted and the walk stops at the first task that is not due.

*Waiting.* The components share two kinds of facts, which `MqxKernel_proof` states once. One
is what an operator leaves alone (`SwitchFrame`, `TaskReadyFrame`, `TickFrame`, ...): the
dispatcher touches no task descriptor, a tick wakes a set of delayed tasks, takes them off
the queues they were waiting on and does nothing to anyone else. The other is what it takes
to block a task, ready it or let it time out with the wait queues exact. All of them are
about an arbitrary kernel record, so they are used for the intermediate kernels of a
service as well.

*Lightweight semaphores.* `TokensConserved` alone is not inductive. A task that was woken has
not been told yet, so the invariant says for every task where its call stands, whether it
was readied by a post, by a timeout or by a destroy, and that what it will return agrees
(`CallsOK`); and a creation under way has the structure to itself (`CreatesOK`), which is
where the guard `NotInUse` is needed: the code has emptied the queue of waiters before it
finds out that the semaphore exists.

*Task queues.* Between the steps of `_taskq_destroy` tasks are ready and the scheduler has not
been called, so `Inv` has the kernel in order (`InOrder`) and the right task running only
outside that loop. `UrgentFirst` needs that a task is found on a queue exactly when its
`STATE` and `INFO` say so, because that is how `_task_set_priority` decides to sort it in
anew. `NoneLeftBehind` needs that no valid queue is being destroyed (`ListsOK`).

*Mutexes.* A task is switched out in the middle of its call, so that `MutualExclusion` has to
be shown from where every task stands: `CallOK` says what the mutex of a call looks like at
each place of it. The places that matter: between setting `LOCK` and setting `OWNER_TD` the
mutex has no owner and one task only is there (`OneTaker`); a waiter whose `STATE` is
`READY` again owns the mutex or will find it invalid; a task inside `_mutex_destroy` owns it and
has made it invalid, and the waiter it has dequeued still has the `STATE` and `INFO` of a
waiting task; and no call is about a mutex that is neither valid nor owned, so that
`_mutex_init` empties an empty queue. `Changes` then says what a step may do to a mutex
without disturbing the calls of the others, and each action is shown to be such a step.

*Message queues.* A sender that finds the queue full twice waits with `STATE` `READY`, so the
kernel's invariant, from which everything above follows, is false here. It is true of
`Corrected`, the kernel in which the waiting senders have the `STATE` they should have. So
each operator that `lwmsgq.c` calls is first shown to commute with a change of `STATE`
(`Restate`): the scheduler, the dispatcher and `_TASK_READY` look at no `STATE`, the timer and
`_TIME_DEQUEUE` only at that of tasks on the timeout queue, where a sender never is. With
`Shadow(k, c)`, k is c but for those states, a step of the program is then a step of the
corrected kernel, about which `MqxKernel_proof` speaks. `Fits` adds that the tasks in a call
that are not ready are exactly the waiters. `NobodyLeftWaiting` is carried through a call with
the numbers of messages and slots as parameters (`Midway`, `Settled`): a task that leaves with
a message costs one woken receiver and adds one slot, for which it wakes a sender. A call
that ends by a timeout or a deinit costs nothing, because its `INFO` is not `NULL`; this is where
`LwmsgqAssumption` has `NULL # LWMSGQ_DEINIT_INFO` (-1 in `lwmsgq_prv.h:44`). The refinement
needs of the ring that the write location is the read location plus the size, modulo
`MAX_SIZE` (`RingOK`); then `PutRing` and `TakeRing` show that the two assignments of the code
are `Append` and `Tail` of `Buffer`, and each action is a step of `MqxChannel` or none.

*Semaphores.* What a token is worth depends on who stands where, so `Inv` has a part per task
and a part per semaphore. `StateOK`: a blocked task is inside a wait for a valid semaphore
without a token, which is `NoLostWakeup`. `ConnOK`: who has tokens to post has them of a strict,
valid semaphore. `CallOK`: what a task in the middle of a call relies on; most of it is about
`destroying` (the block is allocated, no longer valid, and no other call is destroying it) and
about `create` (the block has been named and is not used yet). `TokensOK` counts tokens in three
places: `COUNT`, the woken waiters that have not run yet (`InTransit`) and the owners' posts
(`Owned`, as pairs of a task and a number, so that `OwnedStep` can add and remove one element).
`DestroyedUnowned` follows from the count: if a strict semaphore goes with `COUNT` at its maximum,
nothing is left for a task to own or to be handed. `NoBoostLeak` needs that a boost is counted in the
task and in the connection alike, and that only owners have any (`BoostOK`). A caller that boosts an
owner must go on running; that needs `CURRENT_READY_Q` to be exactly the priority that runs
(`Settled`), stronger than the hint of the scheduler's proof and true whenever the
scheduler has been called. Between readying a waiter and calling it, only `Core` holds.
`Touched(c, s)` says what a step of task `c` on semaphore `s` may change; `TouchedTask` and
`TouchedSem` then settle all other tasks and semaphores, and each action is left with its own.

*Tasks.* A task that destroys or restarts itself is `DYING` and still runs, linked as ready, until it
is switched out for good. So the kernel's invariant is not true of `k` but of `Shadow(k, op)`, the
kernel in which such tasks (`Enders`) count as ready; as with the message queues, each operator
commutes with that change of `STATE` (`KernelOK`, and `Settled` inside a call). `Gone` is what
`TakeOff` must leave of a victim, whatever it was on, and `Renewed` what a TD that is built or restarted
must look like; neither needs to know who called. The rest of `Inv` is about the calls.
`Shape` lists the calls there are, `RefersOK` says what the TD that a call refers to looks like
(created and not started: blocked and listed; stopped: dying; being disposed of: dying, not freed,
listed until `Cleanup`), `TaskOK` which calls a task in each state can be in, `MemoryOK` what a TD off
the list is. `Alone` is the heart of it: no two calls create, restart or dispose of the same TD. It
follows from the token, of which `TokenOK` says that it is in `VALUE` or with one task, and
from the test for `DYING` after the wait. `OneTask` moves one task to another call and state and
keeps what is known of all others, and most actions are one such move. The token survives because
a victim that has it is never stopped by another: who destroys or restarts a task has the token
himself, and a task that is aborted is in none of these calls or waits for it. `NumbersOK` says the same as `NumbersUnique` along the list: the TDs up to `INSERT_TD_PTR` are
numbered 1, 2, ... without a gap, and those behind it have numbers above `TASK_NUMBER`; `NumberFreed`
and `NumberGiven` carry it through the two places where the code changes the list.

*Only model-checked.* All liveness, which is outside the prover's reach, as is anything
stated with `ENABLED`. Everything about `MqxLwevent`, whose walk over the waiters is a
recursive function (what it computes needs an induction the provers cannot do), and about
`MqxLwtimer`, whose lists are followed link by link. Of the mutexes, `NoWaiterOnFree`,
`NoBoostLeak` and `OwnerInherits`: they hold in the instance of the run and not for all
constants, since `_task_set_priority` in the middle of a lock or an unlock breaks them (section 5).

## 5. Where the code and its descriptions disagree

Three of these are runs expected to be violated (`lwmsgq_deinit`, `task_abort`, `lwtimer_cancel`);
the others are stated here, with the guard
or constant of the model that leaves the case out, or were seen by changing that constant.

* **Message queues.** `lwmsgq_deinit`: a task that was woken before `_lwmsgq_deinit` and runs
  after it tests only the number of messages and blocks again, on a queue nobody will
  ever serve (`lwmsgq.c:526`, `:722`), although `:393` says that all are released. A sender
  blocks a second time with `STATE` `READY` (`lwmsgq.c:722`; `mqx_prv.h:469` says blocked
  states have the blocked bit): `_task_destroy` and `_task_abort`, which go by `STATE`, would
  not take it off its queue. A receiver with a relative timeout that finds its message taken starts the
  timeout again (`lwmsgq.c:536`).
* **Preemption.** A task that stopped preemption is still preempted by the scheduler calls its own
  services make (`dispatch.S:121`, `task.c:2460`).
* **Lightweight semaphores.** A wait can block on a semaphore destroyed between the test of `VALID`
  and the blocking (`lwsem.c:805`). Creating a semaphore a second time returns an error, and has
  emptied its queue of waiters (`lwsem.c:73`).
* **Mutexes.** The inner unlock of two nested ceiling mutexes takes the ceiling of the outer one
  away: `mutex.c:868` counts a boost in the mutex that was never given to the task, and
  unlock takes it back (`mutex.h:58`). A spinning mutex is locked before it has an owner, and another
  spinning task follows the null owner (`mutex.c:745`). `_mutex_lock` boosts the owner to a priority it
  read earlier (`mutex.c:692`); when `_task_set_priority` has changed it meanwhile the owner may unlock first,
  and the caller then waits for a free mutex. `_mutex_unlock` boosts the new owner (`mutex.c:1425`) by a call that
  may switch to it before the boost is counted, and the count is then lost. With `RepricesUsers = TRUE`
  both occur: `NoWaiterOnFree`, `NoBoostLeak` and `OwnerInherits` fail (`KernelConsistent` and
  `MutualExclusion` do not: they are proved for either value). With FIFO
  queueing a new owner inherits from more urgent tasks behind it only once it runs
  (`mutex.c:843`), so `OwnerInherits` is about priority queueing. An owner that was above the ceiling when it
  locked the mutex is not boosted (`mutex.c:862`), and `_task_set_priority` or a raised
  ceiling then leaves it below, so that no property says that owners run at the ceiling. The destroyer of a mutex stays its
  `OWNER_TD`, and if it destroys the mutex again nothing refuses that (`mutex.c:292`). Inheritance is not transitive.
* **Lightweight events.** A waiter released by a destroy recognises it by `VALID` when it runs
  (`lwevent.c:1176`); if the event is created again before that, the wait returns `MQX_OK`
  without its bits.
* **Tasks.** `task_abort`: `_task_abort` takes a task in a timed wait off the timeout queue and leaves it
  on the object's queue (`task.c:132-146`), although `:163` says that it is removed from any queue it is
  blocked on; a later post readies it a second time. Aborting
  a task that holds `TASK_CREATE_LWSEM` makes its exit function wait for itself.
  `_task_restart` does not look whether its victim is dying (`task.c:2203`), and adds the
  template's time slice to the caller's TD (`task.c:2341`). `_task_destroy` looks its victim up
  before it waits for `TASK_CREATE_LWSEM`, and the memory may be another task's afterwards
  (`task.c:804`, `:828`). A task that destroys itself is marked `DYING` (`task.c:865`) and goes on with
  interrupts enabled; if its time slice ends meanwhile, the round robin of the timer interrupt links
  it anew with `_TASK_READY`, which sets `STATE` to `READY` again (`mqx_prv.h:695`), so that a second
  destroyer no longer sees that it is dying (`task.c:828`): with `InitTimeSliceTask` not empty,
  `KernelConsistent` fails.
* **Lightweight timers.** `lwtimer_cancel`: a task that cancels a timer looks at its `VALID` with
  interrupts enabled (`lwtimer.c:235`); if the timer's function, or another task, cancels it before
  interrupts are disabled (`:243`), the task unlinks it a second time, through links that may be stale,
  and `SIZE`, which the search for a place relies on, is one too small (65535 for an empty queue). `:215`
  says that the cancellation of an invalid timer is refused. The same holds of
  `_lwtimer_cancel_period` (`:289`) and `LWTIMERS`. A timer function that cancels its own timer and then adds or cancels others
  lets the walk go on from stale links (`lwtimer.c:188`); with `CallsOn = TRUE`, `NoneSkipped`
  fails. A timer added after its offset has passed is called late in that period or not at all
  (`late`).
* **Semaphores.** The queue of waiters is in the order of the priorities at the time they began to
  wait (`sem.c:1092`). `_task_set_priority` sorts again only the queue of a `TASK_QUEUE_BLOCKED` task
  (`task.c:1971`), and a boost sorts none, so that a waiter whose priority changes keeps its place, although
  `sem.c:269` says that the queue is by priority. In `MqxSem` no waiter's priority changes, hence no
  property about their order. The loop of a forced destroy that should release all waiters never
  advances and readies the first one only (`sem.c:553`; `:445` says that they are all made
  ready). A task that owns one token of a strict semaphore and waits for another has one connection for two
  queues (`sem.c:1837`, `:1910`); the model leaves the case out (`POST_STATE = 0` in
  `WaitBlock`). `_sem_cleanup` posts until nothing is owned, which `_sem_post` refuses when the
  destroyer is not the owner (`sem.c:1456`, `:1295`), with interrupts disabled. Inheritance is missed
  while a token is in transit, when nobody is on `OWNING_TASKS` (`sem.c:1793`). A delayed destroy that meets a timed-out
  waiter still on `WAITING_TASKS`, with all tokens back, is never completed (`sem.c:567`).

## 6. Plan

1. Proofs: the mutex properties that are only model-checked, with the hypotheses that exclude
   changes of priority during a lock.
2. Named events, messages and their pools, timers, watchdogs and partitions.
3. `_sem_cleanup` and the cleanup functions of the other components, composed with
   `MqxTask`.

## 7. Not modelled

The components with status `not_modelled` in `PROJECT.json`, with their reasons. Inside the
modelled ones: register and FPU contexts and stacks, nested interrupts, kernel logging,
user-mode checks, conversions between ticks and wall-clock time, setting the system time,
operations that only read, `_task_create_at`, other processors and the Cortex-A port.
