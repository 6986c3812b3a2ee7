------------------------------ MODULE MqxLwevent ------------------------------
(***************************************************************************)
(* A lightweight event group (lwevent.c) on the scheduling core.             *)
(*                                                                           *)
(* Each call checks VALID and does its work with interrupts disabled, in one *)
(* action.  Three things take a second action: a wait that blocks goes on    *)
(* when its task is active again; set and destroy enable interrupts before   *)
(* they call the scheduler, so an interrupt may come between the two; and    *)
(* create writes the fields with interrupts enabled.  A call that finds      *)
(* VALID wrong returns MQX_LWEVENT_INVALID, changes nothing, and is not an   *)
(* action.  A value of type _mqx_uint is the set of its one bits.            *)
(***************************************************************************)
EXTENDS MqxKernel

CONSTANTS
    WAITING_TASKS,    \* the wait queue of the event group
    Bit,              \* the bits of an event group
    AutoMasks,        \* the masks _lwevent_set_auto_clear is called with
    MaxDelay,         \* bound: the longest timeout, in ticks
    MaxCreates        \* bound: calls of _lwevent_create

ASSUME LweventAssumption ==
    /\ WAITING_TASKS \in Queue
    /\ AutoMasks \subseteq SUBSET Bit
    /\ MaxDelay \in Nat
    /\ MaxCreates \in Nat

VARIABLES
    k,                \* KERNEL_DATA and the task descriptors
    VALID,            \* the fields of the LWEVENT_STRUCT; VALID = LWEVENT_VALID
    VALUE,
    AUTO,
    LWEVENT_BITS,     \* TD.LWEVENT_BITS per task
    ALL_BITS_WANTED,  \* the tasks with TASK_LWEVENT_ALL_BITS_WANTED in FLAGS
    call,             \* per task: the lwevent call it is in, and how far
    manual,           \* history: the bits that have not been auto-clear all along
    credit,           \* history: per other bit, how often it was raised and not yet used up
    created,          \* history: calls of _lwevent_create
    pulse             \* history: flips with every tick and with every wait that goes on

ev == <<VALID, VALUE, AUTO>>
tds == <<LWEVENT_BITS, ALL_BITS_WANTED>>
hist == <<manual, credit, created>>
vars == <<k, ev, tds, call, hist, pulse>>

Mask == SUBSET Bit \ {{}}

NoCall == [at |-> "none", timed |-> FALSE]

Calls == [at : {"none", "create", "scheduler", "wait"}, timed : BOOLEAN]

Init ==
    /\ k = Boot
    /\ VALID = FALSE /\ VALUE = {} /\ AUTO = {}
    /\ LWEVENT_BITS = [t \in Task |-> {}]
    /\ ALL_BITS_WANTED = {}
    /\ call = [t \in Task |-> NoCall]
    /\ manual = Bit
    /\ credit = [bit \in Bit |-> 0]
    /\ created = 0
    /\ pulse = FALSE

td == k.ACTIVE_PTR

Free == td # Idle /\ call[td] = NoCall

GoOn(at) == call[td].at = at

Goto(at) == call' = [call EXCEPT ![td].at = at]

Leave == call' = [call EXCEPT ![td] = NoCall]

\* A task that blocked in a wait is switched in with interrupts still disabled.
Interruptible == call[td].at # "wait"

\* all bits of the mask, or any of them, are among the bits of v
Satisfied(mask, all, v) == IF all THEN mask \subseteq v ELSE mask \cap v # {}

(***************************************************************************)
(* _lwevent_create, on memory that holds no valid event and that nobody      *)
(* waits on, and _lwevent_destroy                                            *)
(***************************************************************************)
CreateInit(auto_clear) ==
    /\ Free /\ ~VALID /\ created < MaxCreates
    /\ k.QUEUE[WAITING_TASKS] = <<>>
    /\ k' = [k EXCEPT !.QUEUE[WAITING_TASKS] = <<>>]
    /\ VALUE' = {}
    /\ AUTO' = IF auto_clear THEN Bit ELSE {}
    /\ manual' = Bit \ AUTO'
    /\ credit' = [bit \in Bit |-> 0]
    /\ created' = created + 1
    /\ Goto("create")
    /\ UNCHANGED <<VALID, tds, pulse>>

lwevent_create ==
    /\ GoOn("create")
    /\ VALID' = TRUE
    /\ Leave
    /\ UNCHANGED <<k, VALUE, AUTO, tds, hist, pulse>>

lwevent_destroy ==
    /\ Free /\ VALID
    /\ VALID' = FALSE
    /\ k' = ReleaseAll(k, WAITING_TASKS)
    /\ Goto("scheduler")
    /\ UNCHANGED <<VALUE, AUTO, tds, hist, pulse>>

(***************************************************************************)
(* _lwevent_clear, _lwevent_set_auto_clear, _lwevent_set                     *)
(***************************************************************************)
\* Bits of the set S are raised, or used up or cleared.
Raise(S) == [bit \in Bit |-> IF bit \in S \ manual THEN credit[bit] + 1 ELSE credit[bit]]

UseUp(S) == [bit \in Bit |-> IF bit \in S \ manual THEN credit[bit] - 1 ELSE credit[bit]]

lwevent_clear(mask) ==
    /\ Free /\ VALID
    /\ VALUE' = VALUE \ mask
    /\ credit' = UseUp(VALUE \cap mask)
    /\ UNCHANGED <<k, VALID, AUTO, tds, call, manual, created, pulse>>

lwevent_set_auto_clear(mask) ==
    /\ Free /\ VALID
    /\ AUTO' = mask
    /\ manual' = manual \cup (Bit \ mask)
    /\ credit' = [bit \in Bit |-> IF bit \in manual' THEN 0 ELSE credit[bit]]
    /\ UNCHANGED <<k, VALID, VALUE, tds, call, created, pulse>>

Walk_ClearsAtEnd(mask) ==                \* fault: every waiter sees all the bits
    LET q == k.QUEUE[WAITING_TASKS]
        W[i \in 0 .. Len(q)] ==
            IF i = 0
            THEN [set_bits |-> VALUE \cup mask, bits |-> LWEVENT_BITS, woken |-> <<>>]
            ELSE LET w    == W[i - 1]
                     t    == q[i]
                     bits == LWEVENT_BITS[t] \cap w.set_bits
                 IN  IF Satisfied(LWEVENT_BITS[t], t \in ALL_BITS_WANTED, w.set_bits)
                     THEN [w EXCEPT !.bits[t] = bits, !.woken = Append(@, t)]
                     ELSE w
        last == W[Len(q)]
    IN  [last EXCEPT !.set_bits =
            @ \ (AUTO \cap UNION {last.bits[last.woken[i]] : i \in 1 .. Len(last.woken)})]

Walk_FirstOnly(mask) ==                  \* fault: stops at the first waiter it serves
    LET q == k.QUEUE[WAITING_TASKS]
        W[i \in 0 .. Len(q)] ==
            IF i = 0
            THEN [set_bits |-> VALUE \cup mask, bits |-> LWEVENT_BITS, woken |-> <<>>]
            ELSE LET w    == W[i - 1]
                     t    == q[i]
                     bits == LWEVENT_BITS[t] \cap w.set_bits
                 IN  IF /\ w.woken = <<>>
                        /\ Satisfied(LWEVENT_BITS[t], t \in ALL_BITS_WANTED, w.set_bits)
                     THEN [set_bits |-> w.set_bits \ (AUTO \cap bits),
                           bits     |-> [w.bits EXCEPT ![t] = bits],
                           woken    |-> Append(w.woken, t)]
                     ELSE w
    IN  W[Len(q)]

\* The walk along WAITING_TASKS: a waiter whose condition the bits meet takes its bits,
\* and those that clear automatically are gone for the waiters behind it.
Walk(mask) ==
    LET q == k.QUEUE[WAITING_TASKS]
        W[i \in 0 .. Len(q)] ==
            IF i = 0
            THEN [set_bits |-> VALUE \cup mask, bits |-> LWEVENT_BITS, woken |-> <<>>]
            ELSE LET w    == W[i - 1]
                     t    == q[i]
                     bits == LWEVENT_BITS[t] \cap w.set_bits
                 IN  IF Satisfied(LWEVENT_BITS[t], t \in ALL_BITS_WANTED, w.set_bits)
                     THEN [set_bits |-> w.set_bits \ (AUTO \cap bits),
                           bits     |-> [w.bits EXCEPT ![t] = bits],
                           woken    |-> Append(w.woken, t)]
                     ELSE w
    IN  W[Len(q)]

Wake_StaysOnTimeout(s) ==                \* fault: no _TIME_DEQUEUE
    ReadyAll([k EXCEPT
        !.QUEUE[WAITING_TASKS] = Keep(@, Task \ Elems(s)),
        !.INFO = [t \in Task |-> IF t \in Elems(s) THEN NULL ELSE @[t]]], s)

\* The waiters of the sequence s leave the wait queue, the timeout queue and INFO, and
\* are ready.
Wake(s) ==
    ReadyAll([k EXCEPT
        !.QUEUE[WAITING_TASKS] = Keep(@, Task \ Elems(s)),
        !.TIMEOUT_QUEUE = Keep(@, Task \ Elems(s)),
        !.ON_TIMEOUT_Q = @ \ Elems(s),
        !.TIMEOUT = [t \in Task |-> IF t \in Elems(s) THEN 0 ELSE @[t]],
        !.INFO = [t \in Task |-> IF t \in Elems(s) THEN NULL ELSE @[t]]], s)

\* What _lwevent_set does to the event and to the bits of the waiters.
SetBits(mask) ==
    /\ VALUE' = Walk(mask).set_bits
    /\ LWEVENT_BITS' = Walk(mask).bits
    /\ credit' = Raise(mask \ VALUE)
    /\ UNCHANGED <<VALID, AUTO, ALL_BITS_WANTED, manual, created, pulse>>

lwevent_set(mask) ==
    /\ Free /\ VALID
    /\ SetBits(mask)
    /\ k' = Wake(Walk(mask).woken)
    /\ Goto("scheduler")

\* _CHECK_RUN_SCHEDULER after interrupts have been enabled
CheckRunScheduler ==
    /\ GoOn("scheduler")
    /\ k' = CHECK_RUN_SCHEDULER(k)
    /\ Leave
    /\ UNCHANGED <<ev, tds, hist, pulse>>

(***************************************************************************)
(* _lwevent_wait_for, _lwevent_wait_ticks, _lwevent_wait_until               *)
(***************************************************************************)
\* timed = FALSE: no tick structure, and _lwevent_wait_ticks(0).  n is the timeout
\* in ticks from now, 0 a time that has come already.
WaitBlock(timed, n) ==
    LET k1 == [k EXCEPT !.QUEUE[WAITING_TASKS] = Append(@, td),
                        !.TD_STATE[td] = "LWEVENT_BLOCKED",
                        !.INFO[td] = WAITING_TASKS]
    IN  IF timed THEN time_delay_internal(k1, td, n) ELSE TaskBlock(k1)

lwevent_wait(mask, all, timed, n) ==
    /\ Free /\ VALID
    /\ IF Satisfied(mask, all, VALUE)
       THEN /\ LWEVENT_BITS' = [LWEVENT_BITS EXCEPT ![td] = VALUE \cap mask]
            /\ VALUE' = VALUE \ (AUTO \cap mask)
            /\ credit' = UseUp(VALUE \cap AUTO \cap mask)
            /\ UNCHANGED <<k, call, ALL_BITS_WANTED>>
       ELSE /\ LWEVENT_BITS' = [LWEVENT_BITS EXCEPT ![td] = mask]
            /\ ALL_BITS_WANTED' = IF all THEN ALL_BITS_WANTED \cup {td}
                                         ELSE ALL_BITS_WANTED \ {td}
            /\ k' = WaitBlock(timed, n)
            /\ call' = [call EXCEPT ![td] = [at |-> "wait", timed |-> timed]]
            /\ UNCHANGED <<VALUE, credit>>
    /\ UNCHANGED <<VALID, AUTO, manual, created, pulse>>

\* Back from the scheduler: MQX_LWEVENT_INVALID, LWEVENT_WAIT_TIMEOUT, or MQX_OK, when
\* _lwevent_get_signalled tells which bits the task was woken with.
WaitReturn ==
    /\ GoOn("wait")
    /\ credit' = IF VALID /\ (call[td].timed => k.INFO[td] = NULL)
                 THEN UseUp(LWEVENT_BITS[td]) ELSE credit
    /\ Leave
    /\ pulse' = ~pulse
    /\ UNCHANGED <<k, ev, tds, manual, created>>

(***************************************************************************)
(* Interrupts, and what else tasks do.                                       *)
(***************************************************************************)
IsrSet(mask) ==
    /\ Interruptible /\ VALID
    /\ SetBits(mask)
    /\ k' = IsrReturn(Wake(Walk(mask).woken))
    /\ UNCHANGED call

Tick ==
    /\ Interruptible
    /\ k' = IsrReturn(time_notify_kernel(k))
    /\ pulse' = ~pulse
    /\ UNCHANGED <<ev, tds, call, hist>>

time_delay_ticks(n) ==
    /\ Free
    /\ k' = time_delay_internal(k, td, n)
    /\ UNCHANGED <<ev, tds, call, hist, pulse>>

Next ==
    \/ \E auto \in BOOLEAN : CreateInit(auto)
    \/ lwevent_create
    \/ lwevent_destroy
    \/ \E mask \in Mask :
        \/ lwevent_clear(mask)
        \/ lwevent_set(mask)
        \/ IsrSet(mask)
        \/ \E all \in BOOLEAN :
            \/ lwevent_wait(mask, all, FALSE, 0)
            \/ \E n \in 0 .. MaxDelay : lwevent_wait(mask, all, TRUE, n)
    \/ \E mask \in AutoMasks : lwevent_set_auto_clear(mask)
    \/ CheckRunScheduler
    \/ WaitReturn
    \/ Tick
    \/ \E n \in 1 .. MaxDelay : time_delay_ticks(n)

Spec == Init /\ [][Next]_vars

\* The timer keeps interrupting: an interrupt that finds interrupts disabled stays
\* pending, hence strong fairness.  A task that is switched in inside a wait, with
\* interrupts disabled, gets to its end.  pulse tells these steps apart.
TimerFires == Interruptible /\ pulse' = ~pulse

WaitGoesOn == ~Interruptible /\ pulse' = ~pulse

FairSpec == Spec /\ SF_pulse(TimerFires) /\ WF_pulse(WaitGoesOn)

(***************************************************************************)
(* Properties.                                                              *)
(***************************************************************************)
\* The kernel data, the event group and the calls under way have their types.
TypeOK ==
    /\ k \in Kernel
    /\ VALID \in BOOLEAN /\ VALUE \subseteq Bit /\ AUTO \subseteq Bit
    /\ LWEVENT_BITS \in [Task -> SUBSET Bit]
    /\ ALL_BITS_WANTED \subseteq Task
    /\ call \in [Task -> Calls]
    /\ manual \subseteq Bit
    /\ credit \in [Bit -> Nat]
    /\ created \in Nat
    /\ pulse \in BOOLEAN

\* The scheduler's own invariants survive every event call and interrupt; only between
\* the end of a set or destroy and its call of the scheduler may a more urgent task be
\* ready.
SchedulerConsistent ==
    /\ ReadyQueuesOK(k) /\ HintOK(k) /\ TimeoutQueueOK(k)
    /\ ~GoOn("scheduler") => RunningOK(k)

\* A task is on the wait queue exactly while its STATE and INFO say so: a set, a timeout
\* and a destroy that compete for one waiter leave it on no queue by halves.
WaitersExact ==
    /\ WaitQueuesOK(k, {})
    /\ \A t \in Task : call[t].at = "wait" =>
          (t \in Elems(k.QUEUE[WAITING_TASKS]) <=> ~IsReady(k, t))

\* Whatever event calls, timeouts and interrupts meet, the ready queues, the timeout
\* queue, the wait queue and the running task fit together.
KernelConsistent == TypeOK /\ SchedulerConsistent /\ WaitersExact

\* No task waits for bits that are set: the waiters that one set call serves clear bits
\* for each other, but they leave none that an unserved waiter is waiting for.
NoMissedEvent ==
    \A t \in Elems(k.QUEUE[WAITING_TASKS]) :
        ~Satisfied(LWEVENT_BITS[t], t \in ALL_BITS_WANTED, VALUE)

\* Tasks that a set has woken and that have not returned from their wait yet.
Granted(bit) ==
    {t \in Task : /\ call[t].at = "wait" /\ k.INFO[t] = NULL
                  /\ bit \in LWEVENT_BITS[t]}

\* An auto-clear bit is used up exactly once: each time it was raised it is still set,
\* was cleared, or is in the hands of exactly one task, whether that task's timeout, other
\* waiters or a change of AUTO come first.
EventsUsedOnce ==
    VALID => \A bit \in Bit \ manual :
        credit[bit] = Cardinality(Granted(bit)) + (IF bit \in VALUE THEN 1 ELSE 0)

\* A wait with a timeout ends, whoever sets, clears or destroys the event.
TimedWaitEnds ==
    \A t \in Task :
        t \in Elems(k.QUEUE[WAITING_TASKS]) /\ t \in k.ON_TIMEOUT_Q ~> IsReady(k, t)
=============================================================================
