------------------------------ MODULE MqxLwtimer ------------------------------
(***************************************************************************)
(* Lightweight timers (lwtimer.c).  A periodic queue holds timers in the      *)
(* order of their offsets in its period; the timer interrupt goes through the *)
(* queues and, in each, on from TIMER_PTR, the timer it called last.          *)
(*                                                                           *)
(* The lists are modelled with their links, because a function that the      *)
(* interrupt calls may cancel and add timers, and a link that was read before*)
(* a timer was unlinked leads on from where it had been.  A timer queue's own *)
(* node is the queue; TIMERS and LWTIMERS are lists of different links.       *)
(*                                                                           *)
(* Tasks make a call in two steps, the checks with interrupts enabled and     *)
(* then the part with interrupts disabled, and the timer interrupt and other  *)
(* tasks come in between; a timer function is inside the interrupt and makes  *)
(* a call in one step.  A call that is refused changes nothing and is left    *)
(* out.                                                                       *)
(***************************************************************************)
EXTENDS Integers, FiniteSets

CONSTANTS
    Task,              \* the tasks that make calls
    Timer,             \* the LWTIMER_STRUCTs
    Period,            \* the LWTIMER_PERIOD_STRUCTs
    LWTIMERS,          \* KERNEL_DATA.LWTIMERS, the head of the list of queues
    Periods,           \* the lengths of periods, in ticks
    TimersOf,          \* the timers that the program adds to each queue
    Waits,             \* the numbers of ticks to wait before a queue starts
    CancelsRace,       \* what one caller is cancelling, another may cancel too
    CallsOn            \* a timer function that cancelled its own timer goes on to make calls

ASSUME LwtimerAssumption ==
    /\ IsFiniteSet(Timer) /\ IsFiniteSet(Period)
    /\ Timer \cap Period = {} /\ LWTIMERS \notin Timer \cup Period
    /\ Periods \subseteq Nat \ {0}
    /\ Waits \subseteq Nat
    /\ TimersOf \in [Period -> SUBSET Timer]
    /\ CancelsRace \in BOOLEAN /\ CallsOn \in BOOLEAN

VARIABLES
    queue,             \* per LWTIMER_PERIOD_STRUCT: its fields
    timer,             \* per LWTIMER_STRUCT: its fields
    LINK,              \* the links of the lists TIMERS
    QLINK,             \* the links of the list LWTIMERS
    call,              \* per task: the call whose checks it has passed
    isr,               \* _lwtimer_isr_internal: how far it is
    called,            \* history: timers on a queue called in this period since they were added
    late               \* history: timers added when their offset had been passed

vars == <<queue, timer, LINK, QLINK, call, isr, called, late>>

(***************************************************************************)
(* Doubly linked lists: a record of the functions NEXT and PREV.            *)
(***************************************************************************)
Links(N) == [NEXT : [N -> N], PREV : [N -> N]]

\* _QUEUE_INIT: every node the head of an empty list.
QUEUE_INIT(l, h) == [l EXCEPT !.NEXT[h] = h, !.PREV[h] = h]

\* _QUEUE_LINK: e after node n.
QUEUE_LINK(l, n, e) ==
    LET m == l.NEXT[n]
    IN  [NEXT |-> [l.NEXT EXCEPT ![e] = m, ![n] = e],
         PREV |-> [l.PREV EXCEPT ![e] = n, ![m] = e]]

\* _QUEUE_UNLINK: e keeps its own links.
QUEUE_UNLINK(l, e) ==
    [l EXCEPT !.NEXT[l.PREV[e]] = l.NEXT[e], !.PREV[l.NEXT[e]] = l.PREV[e]]

\* The n-th node after h.
Nth(l, h, n) ==
    LET node[i \in 0 .. n] == IF i = 0 THEN h ELSE l.NEXT[node[i - 1]]
    IN  node[n]

Self(N) == [NEXT |-> [n \in N |-> n], PREV |-> [n \in N |-> n]]

(***************************************************************************)
(* The state.                                                               *)
(***************************************************************************)
Ticks == 0 .. (CHOOSE n \in Periods \cup Waits : \A m \in Periods \cup Waits : m <= n)

\* QUEUE_STRUCT.SIZE has 16 bits.
SizeWidth == 2^16

LwtimerPeriodStruct ==
    [VALID : BOOLEAN, PERIOD : Ticks, EXPIRY : Ticks, WAIT : Ticks,
     TIMER_PTR : Timer \cup Period, SIZE : 0 .. SizeWidth - 1]

LwtimerStruct == [VALID : BOOLEAN, RELATIVE_TICKS : Ticks, PERIOD_PTR : Period]

NoCall == [op |-> "none"]

\* t is added to q, t is cancelled that was on q, q is cancelled.
Calls ==
    {NoCall} \cup [op : {"add", "cancel_timer"}, t : Timer, q : Period]
             \cup [op : {"cancel_period"}, q : Period]

Off == [at |-> "off", q |-> LWTIMERS, t |-> LWTIMERS]

Init ==
    /\ queue = [q \in Period |-> [VALID |-> FALSE, PERIOD |-> 0, EXPIRY |-> 0, WAIT |-> 0,
                                  TIMER_PTR |-> q, SIZE |-> 0]]
    /\ timer \in [Timer -> {[VALID |-> FALSE, RELATIVE_TICKS |-> 0, PERIOD_PTR |-> q] :
                              q \in {CHOOSE q \in Period : TRUE}}]
    /\ LINK = Self(Timer \cup Period)
    /\ QLINK = Self(Period \cup {LWTIMERS})
    /\ call = [u \in Task |-> NoCall]
    /\ isr = Off
    /\ called = {}
    /\ late = {}

\* A task runs while no timer interrupt is served; a timer function is called by it.
TaskRuns == isr.at = "off"
FunctionRuns == isr.at = "call" /\ (CallsOn \/ timer[isr.t].VALID)

TaskCalls(u, c) ==
    /\ TaskRuns /\ call[u] = NoCall
    /\ call' = [call EXCEPT ![u] = c]
    /\ UNCHANGED <<queue, timer, LINK, QLINK, isr, called, late>>

TaskReturns(u) == TaskRuns /\ call' = [call EXCEPT ![u] = NoCall]

FunctionCalls == FunctionRuns /\ UNCHANGED call

\* Nobody else is cancelling this timer, this queue.
MayCancelTimer(t) ==
    CancelsRace \/ \A u \in Task : call[u].op = "cancel_timer" => call[u].t # t
MayCancelPeriod(q) ==
    CancelsRace \/ \A u \in Task : call[u].op = "cancel_period" => call[u].q # q

\* The program adds a timer only while it is on no queue and nobody is adding it.
MayAdd(t) ==
    ~timer[t].VALID /\ \A u \in Task : call[u].op = "add" => call[u].t # t

(***************************************************************************)
(* _lwtimer_create_periodic_queue, _lwtimer_cancel_period                   *)
(***************************************************************************)
\* A structure is used for one queue only, for good; nobody sees it before it is VALID.
lwtimer_create_periodic_queue(q, period, wait_ticks) ==
    /\ TaskRuns \/ FunctionRuns
    /\ queue[q].PERIOD = 0
    /\ queue' = [queue EXCEPT ![q] = [VALID |-> TRUE, PERIOD |-> period, EXPIRY |-> 0,
                                      WAIT |-> wait_ticks, TIMER_PTR |-> q, SIZE |-> 0]]
    /\ LINK' = QUEUE_INIT(LINK, q)
    /\ QLINK' = QUEUE_LINK(QLINK, QLINK.PREV[LWTIMERS], q)
    /\ UNCHANGED <<timer, call, isr, called, late>>

\* With interrupts disabled.
lwtimer_cancel_period(q) ==
    /\ queue' = [queue EXCEPT ![q].VALID = FALSE]
    /\ QLINK' = QUEUE_UNLINK(QLINK, q)
    /\ UNCHANGED <<timer, LINK, isr, called, late>>

CancelPeriodChecks(u, q) ==
    /\ queue[q].VALID /\ MayCancelPeriod(q)
    /\ TaskCalls(u, [op |-> "cancel_period", q |-> q])

CancelPeriodLocked(u) ==
    /\ call[u].op = "cancel_period"
    /\ TaskReturns(u)
    /\ lwtimer_cancel_period(call[u].q)

FunctionCancelsPeriod(q) ==
    /\ FunctionCalls
    /\ queue[q].VALID /\ MayCancelPeriod(q)
    /\ lwtimer_cancel_period(q)

(***************************************************************************)
(* _lwtimer_add_timer_to_queue                                              *)
(***************************************************************************)
\* The node after which a timer with this offset belongs: before its equals.
InsertionPoint(q, ticks) ==
    LET n == queue[q].SIZE
        Less(i) == timer[Nth(LINK, q, i)].RELATIVE_TICKS < ticks
    IN  Nth(LINK, q, CHOOSE i \in 0 .. n :
                        /\ \A j \in 1 .. i : Less(j)
                        /\ i < n => ~Less(i + 1))

\* The fields written before interrupts are disabled, of a timer that is on no queue.
Prepared(q, t, ticks) == [timer[t] EXCEPT !.PERIOD_PTR = q, !.RELATIVE_TICKS = ticks]

\* With interrupts disabled; tm is the timer's structure then.
lwtimer_add_timer_to_queue(q, t, tm) ==
    LET ticks == tm.RELATIVE_TICKS
    IN  /\ LINK' = QUEUE_LINK(LINK, InsertionPoint(q, ticks), t)
        /\ queue' = [queue EXCEPT ![q].SIZE = (@ + 1) % SizeWidth]
        /\ timer' = [timer EXCEPT ![t] = [tm EXCEPT !.VALID = TRUE]]
        /\ called' = called \ {t}
        /\ late' = IF \/ ticks < queue[q].EXPIRY
                      \/ ticks = queue[q].EXPIRY /\ isr.at = "call" /\ isr.q = q
                   THEN late \cup {t} ELSE late \ {t}
        /\ UNCHANGED <<QLINK, isr>>

AddChecks(u, q, t, ticks) ==
    /\ TaskRuns /\ call[u] = NoCall
    /\ queue[q].VALID
    /\ ticks < queue[q].PERIOD
    /\ MayAdd(t)
    /\ timer' = [timer EXCEPT ![t] = Prepared(q, t, ticks)]
    /\ call' = [call EXCEPT ![u] = [op |-> "add", t |-> t, q |-> q]]
    /\ UNCHANGED <<queue, LINK, QLINK, isr, called, late>>

AddLocked(u) ==
    /\ call[u].op = "add"
    /\ TaskReturns(u)
    /\ lwtimer_add_timer_to_queue(call[u].q, call[u].t, timer[call[u].t])

FunctionAdds(q, t, ticks) ==
    /\ FunctionCalls
    /\ queue[q].VALID
    /\ ticks < queue[q].PERIOD
    /\ MayAdd(t)
    /\ lwtimer_add_timer_to_queue(q, t, Prepared(q, t, ticks))

(***************************************************************************)
(* _lwtimer_cancel_timer                                                    *)
(***************************************************************************)
lwtimer_cancel_timer_KeepsCursor(t, q) ==   \* fault: TIMER_PTR stays at the timer
    /\ IF queue[q].VALID
       THEN /\ timer' = [timer EXCEPT ![t].VALID = FALSE]
            /\ queue' = [queue EXCEPT ![q].SIZE = (@ - 1) % SizeWidth]
            /\ LINK' = QUEUE_UNLINK(LINK, t)
            /\ called' = called \ {t}
            /\ late' = late \ {t}
       ELSE UNCHANGED <<timer, queue, LINK, called, late>>
    /\ UNCHANGED <<QLINK, isr>>

\* With interrupts disabled: q, which was read before, is checked, t is not.
lwtimer_cancel_timer(t, q) ==
    /\ IF queue[q].VALID
       THEN /\ timer' = [timer EXCEPT ![t].VALID = FALSE]
            /\ queue' = [queue EXCEPT ![q].SIZE = (@ - 1) % SizeWidth,
                                      ![q].TIMER_PTR = IF @ = t THEN LINK.PREV[t] ELSE @]
            /\ LINK' = QUEUE_UNLINK(LINK, t)
            /\ called' = called \ {t}
            /\ late' = late \ {t}
       ELSE UNCHANGED <<timer, queue, LINK, called, late>>
    /\ UNCHANGED <<QLINK, isr>>

CancelTimerChecks(u, t) ==
    /\ timer[t].VALID /\ MayCancelTimer(t)
    /\ TaskCalls(u, [op |-> "cancel_timer", t |-> t, q |-> timer[t].PERIOD_PTR])

CancelTimerLocked(u) ==
    /\ call[u].op = "cancel_timer"
    /\ TaskReturns(u)
    /\ lwtimer_cancel_timer(call[u].t, call[u].q)

FunctionCancelsTimer(t) ==
    /\ FunctionCalls
    /\ timer[t].VALID /\ MayCancelTimer(t)
    /\ lwtimer_cancel_timer(t, timer[t].PERIOD_PTR)

(***************************************************************************)
(* _lwtimer_isr_internal                                                    *)
(***************************************************************************)
lwtimer_isr ==
    /\ isr.at = "off"
    /\ isr' = [isr EXCEPT !.at = "queue", !.q = QLINK.NEXT[LWTIMERS]]
    /\ UNCHANGED <<queue, timer, LINK, QLINK, call, called, late>>

\* The next periodic queue: none, one that has to wait, or one to go through.
IsrQueue ==
    LET q == isr.q
    IN  /\ isr.at = "queue"
        /\ IF q = LWTIMERS
           THEN isr' = Off /\ UNCHANGED queue
           ELSE IF queue[q].WAIT > 0
                THEN /\ queue' = [queue EXCEPT ![q].WAIT = @ - 1]
                     /\ isr' = [isr EXCEPT !.q = QLINK.NEXT[q]]
                ELSE /\ isr' = [isr EXCEPT !.at = "timer",
                                           !.t = LINK.NEXT[queue[q].TIMER_PTR]]
                     /\ UNCHANGED queue
        /\ UNCHANGED <<timer, LINK, QLINK, call, called, late>>

Due(q, t) == timer[t].RELATIVE_TICKS <= queue[q].EXPIRY

IsrCall_KeepsCursor ==                   \* fault: TIMER_PTR does not move on
    /\ isr.at = "timer" /\ isr.t \in Timer
    /\ Due(isr.q, isr.t)
    /\ isr' = [isr EXCEPT !.at = "call"]
    /\ called' = called \cup {isr.t}
    /\ UNCHANGED <<queue, timer, LINK, QLINK, call, late>>

\* The timer's function is called.
IsrCall ==
    /\ isr.at = "timer" /\ isr.t \in Timer
    /\ Due(isr.q, isr.t)
    /\ queue' = [queue EXCEPT ![isr.q].TIMER_PTR = isr.t]
    /\ isr' = [isr EXCEPT !.at = "call"]
    /\ called' = called \cup {isr.t}
    /\ UNCHANGED <<timer, LINK, QLINK, call, late>>

\* It returns.
IsrCallReturns ==
    /\ isr.at = "call"
    /\ isr' = [isr EXCEPT !.at = "timer", !.t = LINK.NEXT[isr.t]]
    /\ UNCHANGED <<queue, timer, LINK, QLINK, call, called, late>>

\* For the history: those of S whose queue is q.
OfQueue(S, q) == {t \in S : timer[t].PERIOD_PTR = q}

\* The end of the list, or a timer that is not due; at the end of the period the queue
\* is rewound.
IsrQueueEnds ==
    LET q == isr.q
        e == queue[q].EXPIRY + 1
    IN  /\ isr.at = "timer"
        /\ isr.t \in Timer => ~Due(q, isr.t)
        /\ IF e = queue[q].PERIOD
           THEN /\ queue' = [queue EXCEPT ![q].EXPIRY = 0, ![q].TIMER_PTR = q]
                /\ called' = called \ OfQueue(called, q)
                /\ late' = late \ OfQueue(late, q)
           ELSE queue' = [queue EXCEPT ![q].EXPIRY = e] /\ UNCHANGED <<called, late>>
        /\ isr' = [at |-> "queue", q |-> QLINK.NEXT[q], t |-> LWTIMERS]
        /\ UNCHANGED <<timer, LINK, QLINK, call>>

Next ==
    \/ \E q \in Period, period \in Periods, wait_ticks \in Waits :
          lwtimer_create_periodic_queue(q, period, wait_ticks)
    \/ \E u \in Task, q \in Period, ticks \in Ticks :
          \E t \in TimersOf[q] : AddChecks(u, q, t, ticks)
    \/ \E u \in Task, t \in Timer : CancelTimerChecks(u, t)
    \/ \E u \in Task, q \in Period : CancelPeriodChecks(u, q)
    \/ \E u \in Task : AddLocked(u) \/ CancelTimerLocked(u) \/ CancelPeriodLocked(u)
    \/ \E q \in Period, ticks \in Ticks :
          \E t \in TimersOf[q] : FunctionAdds(q, t, ticks)
    \/ \E t \in Timer : FunctionCancelsTimer(t)
    \/ \E q \in Period : FunctionCancelsPeriod(q)
    \/ lwtimer_isr
    \/ IsrQueue
    \/ IsrCall
    \/ IsrCallReturns
    \/ IsrQueueEnds

Spec == Init /\ [][Next]_vars

(***************************************************************************)
(* Properties.                                                              *)
(***************************************************************************)
\* The structures and the links have their types.
TypeOK ==
    /\ queue \in [Period -> LwtimerPeriodStruct]
    /\ timer \in [Timer -> LwtimerStruct]
    /\ LINK \in Links(Timer \cup Period)
    /\ QLINK \in Links(Period \cup {LWTIMERS})
    /\ call \in [Task -> Calls]
    /\ isr \in [at : {"off", "queue", "timer", "call"},
                q  : Period \cup {LWTIMERS},
                t  : Timer \cup Period \cup {LWTIMERS}]
    /\ called \in SUBSET Timer
    /\ late \in SUBSET Timer

\* The timers on the list of q, and q itself as its head.
OnList(q) == {Nth(LINK, q, i) : i \in 0 .. queue[q].SIZE}

\* A valid queue's list comes back to its head after SIZE timers, forwards and
\* backwards, holds exactly the valid timers of the queue, sorted by offset, and
\* TIMER_PTR is on it: the interrupt always finds its place again, whatever was
\* added or cancelled since, the timer at TIMER_PTR included.  lwtimer.c:88-89 says "in
\* order of increasing offset" of the list, and :215 that the cancellation of an invalid
\* timer is refused, so that none is unlinked and counted down twice.  With CancelsRace
\* it fails: _lwtimer_cancel_timer looks at VALID before it disables interrupts.
ListsExact ==
    \A q \in Period : queue[q].VALID =>
        LET n == queue[q].SIZE
        IN  /\ n <= Cardinality(Timer)
            /\ Nth(LINK, q, n + 1) = q
            /\ \A e \in OnList(q) : LINK.PREV[LINK.NEXT[e]] = e
            /\ OnList(q) \ {q} = {t \in OfQueue(Timer, q) : timer[t].VALID}
            /\ Cardinality(OnList(q)) = n + 1
            /\ \A i, j \in 1 .. n : i < j =>
                  timer[Nth(LINK, q, i)].RELATIVE_TICKS <= timer[Nth(LINK, q, j)].RELATIVE_TICKS
            /\ queue[q].TIMER_PTR \in OnList(q)

\* The structures are of their types and the lists are well formed, between any two steps
\* of tasks, of the timer interrupt and of the functions it calls, though interrupts and
\* other tasks come between the checks of a task's call and its effect.  Checked of
\* programs in which no two callers cancel the same thing at the same time, no timer is
\* added that is on a queue, and a function that cancels its own timer then returns.
ListsConsistent == TypeOK /\ ListsExact

\* When the interrupt is done with a queue's tick, every timer on it whose offset has
\* come in this period has been called, unless it was added after its time.
NoneSkipped ==
    \A q \in Period : queue[q].VALID /\ queue'[q].EXPIRY # queue[q].EXPIRY =>
        \A t \in OfQueue(Timer, q) :
            timer[t].VALID /\ Due(q, t) /\ t \notin late => t \in called

\* A timer that is called has not been called in this period, unless it was cancelled and
\* added again, and has not been cancelled.
CalledOnce ==
    \A t \in Timer : isr.at # "call" /\ isr'.at = "call" /\ isr'.t = t =>
        t \notin called /\ timer[t].VALID

\* In each period every timer that stays on its queue is called, and called once, though
\* tasks between the ticks, and the functions called before it in the same interrupt, add
\* and cancel timers, the next one included, while _lwtimer_isr_internal is on its way
\* through the list.  Checked of the same programs as ListsConsistent: a function may
\* cancel its own timer as the last of its calls only (the loop then goes on along the
\* links of an unlinked timer, lwtimer.c:188, which later calls could have made stale).
CalledOncePerPeriod == [][NoneSkipped /\ CalledOnce]_vars
=============================================================================
