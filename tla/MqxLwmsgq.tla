------------------------------ MODULE MqxLwmsgq ------------------------------
(***************************************************************************)
(* A lightweight message queue (lwmsgq.c) on the scheduling core.            *)
(*                                                                           *)
(* Send, receive and deinit run with interrupts disabled from their first    *)
(* check to their result, so a call is one action, and a second one when the *)
(* task is switched in again after it has blocked.  Being woken is not       *)
(* being served: between the two actions another task may take the message   *)
(* or the room, and the task then blocks anew.  _lwmsgq_init runs with       *)
(* interrupts enabled: the fields are one action, the kernel's list another. *)
(* A call that returns LWMSGQ_INVALID, _EMPTY, _FULL or MQX_EINVAL changes   *)
(* nothing and is not an action.                                             *)
(***************************************************************************)
EXTENDS MqxKernel

CONSTANTS
    WAITING_READERS,  \* the wait queue of the receivers
    WAITING_WRITERS,  \* the wait queue of the senders
    Msg,              \* the messages
    IsrMsg,           \* the messages that interrupt handlers send
    MAX_SIZE,         \* the number of messages the queue is created for
    MaxDelay,         \* bound: the longest timeout, in ticks
    MaxInits,         \* bound: calls of _lwmsgq_init
    ReceiveTimeouts,  \* the timeouts receives are called with: <<kind, ticks>>
    SendFlags,        \* the flags sends are called with: <<on full, on send>>
    Sender,           \* the tasks that send
    Manager           \* the tasks that init, deinit and sleep

ASSUME LwmsgqAssumption ==
    /\ WAITING_READERS \in Queue
    /\ WAITING_WRITERS \in Queue
    /\ WAITING_READERS # WAITING_WRITERS
    /\ NULL \notin Msg
    /\ NULL # LWMSGQ_DEINIT_INFO
    /\ IsrMsg \subseteq Msg
    /\ MAX_SIZE \in Nat \ {0}
    /\ MaxDelay \in Nat
    /\ MaxInits \in Nat
    /\ ReceiveTimeouts \subseteq {"none", "for", "until"} \X (0 .. MaxDelay)
    /\ SendFlags \subseteq BOOLEAN \X BOOLEAN
    /\ Sender \subseteq Task
    /\ Manager \subseteq Task

VARIABLES
    k,                \* KERNEL_DATA and the task descriptors
    q,                \* the LWMSGQ_STRUCT
    LWMSGQS,          \* KERNEL_DATA.LWMSGQS: whether the queue is on the list
    call,             \* per task: the lwmsgq call it is blocked in
    got,              \* per task: the message of its last receive that returned MQX_OK
    inits             \* history: calls of _lwmsgq_init

vars == <<k, q, LWMSGQS, call, got, inits>>

Slot == 0 .. (MAX_SIZE - 1)

\* The locations are counted in messages from MSG_START_LOC.
LwmsgqStruct ==
    [VALID         : BOOLEAN,
     CURRENT_SIZE  : 0 .. MAX_SIZE,
     MSG_READ_LOC  : Slot,
     MSG_WRITE_LOC : Slot,
     MSGS          : [Slot -> Msg \cup {NULL}]]

NoCall ==
    [at |-> "none", msg |-> NULL, block_on_send |-> FALSE,
     timeout |-> "none", ticks |-> 0, left |-> 0]

\* timeout: none, a number of ticks (ticks or LWMSGQ_TIMEOUT_FOR), or an absolute
\* time (LWMSGQ_TIMEOUT_UNTIL); left: the ticks to go from now.
Calls ==
    [at            : {"none", "init", "send", "receive"},
     msg           : Msg \cup {NULL},
     block_on_send : BOOLEAN,
     timeout       : {"none", "for", "until"},
     ticks         : 0 .. MaxDelay,
     left          : -1 .. MaxDelay]

Init ==
    /\ k = Boot
    /\ q = [VALID |-> FALSE, CURRENT_SIZE |-> 0, MSG_READ_LOC |-> 0,
            MSG_WRITE_LOC |-> 0, MSGS |-> [i \in Slot |-> NULL]]
    /\ LWMSGQS = FALSE
    /\ call = [t \in Task |-> NoCall]
    /\ got = [t \in Task |-> NULL]
    /\ inits = 0

td == k.ACTIVE_PTR

IS_EMPTY == q.CURRENT_SIZE = 0

IS_FULL == q.CURRENT_SIZE >= MAX_SIZE

\* The active task may make a call, or goes on with the one it was blocked in.
Free == td # Idle /\ call[td] = NoCall

GoOn(at) == call[td].at = at

Leave == call' = [call EXCEPT ![td] = NoCall]

\* A task that was blocked in a call is switched in with interrupts still disabled.
Interruptible == call[td].at \notin {"send", "receive"}

Next_Loc(i) == IF i + 1 >= MAX_SIZE THEN 0 ELSE i + 1

(***************************************************************************)
(* _lwmsgq_init, on memory that holds no valid queue and that nobody waits   *)
(* on, and _lwmsgq_deinit                                                    *)
(***************************************************************************)
InitFields ==
    /\ Free /\ td \in Manager /\ ~q.VALID /\ inits < MaxInits
    /\ k.QUEUE[WAITING_WRITERS] = <<>> /\ k.QUEUE[WAITING_READERS] = <<>>
    /\ k' = [k EXCEPT !.QUEUE[WAITING_WRITERS] = <<>>,
                      !.QUEUE[WAITING_READERS] = <<>>]
    /\ q' = [q EXCEPT !.VALID = TRUE, !.CURRENT_SIZE = 0,
                      !.MSG_READ_LOC = 0, !.MSG_WRITE_LOC = 0]
    /\ call' = [call EXCEPT ![td].at = "init"]
    /\ inits' = inits + 1
    /\ UNCHANGED <<LWMSGQS, got>>

lwmsgq_init ==
    /\ GoOn("init")
    /\ LWMSGQS' = TRUE
    /\ Leave
    /\ UNCHANGED <<k, q, got, inits>>

\* The writers, then the readers, each in the order they wait in.
Deinit ==
    LET waiting == Elems(k.QUEUE[WAITING_WRITERS]) \cup Elems(k.QUEUE[WAITING_READERS])
        k1 == [k EXCEPT !.INFO =
                  [t \in Task |-> IF t \in waiting THEN LWMSGQ_DEINIT_INFO ELSE @[t]]]
    IN  ReleaseAll(ReleaseAll(k1, WAITING_WRITERS), WAITING_READERS)

lwmsgq_deinit ==
    /\ Free /\ td \in Manager /\ LWMSGQS
    /\ q' = [q EXCEPT !.VALID = FALSE]
    /\ LWMSGQS' = FALSE
    /\ k' = CHECK_RUN_SCHEDULER(Deinit)
    /\ UNCHANGED <<call, got, inits>>

(***************************************************************************)
(* _lwmsgq_receive                                                           *)
(***************************************************************************)
\* Blocks the active task on WAITING_READERS; n: ticks to its timeout.
ReadBlock(timeout, n) ==
    LET k1 == [k EXCEPT !.TD_STATE[td] = "LWMSGQ_READ_BLOCKED",
                        !.INFO[td] = WAITING_READERS,
                        !.QUEUE[WAITING_READERS] = Append(@, td)]
    IN  IF timeout = "none" THEN Dispatch(UnlinkReady(k1, td))
                            ELSE time_delay_internal(k1, td, n)

WakeWriter_WhenFull ==                   \* fault: only the first free slot wakes a sender
    IF k.QUEUE[WAITING_WRITERS] = <<>> \/ ~IS_FULL
    THEN k
    ELSE LET w == Head(k.QUEUE[WAITING_WRITERS])
         IN  CHECK_RUN_SCHEDULER(TASK_READY(
                [k EXCEPT !.QUEUE[WAITING_WRITERS] = Tail(@), !.INFO[w] = NULL], w))

\* The first sender is told that there is room.
WakeWriter ==
    IF k.QUEUE[WAITING_WRITERS] = <<>>
    THEN k
    ELSE LET w == Head(k.QUEUE[WAITING_WRITERS])
         IN  CHECK_RUN_SCHEDULER(TASK_READY(
                [k EXCEPT !.QUEUE[WAITING_WRITERS] = Tail(@), !.INFO[w] = NULL], w))

\* The oldest message is copied out.
TakeMessage ==
    /\ got' = [got EXCEPT ![td] = q.MSGS[q.MSG_READ_LOC]]
    /\ q' = [q EXCEPT !.MSG_READ_LOC = Next_Loc(@), !.CURRENT_SIZE = @ - 1]
    /\ k' = WakeWriter

\* n: the timeout in ticks from now, 0 a time that has come already.
lwmsgq_receive(timeout, n) ==
    /\ Free /\ q.VALID
    /\ IF IS_EMPTY
       THEN /\ k' = ReadBlock(timeout, n)
            /\ call' = [call EXCEPT ![td] =
                  [NoCall EXCEPT !.at = "receive", !.timeout = timeout,
                                 !.ticks = n, !.left = n]]
            /\ UNCHANGED <<q, got>>
       ELSE TakeMessage /\ UNCHANGED call
    /\ UNCHANGED <<LWMSGQS, inits>>

\* LWMSGQ_DEINIT or LWMSGQ_TIMEOUT
ReceiveFails ==
    \/ k.INFO[td] = LWMSGQ_DEINIT_INFO
    \/ call[td].timeout # "none" /\ k.INFO[td] # NULL

\* Switched in again: a relative timeout starts anew when there is no message.
ReceiveResume ==
    /\ GoOn("receive")
    /\ \/ /\ ReceiveFails
          /\ Leave
          /\ UNCHANGED <<k, q, got>>
       \/ /\ ~ReceiveFails /\ ~IS_EMPTY
          /\ TakeMessage
          /\ Leave
       \/ /\ ~ReceiveFails /\ IS_EMPTY
          /\ k' = ReadBlock(call[td].timeout, IF call[td].timeout = "until"
                                              THEN call[td].left ELSE call[td].ticks)
          /\ UNCHANGED <<q, call, got>>
    /\ UNCHANGED <<LWMSGQS, inits>>

(***************************************************************************)
(* _lwmsgq_send                                                              *)
(***************************************************************************)
\* Blocks the active task on WAITING_WRITERS with the STATE it has.
WriteBlock(k0) ==
    Dispatch(UnlinkReady([k0 EXCEPT !.INFO[td] = WAITING_WRITERS,
                                    !.QUEUE[WAITING_WRITERS] = Append(@, td)], td))

WakeReader_StaysOnTimeout ==             \* fault: no _TIME_DEQUEUE
    LET r == Head(k.QUEUE[WAITING_READERS])
    IN  IF k.QUEUE[WAITING_READERS] = <<>>
        THEN k
        ELSE TASK_READY([k EXCEPT !.QUEUE[WAITING_READERS] = Tail(@),
                                  !.INFO[r] = NULL], r)

\* The first receiver is told that there is a message.
WakeReader ==
    IF k.QUEUE[WAITING_READERS] = <<>>
    THEN k
    ELSE LET r == Head(k.QUEUE[WAITING_READERS])
             k1 == TIME_DEQUEUE([k EXCEPT !.QUEUE[WAITING_READERS] = Tail(@)], r)
         IN  TASK_READY([k1 EXCEPT !.INFO[r] = NULL], r)

PutMessage_NoWrap(m) ==                  \* fault: MSG_END_LOC is compared one too late
    q' = [q EXCEPT !.MSGS[q.MSG_WRITE_LOC] = m,
                   !.MSG_WRITE_LOC = IF @ + 1 >= MAX_SIZE THEN @ ELSE @ + 1,
                   !.CURRENT_SIZE = @ + 1]

PutMessage(m) ==
    q' = [q EXCEPT !.MSGS[q.MSG_WRITE_LOC] = m,
                   !.MSG_WRITE_LOC = Next_Loc(@),
                   !.CURRENT_SIZE = @ + 1]

\* What a sending task does after it has copied its message in.
AfterSend(block_on_send) ==
    IF block_on_send THEN TaskBlock(WakeReader)
    ELSE IF k.QUEUE[WAITING_READERS] = <<>> THEN k
    ELSE CHECK_RUN_SCHEDULER(WakeReader)

lwmsgq_send(m, block_on_full, block_on_send) ==
    /\ Free /\ td \in Sender /\ q.VALID
    /\ IS_FULL => block_on_full                           \* LWMSGQ_FULL
    /\ IF IS_FULL
       THEN /\ k' = WriteBlock([k EXCEPT !.TD_STATE[td] = "LWMSGQ_WRITE_BLOCKED"])
            /\ call' = [call EXCEPT ![td] =
                  [NoCall EXCEPT !.at = "send", !.msg = m,
                                 !.block_on_send = block_on_send]]
            /\ UNCHANGED q
       ELSE /\ PutMessage(m)
            /\ k' = AfterSend(block_on_send)
            /\ UNCHANGED call
    /\ UNCHANGED <<LWMSGQS, got, inits>>

\* Switched in again: STATE, which is READY now, is not set again before the task
\* blocks anew.
SendResume ==
    /\ GoOn("send")
    /\ \/ /\ k.INFO[td] = LWMSGQ_DEINIT_INFO
          /\ Leave
          /\ UNCHANGED <<k, q>>
       \/ /\ k.INFO[td] # LWMSGQ_DEINIT_INFO /\ IS_FULL
          /\ k' = WriteBlock(k)
          /\ UNCHANGED <<q, call>>
       \/ /\ k.INFO[td] # LWMSGQ_DEINIT_INFO /\ ~IS_FULL
          /\ PutMessage(call[td].msg)
          /\ k' = AfterSend(call[td].block_on_send)
          /\ Leave
    /\ UNCHANGED <<LWMSGQS, got, inits>>

(***************************************************************************)
(* Interrupts, and what else tasks do.                                       *)
(***************************************************************************)
\* An interrupt handler sends without blocking flags.
IsrSend(m) ==
    /\ Interruptible
    /\ q.VALID /\ ~IS_FULL
    /\ PutMessage(m)
    /\ k' = IsrReturn(WakeReader)
    /\ UNCHANGED <<LWMSGQS, call, got, inits>>

Tick ==
    /\ Interruptible
    /\ k' = IsrReturn(time_notify_kernel(k))
    /\ call' = [t \in Task |-> [call[t] EXCEPT !.left =
                   IF call[t].timeout # "none" /\ @ >= 0 THEN @ - 1 ELSE @]]
    /\ UNCHANGED <<q, LWMSGQS, got, inits>>

time_delay_ticks(n) ==
    /\ Free /\ td \in Manager
    /\ k' = time_delay_internal(k, td, n)
    /\ UNCHANGED <<q, LWMSGQS, call, got, inits>>

\* A task that blocked after sending is readied by another one.
task_ready(t) ==
    /\ Free
    /\ k.TD_STATE[t] = "BLOCKED" /\ t \notin k.ON_TIMEOUT_Q
    /\ k' = CHECK_RUN_SCHEDULER(TASK_READY(k, t))
    /\ UNCHANGED <<q, LWMSGQS, call, got, inits>>

Next ==
    \/ InitFields
    \/ lwmsgq_init
    \/ lwmsgq_deinit
    \/ \E w \in ReceiveTimeouts : lwmsgq_receive(w[1], w[2])
    \/ ReceiveResume
    \/ \E m \in Msg \ IsrMsg, f \in SendFlags : lwmsgq_send(m, f[1], f[2])
    \/ SendResume
    \/ \E m \in IsrMsg : IsrSend(m)
    \/ Tick
    \/ \E n \in 1 .. MaxDelay : time_delay_ticks(n)
    \/ \E t \in Task : task_ready(t)

Spec == Init /\ [][Next]_vars

(***************************************************************************)
(* Properties.                                                              *)
(***************************************************************************)
\* The kernel data, the queue and the calls under way have their types.
TypeOK ==
    /\ k \in Kernel
    /\ q \in LwmsgqStruct
    /\ LWMSGQS \in BOOLEAN
    /\ call \in [Task -> Calls]
    /\ got \in [Task -> Msg \cup {NULL}]
    /\ inits \in Nat

\* The kernel with the STATE that the tasks on WAITING_WRITERS should have.
Corrected ==
    [k EXCEPT !.TD_STATE = [t \in Task |->
        IF t \in Elems(k.QUEUE[WAITING_WRITERS]) THEN "LWMSGQ_WRITE_BLOCKED" ELSE @[t]]]

\* The scheduler's own invariants survive every message queue call and interrupt, but
\* for the STATE of a sender that found the queue full twice.
SchedulerConsistent == SchedulerOK(Corrected)

\* A task blocked in a send or a receive is on that wait queue or ready, never both,
\* never neither: a message, a timeout and a deinit that compete for one task leave it
\* on no queue by halves.
WaitersExact ==
    /\ WaitQueuesOK(Corrected, {})
    /\ \A t \in Task :
        /\ call[t].at = "receive" =>
              (t \in Elems(k.QUEUE[WAITING_READERS]) <=> ~IsReady(Corrected, t))
        /\ call[t].at = "send" =>
              (t \in Elems(k.QUEUE[WAITING_WRITERS]) <=> ~IsReady(Corrected, t))

\* Whatever sends, receives, timeouts and interrupts meet, the ready queues, the timeout
\* queue, the wait queues and the running task fit together.
KernelConsistent == TypeOK /\ SchedulerConsistent /\ WaitersExact

\* Tasks told that there is a message, or room, which have not run since.
Woken(at) == {t \in Task : call[t].at = at /\ k.INFO[t] = NULL}

\* While a receiver waits, there is a woken receiver on its way to every message: no
\* message is left lying because the receiver it woke found it gone, timed out or lost
\* its place.
NoMessageLeft ==
    k.QUEUE[WAITING_READERS] # <<>> => q.CURRENT_SIZE <= Cardinality(Woken("receive"))

\* While a sender waits, there is a woken sender on its way to every free slot.
NoRoomLeft ==
    k.QUEUE[WAITING_WRITERS] # <<>> =>
        MAX_SIZE - q.CURRENT_SIZE <= Cardinality(Woken("send"))

\* Nobody sleeps on while what it waits for is there and nobody else has been woken for
\* it: sends and receives pass every wake-up on.
NobodyLeftWaiting == NoMessageLeft /\ NoRoomLeft

\* The messages in the ring, the oldest first.
Buffer ==
    [i \in 1 .. q.CURRENT_SIZE |-> q.MSGS[(q.MSG_READ_LOC + i - 1) % MAX_SIZE]]

Channel ==
    INSTANCE MqxChannel WITH
        Client   <- Task,
        Capacity <- MAX_SIZE,
        Nothing  <- NULL,
        buf      <- Buffer,
        want     <- [t \in Task |->
                       [op  |-> CASE call[t].at = "receive" -> "get"
                                  [] call[t].at = "send" -> "put"
                                  [] OTHER -> "none",
                        msg |-> call[t].msg]]

\* The queue is a bounded first-in-first-out channel: whatever blocks, wakes, times out
\* or finds its message taken, each send that returns MQX_OK puts its message in once,
\* each receive that does takes the oldest out once, and every other call leaves the
\* messages alone.
ImplementsChannel == Channel!Spec

\* "All the tasks waiting for a message or are blocked upon full message queue are
\* released" by _lwmsgq_deinit: nobody waits on a queue that is not valid.
NoWaitOnDeinited ==
    ~q.VALID => k.QUEUE[WAITING_READERS] = <<>> /\ k.QUEUE[WAITING_WRITERS] = <<>>
=============================================================================
