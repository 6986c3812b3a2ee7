------------------------------ MODULE MqxChannel ------------------------------
(***************************************************************************)
(* What a lightweight message queue promises, without its ring buffer, wait  *)
(* queues, scheduler and timer: a first-in-first-out channel of at most      *)
(* Capacity messages.  A task may stand waiting to put a message in or to    *)
(* take one out.  It ends by doing so, exactly once, or by giving up, which  *)
(* leaves the channel alone.  MqxLwmsgq is shown to implement this.          *)
(***************************************************************************)
EXTENDS Integers, Sequences

CONSTANTS
    Client,           \* who puts and takes
    Msg,              \* the messages
    Capacity,         \* how many messages the channel holds
    Nothing           \* not a message

VARIABLES
    buf,              \* the messages in the channel, the oldest first
    want,             \* per client: what it stands waiting for
    got               \* per client: the last message it has taken out

Idling == [op |-> "none", msg |-> Nothing]
Getting == [op |-> "get", msg |-> Nothing]
Putting(m) == [op |-> "put", msg |-> m]

Init ==
    /\ buf = <<>>
    /\ want = [t \in Client |-> Idling]
    /\ got = [t \in Client |-> Nothing]

\* A message goes in that no client stands waiting with.
Put(m) ==
    /\ Len(buf) < Capacity
    /\ buf' = Append(buf, m)
    /\ UNCHANGED <<want, got>>

\* A client that stands waiting puts its message in.
PutWaiting(t) ==
    /\ want[t].op = "put"
    /\ Len(buf) < Capacity
    /\ buf' = Append(buf, want[t].msg)
    /\ want' = [want EXCEPT ![t] = Idling]
    /\ UNCHANGED got

\* A client takes the oldest message out, at once or after it stood waiting.
Get(t) ==
    /\ want[t] \in {Idling, Getting}
    /\ buf # <<>>
    /\ buf' = Tail(buf)
    /\ got' = [got EXCEPT ![t] = Head(buf)]
    /\ want' = [want EXCEPT ![t] = Idling]

\* A client stands waiting, for room or for a message, only when there is none.
Wait(t, w) ==
    /\ want[t] = Idling
    /\ IF w = Getting THEN buf = <<>> ELSE Len(buf) = Capacity
    /\ want' = [want EXCEPT ![t] = w]
    /\ UNCHANGED <<buf, got>>

\* A timeout, or the end of the channel.
GiveUp(t) ==
    /\ want' = [want EXCEPT ![t] = Idling]
    /\ UNCHANGED <<buf, got>>

\* The channel is set up anew.
Reset ==
    /\ buf' = <<>>
    /\ UNCHANGED <<want, got>>

Next ==
    \/ \E m \in Msg : Put(m)
    \/ \E t \in Client :
        \/ PutWaiting(t)
        \/ Get(t)
        \/ \E w \in {Getting} \cup {Putting(m) : m \in Msg} : Wait(t, w)
        \/ GiveUp(t)
    \/ Reset

vars == <<buf, want, got>>

Spec == Init /\ [][Next]_vars
=============================================================================
