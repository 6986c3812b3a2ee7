----------------------------- MODULE MCMqxLwmsgq -----------------------------
(* Model-checking instance of MqxLwmsgq: three tasks, two of them of equal      *)
(* priority, and the idle task; one queue.                                      *)
EXTENDS MqxLwmsgq, TLC

CONSTANTS a, b, c, rd, wr, x, y

TwoTasks == {a, b, Idle}
TwoOrder == <<Idle, a, b>>
TwoPriorities == (a :> 0) @@ (b :> 1) @@ (Idle :> IDLE_PRIORITY)

ThreeTasks == {a, b, c, Idle}
ThreeOrder == <<Idle, a, b, c>>
ThreePriorities ==
    (a :> 0) @@ (b :> 1) @@ (c :> 1) @@ (Idle :> IDLE_PRIORITY)

Timeouts == {<<"none", 0>>, <<"for", 1>>, <<"until", 0>>}
Flags == {<<TRUE, FALSE>>, <<FALSE, TRUE>>}
=============================================================================
