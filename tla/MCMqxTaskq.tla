------------------------------ MODULE MCMqxTaskq ------------------------------
(* Model-checking instance of MqxTaskq: three tasks and the idle task, one task *)
(* queue in FIFO order and one by priority.                                     *)
EXTENDS MqxTaskq, TLC

CONSTANTS a, b, c, fifo, prio

Tasks == {a, b, c, Idle}
Order == <<Idle, a, b, c>>
Priorities == (a :> 0) @@ (b :> 1) @@ (c :> 1) @@ (Idle :> IDLE_PRIORITY)
=============================================================================
