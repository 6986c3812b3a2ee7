------------------------------- MODULE MCMqxTask -------------------------------
(* Model-checking instance of MqxTask: three tasks and the idle task, one of     *)
(* them created anew, and one semaphore to wait for.                             *)
EXTENDS MqxTask, TLC

CONSTANTS a, b, c, sm

Tasks == {a, b, c, Idle}
Order == <<Idle, a, b, c>>
Priorities == (a :> 0) @@ (b :> 1) @@ (c :> 1) @@ (Idle :> IDLE_PRIORITY)
=============================================================================
