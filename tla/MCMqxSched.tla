------------------------------ MODULE MCMqxSched ------------------------------
(* Model-checking instance of MqxSched: two tasks and the idle task. *)
EXTENDS MqxSched, TLC

CONSTANTS a, b

Tasks == {a, b, Idle}
Order == <<Idle, a, b>>
Priorities == (a :> 0) @@ (b :> 1) @@ (Idle :> IDLE_PRIORITY)
=============================================================================
