----------------------------- MODULE MCMqxLwevent -----------------------------
(* Model-checking instance of MqxLwevent: two tasks and the idle task,           *)
(* one event group of two bits.                                                 *)
EXTENDS MqxLwevent, TLC

CONSTANTS a, b, wt, x, y

TwoTasks == {a, b, Idle}
TwoOrder == <<Idle, a, b>>
TwoPriorities == (a :> 0) @@ (b :> 1) @@ (Idle :> IDLE_PRIORITY)

Masks == {{x}, {x, y}}
=============================================================================
