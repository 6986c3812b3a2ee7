------------------------------- MODULE MCMqxSem -------------------------------
(* Model-checking instance of MqxSem: three tasks of three priorities and the  *)
(* idle task, and one semaphore of any policy.                                 *)
EXTENDS MqxSem, TLC

CONSTANTS a, b, c, s1

Tasks == {a, b, c, Idle}
Order == <<Idle, a, b, c>>
Priorities == (a :> 0) @@ (b :> 1) @@ (c :> 2) @@ (Idle :> IDLE_PRIORITY)
=============================================================================
