------------------------------ MODULE MCMqxMutex ------------------------------
(* Model-checking instance of MqxMutex: three tasks of three priorities and   *)
(* the idle task, with one mutex of any protocols.                             *)
EXTENDS MqxMutex, TLC

CONSTANTS a, b, c, m1

Tasks == {a, b, c, Idle}
Order == <<Idle, a, b, c>>
Priorities == (a :> 0) @@ (b :> 1) @@ (c :> 2) @@ (Idle :> IDLE_PRIORITY)
=============================================================================
