------------------------------ MODULE MCMqxLwsem ------------------------------
(* Model-checking instance of MqxLwsem: tasks of two priorities, two of them   *)
(* equal, and the idle task.                                                   *)
EXTENDS MqxLwsem, TLC

CONSTANTS a, b, c, s1

ThreeTasks == {a, b, c, Idle}
ThreeOrder == <<Idle, a, b, c>>
ThreePriorities ==
    (a :> 0) @@ (b :> 1) @@ (c :> 1) @@ (Idle :> IDLE_PRIORITY)

Sliced == {b, c}

Numbers == {-1, 1}
=============================================================================
