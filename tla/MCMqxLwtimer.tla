----------------------------- MODULE MCMqxLwtimer -----------------------------
(* Model-checking instance of MqxLwtimer: a queue of up to three timers, so that   *)
(* one is before and one after the timer that is being called, a second queue that *)
(* shares a timer with it, and a task that makes calls.  The two timers that only  *)
(* the first queue uses are interchangeable.                                       *)
EXTENDS MqxLwtimer, TLC

CONSTANTS t1, t2, t3, q1, q2

MCTimer == {t1, t2, t3}
MCPeriod == {q1, q2}
MCTimersOf == [q \in MCPeriod |-> IF q = q1 THEN MCTimer ELSE {t3}]
Symmetry == Permutations({t1, t2})
=============================================================================
