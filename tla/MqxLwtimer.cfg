SPECIFICATION Spec
CONSTANTS
    t1 = t1
    t2 = t2
    t3 = t3
    q1 = q1
    q2 = q2
    Timer <- MCTimer
    Period <- MCPeriod
    TimersOf <- MCTimersOf
    LWTIMERS = LWTIMERS
    Periods = {2}
    Waits = {0, 1}
    Task = {a}
    CancelsRace = FALSE
    CallsOn = FALSE
SYMMETRY Symmetry
INVARIANT ListsConsistent
PROPERTY CalledOncePerPeriod
