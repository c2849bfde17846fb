\* One core: three symptoms; two agents, one of them too old for the halt message; two tasks on two workers; one risk
\* cycle and one gesture over one loss: its pause, a breach and a kill switch have a lockout each.
CONSTANTS
    Symptoms = {"reads fail", "stray position", "database down"}
    TopRung = "ARMED"
    ShortDelays = 1
    SupervisorFaults = {"cut", "restart"}
    Connections = {"c1", "c2"}
    Logins = {"l1", "l2"}
    Capable = {"c2"}
    Callers = {"t1", "t2"}
    MaxWorkers = 2
    TerminalFaults = {"hang", "crash", "cut", "raise", "refuse", "spawn", "undying"}
    Rows = {"r1", "r2", "r3"}
    Cycles = {"cycle"}
    Gestures = {"gesture"}
    MaxLosses = 1
    Limit = 1
SPECIFICATION Spec
PROPERTIES
    CriticalEndsInHalt
    HaltReachesEveryAgent
    StuckEnds
    PauseIsServed
    SupervisionIsSafe
\* A part stops when its environment has nothing left to do (no worker left to start).
CHECK_DEADLOCK FALSE
