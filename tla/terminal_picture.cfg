\* Two tasks, a worker and the one that replaces it when a call times out.
SPECIFICATION FairSpec
CONSTANTS
    Callers = {t1, t2}
    MaxWorkers = 2
    TerminalFaults = {"hang"}
INVARIANT
    PollsWhatIsThere
CHECK_DEADLOCK FALSE
