SPECIFICATION SystemFairSpec
CONSTANTS
    c1 = c1
    t1 = t1
    t2 = t2
    buy = buy
    Commands <- OneCommand
    Exits <- NoExit
    AgentModes <- ConfirmOnly
    AgentFaults <- LinkLoss
    Callers <- OneCaller
    Contents <- OneContent
    Routes <- AgentOnly
    CoreFaults <- NoFaults
    MaxLines = 1
    MaxQueue = 2
PROPERTIES  CoreIsAnEnvironment
