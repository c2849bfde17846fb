SPECIFICATION SystemSpec
CONSTANTS
    c1 = c1
    t1 = t1
    t2 = t2
    buy = buy
    Commands <- OneCommand
    Exits <- NoExit
    AgentModes <- ConfirmOnly
    AgentFaults <- LinkAndCrash
    Callers <- TwoCallers
    Contents <- OneContent
    Routes <- AgentOnly
    CoreFaults <- CoreCrashes
    MaxLines = 1
    MaxQueue = 2
 
PROPERTIES RefusalAfterSendIsTrue
SYMMETRY CallerSymmetry
