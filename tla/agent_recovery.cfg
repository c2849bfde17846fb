SPECIFICATION AgentFairSpec
CONSTANTS
    open1 = open1
    close1 = close1
    Commands <- OneExit
    Exits <- OneExit
    AgentModes <- ConfirmOnly
    AgentFaults <- HaltLinkAndCrash
    MaxLines = 1
    MaxQueue = 2
 
PROPERTIES UnknownIsResolved
