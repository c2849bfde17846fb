SPECIFICATION AgentSpec
CONSTANTS
    open1 = open1
    close1 = close1
    Commands <- OneCommand
    Exits <- NoExit
    AgentModes <- BothModes
    AgentFaults <- StoreFaults
    MaxLines = 2
    MaxQueue = 2
INVARIANTS  AtMostOnce  ObserveNeverTrades
PROPERTIES FinalIsFinal  
