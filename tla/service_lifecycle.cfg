SPECIFICATION ServiceSpec
CONSTANTS
    c1 = c1
    t1 = t1
    t2 = t2
    buy = buy
    sell = sell
    Commands <- OneCommand
    Callers <- TwoCallers
    Contents <- TwoContents
    Routes <- Everywhere
    CoreFaults <- AllFaults
    MaxLines = 1
    MaxQueue = 1
INVARIANTS SaysHowItEnded
PROPERTIES FollowsLifecycle DoubtWaitsForEvidence EndedStaysEnded OneOrderPerId
SYMMETRY TaskAndOrderSymmetry
