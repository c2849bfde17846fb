SPECIFICATION FairSpec
CONSTANTS
    p1 = p1
    p2 = p2
    duty = duty
    supervisor = supervisor
    Callers <- PersonAndSupervisor
    Scheduled <- TheSupervisor
    Duty = duty
    Ceilings <- LowAndHighCeilings
    AutonomyFaults <- AllAutonomyFaults
INVARIANTS
    ClimbsAreOnRecord
PROPERTIES
    OneRungAtATime
    HaltIsLeftByAcknowledgement
    HaltTakesEffect
    AutomaticRungsEnd
    CeilingIsRespected
