\* One cockpit, two accounts, two snapshots on their way.
SPECIFICATION Spec
CONSTANTS
    Clients = {c1}
    Accounts = {a1, a2}
    Capacity = 2
    MaxFacts = 2
    MaxSnapshots = 2
    StreamFaults = {"gone", "broken"}
INVARIANT
    SeesWhatIs
CHECK_DEADLOCK FALSE
