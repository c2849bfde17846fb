\* One small instance of each record.
CONSTANTS
    \* Two accounts for one terminal, a user and the supervisor.
    AccountIds = {"a1", "a2"}
    Users = {"user"}
    Reviver = "supervisor"
    AccountFaults = {"terminal", "cut", "cut erring", "cut closing", "worker"}
    \* A position of the core and a foreign one, under a click and a retry.
    Targets = {"t1", "t2"}
    Foreign = {"t2"}
    Callers = {"click", "retry"}
    CloseAllFaults = {"store", "terminal", "restart"}
    \* One command and one position opened by hand; the record may be wrong and a read may fail.
    Commands = {"k1"}
    ByHand = {"h1"}
    Records = {"phantom", "contradicted", "unread"}
    Positions = {"p1", "p2"}
    MaxCloseAttempts = 2
    TrackingFaults = {"store", "deals", "scan", "late", "restart"}
    \* Half percents of the initial capital, and a gain of one percent: 1.5 % above it, 1 % below, a stop at -2 %.
    Capital = 200
    Ceiling = 202
    FloatUp = 0
    Lowest <- LowestHere
    Highest = 1
    Grid <- GridHere
    PerTrade = 3
    Trigger = 4
    TriggerCap = 2
    N8Minimum = 2
    OpenMax = 3
    Daily = 4
    Weekly = 5
    Total = 6
    ProviderDaily = 5
    ProviderMax = 7
    Trailing = TRUE
    Step = 1
    Overlap = FALSE
    Facts = {"database down", "cycle of wins"}
    \* A gain and a loss around a midnight, under two readers.
    Balance <- BalanceHere
    MaxDeals = 2
    MaxDays = 1
    Readers = {"cycle", "review"}
    FloorFaults = {"history", "store", "restart"}
    Midnight <- MidnightHere
    LastTick = 3
    Versions = {"v1"}
    Whitelist <- WhitelistHere
    Dates <- DatesHere
    LastInstant = 4
    MaxRefreshes = 2
    MaxAge = 1
    Blackout = 1
    Retain = 2
    Keep = 1
    Setups = {"s1", "s2"}
    Acts = TRUE
    MaxCandles = 3
    StrategyFaults = {"feed", "store", "cut", "restart"}
    Clients = {"c1"}
    Shown = {"a1"}
    Capacity = 2
    MaxFacts = 4
    MaxSnapshots = 1
    StreamFaults = {"gone", "broken"}
    \* Three terminals, of one provider or the other, real or not, and a declared demo of either.
    Terminals <- TerminalsHere
    Declarations <- DeclarationsHere
    Lifetime = 1
    LastMinute = 1
    IdentityFaults = {"read", "cut"}
SPECIFICATION Spec
INVARIANTS
    OneTerminal
    ReportsAreTrue
    
    
    
PROPERTIES
    RulesAreSteady
    SetupsAreHandledOnce
\* A part stops when its environment has nothing left to do (no change of rules left, no deal, no candle).
CHECK_DEADLOCK FALSE
