CONSTANTS
    \* One click on two accounts, of which one is real.
    Clicks = {"click"}
    Accounts = {"demo", "real"}
    Live = {"real"}
    MaxMode <- MaxModeHere
    StartupFaults = {"bug", "switch"}
    \* A price below, at, and above the entry: a trailed stop, a break-even, and a loss limit that is reached.
    Prices = {1, 3, 4}
    Entry = 2
    FirstStop = 1
    MaxAttempts = 1
    Options = {"breakeven", "trail"}
    Lots = 1
    World = {"price", "breached"}
    \* Two bars and two links, with the broker's clock known from the start.
    MaxBars = 2
    MaxLinks = 2
    Window = 2
    Shift = 0
    FeedFaults = {"read", "cut"}
SPECIFICATION Spec
INVARIANT
    ShownIsTrue
PROPERTIES
    StopNeverLoosens
    LoopsGoOn
    
\* A part stops when its environment has nothing left to do (the click was made, the position is closed).
CHECK_DEADLOCK FALSE
