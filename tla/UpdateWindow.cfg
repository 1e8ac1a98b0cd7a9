SPECIFICATION WindowSpec
CONSTANTS
    Machines = {"pc", "desk"}
    Order <- ListOrder
    Window <- EarlyAndLate
    Every <- EveryDay
    Day = 10
    Tick = 1
    RunLength = 1
    Horizon = 25
    MaxEdits = 1
    MaxCrashes = 1
CHECK_DEADLOCK FALSE
INVARIANT NightsKept
INVARIANT NotKeptWaiting
PROPERTY OneAttemptUnlessCut
