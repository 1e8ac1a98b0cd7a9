SPECIFICATION LoopAndSweepSpec
CONSTANTS
    Hour = 3
    Day = 6
    Days = 2
    Tick = 2
    MaxLate = 1
    Schedules <- AllSchedules
    Horizon = 13
    MaxEdits = 1
    MaxCrashes = 1
    Number = 4
    WatchedOnly = {4}
    NotToSweep = {2}
    Asked <- MCAsked
CHECK_DEADLOCK FALSE
INVARIANT ScheduleKept
 
INVARIANT SweepIsComplete
PROPERTY EachStartIsOwed
