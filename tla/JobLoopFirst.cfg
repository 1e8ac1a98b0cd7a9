SPECIFICATION Spec
CONSTANTS
    Hour = 3
    Day = 6
    Days = 2
    Tick = 2
    MaxLate = 1
    Schedules <- AllSchedules
    Horizon = 12
    MaxEdits = 0
    MaxCrashes = 0
CHECK_DEADLOCK FALSE
INVARIANT FirstRunComes
