SPECIFICATION Spec
CONSTANTS
    Jobs = {"update"}
    Update = "update"
    Interval = {"update"}
    SelfHosted = TRUE
    Windows = 2
    MaxRuns = 3
    MaxCrashes = 2
    MaxFaults = 1
INVARIANT OneRunAtATime
INVARIANT StopIsForThisRun
INVARIANT HandoffDescribesRun
INVARIANT RecordIsTrue
INVARIANT SettledOnce
