SPECIFICATION FairSpec
CONSTANTS
    Jobs = {"log_sweep", "update"}
    Update = "update"
    Interval = {"log_sweep"}
    SelfHosted = FALSE
    Windows = 0
    MaxRuns = 2
    MaxCrashes = 0
    MaxFaults = 0
PROPERTY LoopReturns
