SPECIFICATION FairSpec
CONSTANTS
    Jobs = {"update"}
    Update = "update"
    Interval = {}
    SelfHosted = TRUE
    Windows = 1
    MaxRuns = 2
    MaxCrashes = 1
    MaxFaults = 0
PROPERTY LoopReturns
PROPERTY EveryRunEnds
PROPERTY EveryRecordSettles
PROPERTY RecordsKept
