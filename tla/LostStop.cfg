SPECIFICATION FairSpec
CONSTANTS
    MaxSources = 1
    MaxPkts = 1
    WaitsForWorker = TRUE
PROPERTY StopReachesLoop
