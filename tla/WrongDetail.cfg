SPECIFICATION Spec
CONSTANTS
    MaxSources = 2
    MaxPkts = 1
    WaitsForWorker = FALSE
INVARIANT DetailIsOwn
