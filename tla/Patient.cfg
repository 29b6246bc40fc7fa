SPECIFICATION Spec
CONSTANTS
    MaxSources = 2
    MaxPkts = 2
    WaitsForWorker = TRUE
INVARIANT DetailIsOwn
INVARIANT SaveMeansStopped
PROPERTY SavedIsOneCapture
PROPERTY ImplementsPacketLog
