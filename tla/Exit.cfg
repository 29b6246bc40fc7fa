SPECIFICATION ShutdownSpec
CONSTANTS
    MaxSources = 2
    MaxPkts = 0
    WaitsForWorker = FALSE
INVARIANT QuietCloseIsSafe
PROPERTY CloseEnds
PROPERTY StoppedEndOrClosed
