SPECIFICATION Spec
CONSTANTS
    MaxSources = 2
    MaxPkts = 1
    WaitsForWorker = FALSE
INVARIANT HandleWindow
INVARIANT RowHasDump
INVARIANT NothingFromTheDead
INVARIANT QuietIsClean
INVARIANT NobodyIsStuck
