SPECIFICATION FairSpec
CONSTANTS
    MaxSources = 1
    MaxPkts = 4
    WaitsForWorker = FALSE
INVARIANT TypeOK
INVARIANT DumpInOrder
PROPERTY BrokenLoopEnds
PROPERTY RowGetsDump
