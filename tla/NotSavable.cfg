SPECIFICATION Spec
CONSTANTS
    MaxSources = 1
    MaxPkts = 1
    WaitsForWorker = TRUE
PROPERTY StoppedIsSavable
