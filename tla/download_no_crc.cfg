SPECIFICATION Spec
CONSTANTS
    w1 = w1
    w2 = w2
    Workers = {w1, w2}
    NumVersions = 2
    MaxParts = 3
    PartCount <- ThreeAlike
    ContentHash <- DistinctHashes
    FileMtime <- ListedMtimes
    HasCrc = FALSE
    CheckSize = TRUE
    HasCheckpoint = TRUE
    UrlPinsVersion = TRUE
    Events = {"get", "expiry", "service", "rename", "stop", "cancel", "disable", "modify", "crash"}
    MaxCalls = 3
    MaxEvents = 4
SYMMETRY WorkerSymmetry
INVARIANTS OkMeansWhole RecordBehindFile QuietCallDelivers
CHECK_DEADLOCK FALSE
