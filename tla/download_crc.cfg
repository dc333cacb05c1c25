SPECIFICATION Spec
CONSTANTS
    w1 = w1
    w2 = w2
    Workers = {w1, w2}
    NumVersions = 2
    MaxParts = 2
    PartCount <- TwoAlike
    ContentHash <- DistinctHashes
    FileMtime <- ListedMtimes
    HasCrc = TRUE
    CheckSize = TRUE
    HasCheckpoint = TRUE
    UrlPinsVersion = FALSE
    Events = {"get", "expiry", "service", "rename", "stop", "cancel", "disable", "withdraw", "modify", "crash"}
    MaxCalls = 3
    MaxEvents = 4
SYMMETRY WorkerSymmetry
INVARIANTS OkMeansWhole QuietCallDelivers
PROPERTY ImplementsAtomicPublish
CHECK_DEADLOCK FALSE
