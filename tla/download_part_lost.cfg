SPECIFICATION Spec
CONSTANTS
    w1 = w1
    w2 = w2
    Workers = {w1, w2}
    NumVersions = 1
    MaxParts = 2
    PartCount <- OneOfTwo
    ContentHash <- OneHash
    FileMtime <- OneMtime
    HasCrc = FALSE
    CheckSize = TRUE
    HasCheckpoint = TRUE
    UrlPinsVersion = TRUE
    Events = {"disable", "withdraw"}
    MaxCalls = 1
    MaxEvents = 2
SYMMETRY WorkerSymmetry
INVARIANT NotCompleteIsReported
CHECK_DEADLOCK FALSE
