SPECIFICATION Spec
CONSTANTS
    NumVersions = 2
    MaxParts = 2
    PartCount <- TwoAlike
    FileMtime <- DistinctMtimes
    MaxUploads = 4
    HasCrc = TRUE
    HasSha1 = TRUE
    HasCheckpoint = TRUE
    RapidUpload = TRUE
    Events = {"service", "exist", "put", "lost", "remove", "stop", "cancel", "disable", "modify", "crash"}
    MaxCalls = 4
    MaxEvents = 3
INVARIANTS SecondQuietCallDelivers
PROPERTY ImplementsAtomicPublish
CHECK_DEADLOCK FALSE
