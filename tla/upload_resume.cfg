SPECIFICATION FairSpec
CONSTANTS
    NumVersions = 2
    MaxParts = 2
    PartCount <- TwoAlike
    FileMtime <- DistinctMtimes
    MaxUploads = 3
    HasCrc = TRUE
    HasSha1 = FALSE
    HasCheckpoint = TRUE
    RapidUpload = TRUE
    Events = {"service", "put", "lost", "exist", "expire", "open", "remove", "stop", "cancel", "disable", "withdraw", "modify", "edit", "crash"}
    MaxCalls = 3
    MaxEvents = 4
INVARIANTS TypeOK OkMeansWhole ListedPartsAreStored
PROPERTY CallReturns
CHECK_DEADLOCK FALSE
