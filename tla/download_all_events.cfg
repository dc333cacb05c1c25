SPECIFICATION FairSpec
CONSTANTS
    w1 = w1
    w2 = w2
    Workers = {w1, w2}
    NumVersions = 2
    MaxParts = 3
    PartCount <- Growing
    ContentHash <- NoHashes
    FileMtime <- ListedMtimes
    HasCrc = TRUE
    CheckSize = TRUE
    HasCheckpoint = TRUE
    UrlPinsVersion = FALSE
    Events = {"get", "expiry", "service", "open", "rename", "remove", "flush", "stop", "cancel", "disable", "withdraw", "modify", "revert", "crash"}
    MaxCalls = 2
    MaxEvents = 2
INVARIANTS TypeOK PartsAccounted LockDiscipline
PROPERTY CallReturns
CHECK_DEADLOCK FALSE
