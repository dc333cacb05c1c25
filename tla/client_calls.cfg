SPECIFICATION FairSpec
CONSTANTS
    Operations <- AllOperations
    Uploads <- UploadRequests
    Downloads <- DownloadRequests
    Versions <- SmallVersions
    Configurations <- AllClients
    MaxRetries = 1
    Events = {"unsent", "lost", "busy", "refuse", "garble", "alter", "cut", "write", "variant", "disable", "stop", "cancel", "edit", "modify", "rename", "crash"}
    MaxCalls = 1
    MaxEvents = 2
INVARIANTS
    TypeOK
    OkMeansStored
    FailureMeansDoubt
    OptionsAreSent
    ResultIsRead
    UrlIsKept
PROPERTIES
    DestIsReplacedWhole
    CallReturns
CHECK_DEADLOCK FALSE
