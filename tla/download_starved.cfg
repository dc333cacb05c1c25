SPECIFICATION FairSpec
CONSTANTS
    a1 = a1
    a2 = a2
    b = b
    Nobody = Nobody
    Workers = {a1, a2, b}
    Downloads = {"A"}
    DownloadOf <- ThreeThreads
    PartsOf <- FourParts
    MaxConnections = 16
    SureHandles = 16
    MaxExpiries = 1
PROPERTY WaitsEndBelowTheLimit
CHECK_DEADLOCK FALSE
