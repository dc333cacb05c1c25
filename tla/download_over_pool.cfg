SPECIFICATION FairSpec
CONSTANTS
    a1 = a1
    a2 = a2
    b = b
    Nobody = Nobody
    Workers = {a1, a2, b}
    Downloads = {"A", "B"}
    DownloadOf <- TwoThreadsAndACaller
    PartsOf <- PartsEach
    MaxConnections = 3
    SureHandles = 2
    MaxExpiries = 1
INVARIANTS TypeOK NoHandleIsForgotten HandlesAccounted NeverStuck
PROPERTY AllDownloadsEnd
CHECK_DEADLOCK FALSE
