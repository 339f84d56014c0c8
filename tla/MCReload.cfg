CONSTANTS
    n1 = n1
    n2 = n2
    t1 = t1
    t2 = t2
    Nodes = {n1, n2}
    Enrolled = {n2}
    Certs <- OneCert
    Payloads <- OneOfEach
    Threads = {t1, t2}
    ReloadTasks = {1, 2}
    ForensicSeqLimit = 2
    CollectorSeqLimit = 3
    MaxEdits = 2
    MaxSignals = 2
    MaxBadLoads = 1
    MaxConns = 2
    MaxRestarts = 0
    MaxAcceptErrors = 1
    MaxStops = 1
SPECIFICATION FairSpec
INVARIANTS HandOffIsAuthenticated InstalledPairConsistent RevokedNeverLogged StoppedIsDrained
PROPERTIES RevocationSticks EveryConnectionDecided ReloadIsServed ShutdownEnds
CHECK_DEADLOCK FALSE
