CONSTANTS
    n1 = n1
    n2 = n2
    t1 = t1
    t2 = t2
    Nodes = {n1, n2}
    Enrolled = {n1, n2}
    Certs <- IngestCerts
    Payloads <- IngestPayloads
    Threads = {t1, t2}
    ReloadTasks = {1}
    ForensicSeqLimit = 3
    CollectorSeqLimit = 4
    MaxEdits = 0
    MaxSignals = 0
    MaxBadLoads = 0
    MaxConns = 3
    MaxRestarts = 1
    MaxAcceptErrors = 0
    MaxStops = 0
SPECIFICATION Spec
INVARIANTS TypeOK NoReplayInLife AcceptedIsDurable OvertakingBounded ChainedInRange
CHECK_DEADLOCK FALSE
