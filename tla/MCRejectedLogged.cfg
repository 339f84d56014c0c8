CONSTANTS
    n1 = n1
    n2 = n2
    t1 = t1
    t2 = t2
    Nodes = {n1, n2}
    Enrolled = {n1, n2}
    Certs <- OneCert
    Payloads <- OnePayload
    Threads = {t1, t2}
    ReloadTasks = {1}
    ForensicSeqLimit = 2
    CollectorSeqLimit = 3
    MaxEdits = 0
    MaxSignals = 0
    MaxBadLoads = 0
    MaxConns = 1
    MaxRestarts = 0
    MaxAcceptErrors = 0
    MaxStops = 0
SPECIFICATION Spec
INVARIANTS RejectedNotLogged
CHECK_DEADLOCK FALSE
