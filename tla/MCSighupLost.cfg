CONSTANTS
    n1 = n1
    n2 = n2
    Nodes = {n1, n2}
    Enrolled = {n1, n2}
    Certs <- MCCerts
    ReloadTasks = {1}
    MaxEdits = 2
    MaxSignals = 2
    MaxBadLoads = 0
SPECIFICATION SecFairSpec
PROPERTIES SignalTakesEffect
CHECK_DEADLOCK FALSE
