CONSTANTS
    w1 = w1
    w2 = w2
    v1 = v1
    k1 = k1
    k2 = k2
    GARBLED = GARBLED
    NONE = NONE
    Writers <- MCWriters
    Verifiers <- MCVerifiers
    Events <- MCEvents
    SigningKeys = {k1, k2}
    PublicKey = k1
    ForensicSeqLimit = 1
    CollectorSeqLimit = 2
    MaxCalls = 4
    MaxFaults = 2
SPECIFICATION FairSpec
INVARIANTS TypeOK ChainWellFormed AckedDurable NoFalseAlarm
PROPERTIES DamagedStoreIsFrozen SyncedPrefixKept ImplementsEventLog CallEnds LockIsReleased
CHECK_DEADLOCK FALSE
