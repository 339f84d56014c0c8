CONSTANTS
    GARBLED = GARBLED
    NONE = NONE
    Writers = {w1, w2}
    Verifiers = {}
    Events <- MCEvents
    SigningKeys = {k1, k2}
    PublicKey = k1
    ForensicSeqLimit = 1
    CollectorSeqLimit = 2
    MaxCalls = 3
    MaxFaults = 1
    AttestationLists <- MCAttestationLists
    Confirmations = 2
    MaxHeight = 4
    MaxReorgs = 1
SPECIFICATION CliSpec
INVARIANTS ReportCoversAcknowledged AlarmNamesTheTail VerifiedWasDeep GoodBranchIsEnough
CHECK_DEADLOCK FALSE
SYMMETRY WriterSymmetry
