CONSTANTS
    w1 = w1
    w2 = w2
    Workers = {w1, w2}
    MaxTip = 1
    Interval = 1
    BackoffBase = 4
    BackoffMax = 4
    MaxAttempts = 2
    MaxFaults = 1
    MaxDamage = 1
    MaxLosses = 1
SYMMETRY WorkerSymmetry
SPECIFICATION Spec
INVARIANTS TypeOK ProofBacksState SubmittedHasProof
PROPERTIES LifeCycle DamageNeverRetried IntegrityFailureStands AttemptsRetained UpgradedIsFinal
CHECK_DEADLOCK FALSE
