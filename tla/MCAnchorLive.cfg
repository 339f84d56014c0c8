CONSTANTS
    w1 = w1
    w2 = w2
    Workers = {w1}
    MaxTip = 2
    Interval = 1
    BackoffBase = 1
    BackoffMax = 1
    MaxAttempts = 1
    MaxFaults = 1
    MaxDamage = 0
    MaxLosses = 0
SPECIFICATION FairSpec
PROPERTIES EventuallyAnchored
CHECK_DEADLOCK FALSE
