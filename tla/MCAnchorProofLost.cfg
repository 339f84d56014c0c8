CONSTANTS
    w1 = w1
    w2 = w2
    Workers = {w1, w2}
    MaxTip = 1
    Interval = 1
    BackoffBase = 1
    BackoffMax = 2
    MaxAttempts = 2
    MaxFaults = 0
    MaxDamage = 0
    MaxLosses = 0
SPECIFICATION Spec
INVARIANT UpgradedReachesBitcoin
CHECK_DEADLOCK FALSE
