CONSTANTS
    Callers = {c1, c2, c3}
    OLD = OLD
    NONE = NONE
    MaxFaults = 3
SPECIFICATION Spec
INVARIANTS ReturnedPairStays SignerHasPublicHalf MixedPairNeedsTwoFaults
CHECK_DEADLOCK FALSE
