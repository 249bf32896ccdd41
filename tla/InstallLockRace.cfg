SPECIFICATION Spec
CONSTANTS
    Attempts = {a1, a2, a3}
    Pruners = {}
    AppKey = appKey
    LegacyKeys = {}
    LegacyHolder = legacyHolder
    NoRow = noRow
    TTL = 4
    Buffer = 3
    MaxDelay = 1
    MaxTime = 6
    CanCrash = TRUE
SYMMETRY Symmetry
INVARIANT MutualExclusion
CHECK_DEADLOCK FALSE
