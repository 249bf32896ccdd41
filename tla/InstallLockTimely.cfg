SPECIFICATION Spec
CONSTANTS
    Attempts = {a1, a2, a3}
    Pruners = {}
    AppKey = appKey
    LegacyKeys = {legacyKey}
    LegacyHolder = legacyHolder
    NoRow = noRow
    TTL = 4
    Buffer = 3
    MaxDelay = 1
    MaxTime = 6
    CanCrash = FALSE
SYMMETRY Symmetry
INVARIANTS
    TypeOK
    MutualExclusion
    WorkInsideTTL
    LegacyRowsRespected
PROPERTY ImplementsMutex
CHECK_DEADLOCK FALSE
