SPECIFICATION FairSpec
CONSTANTS
    Attempts = {a1, a2}
    Pruners = {a2}
    AppKey = appKey
    LegacyKeys = {legacyKey}
    LegacyHolder = legacyHolder
    NoRow = noRow
    TTL = 2
    Buffer = 1
    MaxDelay = 6
    MaxTime = 5
    CanCrash = TRUE

PROPERTY ExpiredLockIsTaken
CHECK_DEADLOCK FALSE
