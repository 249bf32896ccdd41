\* Two replicas, three versions, no fault and no request.
SPECIFICATION FairSpec
CONSTANTS
    Controllers = {c1, c2}
    Admins = {}
    MaxVersions = 3
    MaxEvents = 0
PROPERTY NewestTried
CHECK_DEADLOCK FALSE
