SPECIFICATION FairSpec
CONSTANTS
    c1 = c1
    c2 = c2
    s1 = s1
    t1 = t1
    i1 = i1
    Clients = {c1}
    Sessions = {s1}
    Keyed = {}
    Turns = {}
    Interactions = {}
    SessionOf <- MCSessionOf
    TurnOf <- MCTurnOf
    Uses <- MCUses
    Policies = {"always"}
    MinReady = 1
    MaxReady = 2
    MayClose = TRUE
    MaxBackends = 2
    MaxCalls = 1
    MaxFaults = 1
INVARIANT ClosedExactlyOnce
PROPERTIES DrainsEnd MinReadyRestored
CHECK_DEADLOCK FALSE
