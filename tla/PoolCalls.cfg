SPECIFICATION Spec
CONSTANTS
    c1 = c1
    c2 = c2
    s1 = s1
    t1 = t1
    i1 = i1
    Clients = {c1, c2}
    Sessions = {s1}
    Keyed = {s1}
    Turns = {t1}
    Interactions = {i1}
    SessionOf <- MCSessionOf
    TurnOf <- MCTurnOf
    Policies = {"always", "never"}
    MinReady = 1
    MaxReady = 2
    Uses <- MCUses
    MayClose = FALSE
    MaxBackends = 2
    MaxCalls = 2
    MaxFaults = 1
SYMMETRY Symmetry
INVARIANTS TypeOK CapacityKept RoutesInPool KeysInPool OneOwner
PROPERTY DrainWaits
CHECK_DEADLOCK FALSE
