SPECIFICATION Spec
CONSTANTS
    i1 = i1
    i2 = i2
    s1 = s1
    s2 = s2
    Instances = {i1, i2}
    Joining = {}
    Installed = NoVersion
    Versions = {v1}
    Sources = {s1}
    SourceOf <- OneSource
    Minimums = {2}
    NoVersion = NoVersion
    Broken = Broken
    NoBeat = NoBeat
    NoRollout = NoRollout
    EnrollmentWindow = 1
    RolloutTimeout = 3
    StabilityWindow = 2
    HeartbeatTTL = 1
    Retention = 1
    Settle = 0
    MaxTime = 3
    MaxAdmissions = 1
    MaxActivations = 0
    MaxFaults = 0
    MaxCrashes = 1
SYMMETRY Symmetry
INVARIANTS TypeOK CompletedStable
PROPERTY ObservationsInOrder
