SPECIFICATION FairSpec
CONSTANTS
    i1 = i1
    i2 = i2
    s1 = s1
    s2 = s2
    Instances = {i1}
    Joining = {i1}
    Installed = NoVersion
    Versions = {v1}
    Sources = {s1, s2}
    SourceOf <- OneSource
    Minimums = {1, 2}
    NoVersion = NoVersion
    Broken = Broken
    NoBeat = NoBeat
    NoRollout = NoRollout
    EnrollmentWindow = 1
    RolloutTimeout = 3
    StabilityWindow = 2
    HeartbeatTTL = 1
    Retention = 1
    Settle = 0
    MaxTime = 4
    MaxAdmissions = 1
    MaxActivations = 1
    MaxFaults = 1
    MaxCrashes = 1
INVARIANT TargetIsCurrent
PROPERTIES ImplementsEpochs 
CHECK_DEADLOCK FALSE
