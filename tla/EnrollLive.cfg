SPECIFICATION FairSpec
CONSTANTS
    i1 = i1
    i2 = i2
    s1 = s1
    s2 = s2
    Instances = {i1, i2}
    Joining = {i2}
    Versions = {v1}
    Sources = {s1}
    SourceOf <- OneSource
    NoVersion = NoVersion
    NoRow = NoRow
    NoRollout = NoRollout
    EnrollmentWindow = 1
    RolloutTimeout = 2
    StabilityWindow = 1
    MaxAttempts = 2
    LateAcks = FALSE
    MaxTime = 2
    MaxAdmissions = 1
    MaxActivations = 0
    MaxFaults = 1
    MaxCrashes = 1
INVARIANT TypeOK
PROPERTIES  RolloutEnds FleetConverges 
