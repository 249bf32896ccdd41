SPECIFICATION Spec
CONSTANTS
    i1 = i1
    i2 = i2
    s1 = s1
    s2 = s2
    Instances = {i1, i2}
    Joining = {}
    Versions = {v1, v2}
    Sources = {s1, s2}
    SourceOf <- OneSource
    NoVersion = NoVersion
    NoRow = NoRow
    NoRollout = NoRollout
    EnrollmentWindow = 1
    RolloutTimeout = 2
    StabilityWindow = 1
    MaxAttempts = 2
    LateAcks = FALSE
    MaxTime = 3
    MaxAdmissions = 2
    MaxActivations = 1
    MaxFaults = 0
    MaxCrashes = 0
SYMMETRY Symmetry
INVARIANTS CompletedCohort MembersRunIt
PROPERTIES   ImplementsEpochs
