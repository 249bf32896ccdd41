SPECIFICATION Spec
CONSTANTS
    v1 = v1
    v2 = v2
    d1 = d1
    d2 = d2
    d3 = d3
    p1 = p1
    p2 = p2
    None = None
    Versions = {v1, v2}
    Declarations = {d1, d2, d3}
    VersionOf <- MCVersionOf
    Publishers = {p1, p2}
    UnusedRetention = 1
    DeployedRetention = 1
    Contents <- MCContents
    Declares <- MCRivals
    Seeded = {d3}
    Installed = v2
    Attempts = 2
    MaxTime = 1
    MaxSelects = 1
    MaxPrunes = 1
    MaxFaults = 1
INVARIANTS TypeOK IndexedIsComplete OneDeclarationPerVersion DesiredHasNoDeadline
    InterruptedPublishResumes
PROPERTIES PublishedIsImmutable DeployHistoryKept DesiredArtifactsKept
CHECK_DEADLOCK FALSE
