\* S3 may fail to delete single objects.
SPECIFICATION Spec
CONSTANTS
    v1 = v1
    n1 = n1
    n2 = n2
    None = None
    Controller = Controller
    Volumes = {v1}
    Nodes = {n1, n2}
    Calls = {c1, c2}
    Faults = {"object"}
    ReadyConfig = 0
    StopTime = 15
    MaxBreaks = 0
    Keys = {0, 1, 2}
    Path <- PathOfKeys
    StartsWith = {}
    Configs <- DataDeletable
    PageSize = 2
SYMMETRY NodeSymmetry
INVARIANTS DataDeleted
\* When the volume is deleted nothing is left to do.
CHECK_DEADLOCK FALSE
