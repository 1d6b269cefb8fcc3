\* Nothing fails; a server takes up to its grace period to stop.
SPECIFICATION Spec
CONSTANTS
    v1 = v1
    n1 = n1
    n2 = n2
    None = None
    Controller = Controller
    Volumes = {v1}
    Nodes = {n1, n2}
    Calls = {c1, c2}
    Faults = {}
    ReadyConfig = 0
    StopTime = 60
    MaxBreaks = 0
    Keys = {0}
    Path <- PathOfKeys
    StartsWith = {}
    Configs <- DataDeletable
    PageSize = 1
SYMMETRY NodeSymmetry
INVARIANTS ForcedOnlyIfStuck
\* When the volume is deleted nothing is left to do.
CHECK_DEADLOCK FALSE
