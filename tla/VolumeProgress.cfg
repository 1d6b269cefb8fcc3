\* Pods are slow or stuck, a caller gives up or a plugin shuts down; fair
\* schedule.
SPECIFICATION FairSpec
CONSTANTS
    v1 = v1
    n1 = n1
    n2 = n2
    None = None
    Controller = Controller
    Volumes = {v1}
    Nodes = {n1}
    Calls = {c1, c2}
    Faults = {"mount", "deadline", "shutdown", "lookup", "force_pod", "controller", "stuck"}
    ReadyConfig = 15
    StopTime = 60
    MaxBreaks = 1
    Keys = {0, 1}
    Path <- PathOfKeys
    StartsWith = {}
    Configs <- DataDeletable
    PageSize = 1
INVARIANTS ForcedAfterWait
PROPERTIES PodLostByForce CallsAdvance CallsReturn DeletionSucceeds
\* When the volume is deleted nothing is left to do.
CHECK_DEADLOCK FALSE
