\* Requests to the API server and to S3, and mounts, may fail, and plugins
\* crash; servers stop within 15 seconds.
SPECIFICATION Spec
CONSTANTS
    v1 = v1
    n1 = n1
    n2 = n2
    None = None
    Controller = Controller
    Volumes = {v1}
    Nodes = {n1, n2}
    Calls = {c1, c2}
    Faults = {"mount", "create_pod", "delete_pod", "delete_secret", "config", "list", "delete_objects", "crash"}
    ReadyConfig = 30
    StopTime = 15
    MaxBreaks = 1
    Keys = {0, 1, 2, 3, 4, 5, 6}
    Path <- PathOfKeys
    StartsWith = {}
    Configs <- AnyConfig
    PageSize = 1
SYMMETRY NodeSymmetry
INVARIANTS TypeOK DataDeleted PublishedHasPod PodFollowsVolume SingleServer VolumeInv ServedInv
PROPERTIES OthersKeepData CallsAdvance DataPromised
\* When the volume is deleted nothing is left to do.
CHECK_DEADLOCK FALSE
