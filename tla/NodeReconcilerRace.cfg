\* A call races the startup reconciler.
SPECIFICATION Spec
CONSTANTS
    v1 = v1
    v2 = v2
    t1 = t1
    t2 = t2
    None = None
    Empty = Empty
    Dead = Dead
    NineP = NineP
    HostFs = HostFs
    Volumes = {v1}
    Targets = {t1}
    Devices = {0, 1}
    Handlers = {h1}
    VolumeOf <- OneTargetEach
    MaxMounts = 2
    MaxTimeouts = 0
    MaxRestarts = 1
    Faults = {}
PROPERTIES ReconcilerSparesMounted
