\* A failing mkfs is enough for two volumes to share a device.
SPECIFICATION Spec
CONSTANTS
    v1 = v1
    v2 = v2
    t1 = t1
    t2 = t2
    None = None
    Empty = Empty
    Dead = Dead
    NineP = NineP
    HostFs = HostFs
    Volumes = {v1, v2}
    Targets = {t1, t2}
    Devices = {0}
    Handlers = {h1, h2}
    VolumeOf <- OneTargetEach
    MaxMounts = 2
    MaxTimeouts = 0
    MaxRestarts = 0
    Faults = {"mkfs"}
SYMMETRY HandlerSymmetry
INVARIANTS DeviceExclusive
