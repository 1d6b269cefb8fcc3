\* Two pods of the node use the same volume.
SPECIFICATION Spec
CONSTANTS
    v1 = v1
    v2 = v2
    t1 = t1
    t2 = t2
    None = None
    Empty = Empty
    Dead = Dead
    NineP = NineP
    HostFs = HostFs
    Volumes = {v1}
    Targets = {t1, t2}
    Devices = {0, 1}
    Handlers = {h1, h2}
    VolumeOf <- OneVolume
    MaxMounts = 2
    MaxTimeouts = 0
    MaxRestarts = 0
    Faults = {}
SYMMETRY HandlerSymmetry
INVARIANTS StaleIsNotPublished
