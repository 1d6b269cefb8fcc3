\* The plugin restarts twice, at any point of a call; fair schedule.
SPECIFICATION FairSpec
CONSTANTS
    v1 = v1
    v2 = v2
    t1 = t1
    t2 = t2
    None = None
    Empty = Empty
    Dead = Dead
    NineP = NineP
    HostFs = HostFs
    Volumes = {v1, v2}
    Targets = {t1, t2}
    Devices = {0, 1}
    Handlers = {h1}
    VolumeOf <- OneTargetEach
    MaxMounts = 2
    MaxTimeouts = 0
    MaxRestarts = 2
    Faults = {"mkfs", "connect"}
INVARIANTS UnpublishedIsClean CleanInv AloneInv
PROPERTIES OrphansDetached
