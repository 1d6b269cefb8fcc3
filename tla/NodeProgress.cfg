\* The kubelet gives up on a call and issues another; fair schedule.
SPECIFICATION FairSpec
CONSTANTS
    v1 = v1
    v2 = v2
    t1 = t1
    t2 = t2
    None = None
    Empty = Empty
    Dead = Dead
    NineP = NineP
    HostFs = HostFs
    Volumes = {v1}
    Targets = {t1}
    Devices = {0}
    Handlers = {h1, h2}
    VolumeOf <- OneTargetEach
    MaxMounts = 2
    MaxTimeouts = 1
    MaxRestarts = 0
    Faults = {"mkfs", "detach", "umount", "findmnt",
              "connect"}
INVARIANTS MutexDiscipline
PROPERTIES CallsReturn
