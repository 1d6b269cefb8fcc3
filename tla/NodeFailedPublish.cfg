\* Every command of a publish may fail, and pods may die.
SPECIFICATION Spec
CONSTANTS
    v1 = v1
    v2 = v2
    t1 = t1
    t2 = t2
    None = None
    Empty = Empty
    Dead = Dead
    NineP = NineP
    HostFs = HostFs
    Volumes = {v1, v2}
    Targets = {t1, t2}
    Devices = {0, 1}
    Handlers = {h1, h2}
    VolumeOf <- OneTargetEach
    MaxMounts = 2
    MaxTimeouts = 0
    MaxRestarts = 0
    Faults = {"create_pod", "wait_socket", "mount_9p", "create_disk",
              "umount_9p", "connect", "mkfs", "mount_fs",
              "pod", "blkid", "expiry",
              "write_reservation"}
SYMMETRY HandlerSymmetry
INVARIANTS TypeOK FailedPublishIsClean CleanInv
