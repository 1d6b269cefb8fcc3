\* One target per volume, no timeouts, no restarts; any failure up to the
\* connection of the device, and of the bookkeeping.
SPECIFICATION Spec
CONSTANTS
    v1 = v1
    v2 = v2
    t1 = t1
    t2 = t2
    None = None
    Empty = Empty
    Dead = Dead
    NineP = NineP
    HostFs = HostFs
    Volumes = {v1, v2}
    Targets = {t1, t2}
    Devices = {0, 1}
    Handlers = {h1, h2}
    VolumeOf <- OneTargetEach
    MaxMounts = 2
    MaxTimeouts = 0
    MaxRestarts = 0
    Faults = {"create_pod", "wait_socket", "mount_9p", "create_disk",
              "umount_9p", "connect", "detach", "sysfs",
              "write_state", "remove_pod"}
SYMMETRY HandlerSymmetry
INVARIANTS SerialInv PublishedIsServed NothingFormattedOver DeviceExclusive
PROPERTIES LeasesImplemented
