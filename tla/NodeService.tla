---------------------------- MODULE NodeService ----------------------------
(***************************************************************************)
(* The CSI node service of one node (pkg/csi/node.go).  gRPC runs every    *)
(* call in a goroutine of its own: a handler here.  A handler's step is    *)
(* one external command, one access to the state files, or one critical    *)
(* section of nbdMu.  Beside the handlers run the startup reconciler, the  *)
(* kubelet that issues the calls, the volumes' ZeroFS pods, and restarts   *)
(* of the plugin's container, which lose /run/zerofs-csi (it is no volume  *)
(* of the DaemonSet) but no NBD connection and no mount.                   *)
(***************************************************************************)
EXTENDS Nbd, FiniteSets

CONSTANTS
    Handlers,     \* goroutines that serve calls
    VolumeOf,     \* the volume that is published on a target
    MaxTimeouts,  \* bound on the calls the kubelet gives up waiting for
    MaxRestarts   \* bound on the restarts of the plugin

ASSUME VolumeOfAssumption == VolumeOf \in [Targets -> Volumes]
ASSUME HandlersAssumption == None \notin Handlers
ASSUME BoundsAssumption == MaxTimeouts \in Nat /\ MaxRestarts \in Nat

VARIABLES
    nbdMu,     \* the handler that holds the mutex, or None
    pc,        \* where a handler is
    tgt,       \* the target path of a handler's call
    dev,       \* the device a publishing handler works with
    src,       \* nbdDevice of an unpublishing handler, as lines of findmnt
    scan,      \* the devices the startup reconciler has not examined yet
    orphan,    \* the device it is about to detach
    pod,       \* the volume's ZeroFS pod
    socket,    \* whether the volume's 9P socket file exists on the node
    disk,      \* the volume's disk image
    wiped,     \* the volumes whose file system was formatted over
    kub,       \* what the kubelet knows of a target
    waiting,   \* the handlers whose reply the kubelet still waits for
    timeouts,  \* the number of calls it gave up waiting for
    restarts   \* the number of restarts of the plugin

locals == <<tgt, dev, src>>
reconciler == <<scan, orphan>>
zerofs == <<pod, socket, disk, wiped>>
caller == <<kub, waiting, timeouts>>
vars == <<nbdFiles, kernel, nbdMu, pc, locals, reconciler, zerofs, caller,
          restarts>>

PublishLabels ==
    {"check", "unmount_lingering", "lock_stale", "detach_stale",
     "clear_stale", "create_pod", "await_pod", "wait_socket", "mount_9p",
     "create_disk", "umount_9p", "reserve", "connect", "clear_unconnected",
     "blkid", "mkfs", "mount_fs", "disconnect", "cleanup_unmount",
     "cleanup_read", "cleanup_detach", "cleanup_state",
     "cleanup_reservation", "cleanup_pod"}

UnpublishLabels ==
    {"find_source", "umount_fs", "recover", "detach", "remove_pod", "clear"}

\* The handler works on the device dev.
DeviceLabels ==
    {"detach_stale", "clear_stale", "connect", "clear_unconnected", "blkid",
     "mkfs", "mount_fs", "disconnect", "cleanup_detach", "cleanup_state",
     "cleanup_reservation"}

\* The handler holds nbdMu between two steps.
CriticalLabels == {"detach_stale", "clear_stale"}

Labels == PublishLabels \cup UnpublishLabels \cup {"idle"}

TypeOK ==
    /\ NbdTypeOK
    /\ nbdMu \in Handlers \cup {None}
    /\ pc \in [Handlers -> Labels]
    /\ tgt \in [Handlers -> Targets \cup {None}]
    /\ \A h \in Handlers : pc[h] # "idle" => tgt[h] \in Targets
    /\ dev \in [Handlers -> Devices \cup {None}]
    /\ \A h \in Handlers : pc[h] \in DeviceLabels => dev[h] \in Devices
    /\ src \in [Handlers -> Seq(MountSources \cup {HostFs})]
    /\ scan \subseteq Devices
    /\ orphan \in Devices \cup {None}
    /\ pod \in [Volumes -> {"none", "starting", "serving"}]
    /\ socket \in [Volumes -> BOOLEAN]
    /\ disk \in [Volumes -> {"absent", "blank", "formatted"}]
    /\ wiped \subseteq Volumes
    /\ kub \in [Targets -> {"none", "uncertain", "published"}]
    /\ waiting \subseteq Handlers
    /\ timeouts \in 0..MaxTimeouts
    /\ restarts \in 0..MaxRestarts

\* A plugin whose startup reconciler has finished, on a node without volumes.
Init ==
    /\ NbdInit
    /\ nbdMu = None
    /\ pc = [h \in Handlers |-> "idle"]
    /\ tgt = [h \in Handlers |-> None]
    /\ dev = [h \in Handlers |-> None]
    /\ src = [h \in Handlers |-> <<>>]
    /\ scan = {}
    /\ orphan = None
    /\ pod = [v \in Volumes |-> "none"]
    /\ socket = [v \in Volumes |-> FALSE]
    /\ disk = [v \in Volumes |-> "absent"]
    /\ wiped = {}
    /\ kub = [t \in Targets |-> "none"]
    /\ waiting = {}
    /\ timeouts = 0
    /\ restarts = 0

Volume(h) == VolumeOf[tgt[h]]

\* I/O on the device reaches the volume it is connected to.
Live(d) == conn[d] \in Volumes /\ pod[conn[d]] = "serving"

At(h, label) == pc[h] = label
Goto(h, label) == pc' = [pc EXCEPT ![h] = label]

-----------------------------------------------------------------------------
(* The kubelet.                                                            *)

\* The kubelet runs one operation on a volume at a time, except that it
\* unpublishes several targets of a volume in parallel.
Admissible(t, op) ==
    \A h \in waiting :
        VolumeOf[tgt[h]] = VolumeOf[t] =>
            op = "unpublish" /\ pc[h] \in UnpublishLabels /\ tgt[h] # t

StartCall(h, t, label) ==
    /\ At(h, "idle")
    /\ Goto(h, label)
    /\ tgt' = [tgt EXCEPT ![h] = t]
    /\ waiting' = waiting \cup {h}
    /\ UNCHANGED <<nbdFiles, kernel, nbdMu, dev, src, reconciler, zerofs,
                   timeouts, restarts>>

\* Requests that fail validation return at once and change nothing.
NodePublishVolume(h, t) ==
    /\ Admissible(t, "publish")
    /\ StartCall(h, t, "check")
    /\ kub' = [kub EXCEPT ![t] = IF @ = "published" THEN @ ELSE "uncertain"]

NodeUnpublishVolume(h, t) ==
    /\ kub[t] # "none"
    /\ Admissible(t, "unpublish")
    /\ StartCall(h, t, "find_source")
    /\ kub' = [kub EXCEPT ![t] = "uncertain"]

\* The kubelet's deadline expires; the handler does not notice.
Timeout(h) ==
    /\ h \in waiting
    /\ timeouts < MaxTimeouts
    /\ timeouts' = timeouts + 1
    /\ waiting' = waiting \ {h}
    /\ UNCHANGED <<nbdFiles, kernel, nbdMu, pc, locals, reconciler, zerofs,
                   kub, restarts>>

\* The handler returns.  A kubelet that still waits for it learns status.
Return(h, status) ==
    /\ Goto(h, "idle")
    /\ tgt' = [tgt EXCEPT ![h] = None]
    /\ dev' = [dev EXCEPT ![h] = None]
    /\ src' = [src EXCEPT ![h] = <<>>]
    /\ waiting' = waiting \ {h}
    /\ kub' = IF h \in waiting THEN [kub EXCEPT ![tgt[h]] = status] ELSE kub
    /\ UNCHANGED <<timeouts, nbdMu, reconciler, restarts>>

\* What a handler's step between its first and its last one leaves alone.
Continue(h, label) ==
    /\ Goto(h, label)
    /\ UNCHANGED <<tgt, caller, reconciler, restarts>>

\* A step that only decides where to go on.
Advance(h, label) ==
    /\ Continue(h, label)
    /\ UNCHANGED <<nbdFiles, kernel, nbdMu, dev, src, zerofs>>

-----------------------------------------------------------------------------
(* NodePublishVolume.                                                      *)

\* Mutant: the idempotency check is missing.
CheckNothing(h) ==
    /\ At(h, "check")
    /\ Advance(h, "lock_stale")

\* A target that is mounted from an NBD device is published already.
Check(h) ==
    /\ At(h, "check")
    /\ \E found \in FoundSources(tgt[h]) :
          IF found # <<>> /\ found[1] \in Devices
          THEN Return(h, "published")
          ELSE /\ Continue(h, IF found # <<>> THEN "unmount_lingering"
                              ELSE "lock_stale")
               /\ UNCHANGED <<nbdMu, dev, src>>
    /\ UNCHANGED <<nbdFiles, kernel, zerofs>>

UnmountLingering(h) ==
    /\ At(h, "unmount_lingering")
    /\ unmountBestEffort(tgt[h])
    /\ Continue(h, "lock_stale")
    /\ UNCHANGED <<nbdFiles, nbdMu, dev, src, zerofs>>

\* Mutant: the mutex stays locked if there is no state file.
LockStaleKeepsLock(h) ==
    /\ At(h, "lock_stale")
    /\ nbdMu = None
    /\ nbdMu' = h
    /\ LET stale == readVolumeNBDState(Volume(h)) IN
       /\ dev' = [dev EXCEPT ![h] = stale]
       /\ Continue(h, IF stale = None THEN "create_pod" ELSE "clear_stale")
    /\ UNCHANGED <<nbdFiles, kernel, src, zerofs>>

\* Under nbdMu: the state file of an earlier attempt is read; its device, if
\* connected, is detached; the files are removed.
LockStale(h) ==
    /\ At(h, "lock_stale")
    /\ nbdMu = None
    /\ LET stale == readVolumeNBDState(Volume(h)) IN
       IF stale = None
       THEN /\ Continue(h, "create_pod")
            /\ UNCHANGED <<nbdMu, dev>>
       ELSE /\ \E unreadable \in UnreadableSets :
                  Continue(h, IF stale \notin unreadable
                                 /\ isNBDConnected(stale)
                              THEN "detach_stale" ELSE "clear_stale")
            /\ nbdMu' = h
            /\ dev' = [dev EXCEPT ![h] = stale]
    /\ UNCHANGED <<nbdFiles, kernel, src, zerofs>>

DetachStale(h) ==
    /\ At(h, "detach_stale")
    /\ detachNBDDeviceBestEffort(dev[h])
    /\ Continue(h, "clear_stale")
    /\ UNCHANGED <<nbdFiles, nbdMu, dev, src, zerofs>>

\* Mutant: the mutex is not unlocked after the stale files are removed.
ClearStaleKeepsLock(h) ==
    /\ At(h, "clear_stale")
    /\ clearVolumeNBDState(Volume(h), dev[h])
    /\ dev' = [dev EXCEPT ![h] = None]
    /\ Continue(h, "create_pod")
    /\ UNCHANGED <<kernel, nbdMu, src, zerofs>>

ClearStale(h) ==
    /\ At(h, "clear_stale")
    /\ clearVolumeNBDState(Volume(h), dev[h])
    /\ nbdMu' = None
    /\ dev' = [dev EXCEPT ![h] = None]
    /\ Continue(h, "create_pod")
    /\ UNCHANGED <<kernel, src, zerofs>>

\* From here on every failing return runs the deferred cleanup.
\* The target directory is created, then the pod, unless it exists.  Once the
\* kubelet has given up, the call's context is cancelled and the API server's
\* writes fail.
CreatePod(h) ==
    /\ At(h, "create_pod")
    /\ \/ /\ h \in waiting
          /\ Continue(h, "await_pod")
          /\ dirs' = dirs \cup {tgt[h]}
          /\ pod' = [pod EXCEPT ![Volume(h)] =
                        IF @ = "none" THEN "starting" ELSE @]
       \/ /\ h \notin waiting \/ Fails("create_pod")
          /\ Continue(h, "cleanup_unmount")
          /\ dirs' \in {dirs, dirs \cup {tgt[h]}}
          /\ UNCHANGED pod
    /\ UNCHANGED <<nbdFiles, conn, mounts, nbdMu, dev, src, socket, disk,
                   wiped>>

\* The readiness probe of the pod tests for the 9P socket file; the wait for
\* readiness times out.
AwaitPod(h) ==
    /\ At(h, "await_pod")
    /\ \/ /\ pod[Volume(h)] # "none" /\ socket[Volume(h)]
          /\ Advance(h, "wait_socket")
       \/ Advance(h, "cleanup_unmount")

WaitSocket(h) ==
    /\ At(h, "wait_socket")
    /\ \/ socket[Volume(h)] /\ Advance(h, "mount_9p")
       \/ Fails("wait_socket") /\ Advance(h, "cleanup_unmount")

\* A mount that fails is passed over if findmnt finds any source.
Mount9P(h) ==
    /\ At(h, "mount_9p")
    /\ \/ /\ pod[Volume(h)] = "serving"
          /\ Mount(tgt[h], NineP)
          /\ Continue(h, "create_disk")
       \/ /\ \/ Fails("mount_9p")
             \/ pod[Volume(h)] # "serving"
             \/ tgt[h] \notin dirs
             \/ Len(mounts[tgt[h]]) >= MaxMounts
          /\ \E found \in FoundSources(tgt[h]) :
                Continue(h, IF found # <<>> THEN "create_disk"
                            ELSE "cleanup_unmount")
          /\ UNCHANGED kernel
    /\ UNCHANGED <<nbdFiles, nbdMu, dev, src, zerofs>>

\* Only ZeroFS' export has the directory .nbd that holds the disk image.
CreateDisk(h) ==
    LET stack == mounts[tgt[h]]
        reachable == /\ stack # <<>> /\ stack[Len(stack)] = NineP
                     /\ pod[Volume(h)] = "serving"
    IN  /\ At(h, "create_disk")
        /\ \/ /\ reachable
              /\ disk' = [disk EXCEPT ![Volume(h)] =
                             IF @ = "absent" THEN "blank" ELSE @]
              /\ Continue(h, "umount_9p")
           \/ /\ ~reachable \/ Fails("create_disk")
              /\ disk' = disk
              /\ Continue(h, "cleanup_unmount")
        /\ UNCHANGED <<nbdFiles, kernel, nbdMu, dev, src, pod, socket, wiped>>

Umount9P(h) ==
    /\ At(h, "umount_9p")
    /\ \/ Unmount(tgt[h]) /\ Continue(h, "reserve")
       \/ UnmountFails(tgt[h], "umount_9p") /\ Continue(h, "cleanup_unmount")
    /\ UNCHANGED <<nbdFiles, nbdMu, dev, src, zerofs>>

Reserve(h) ==
    /\ At(h, "reserve")
    /\ nbdMu = None
    /\ \E unreadable \in UnreadableSets :
          \/ \E d \in Devices :
                /\ reserveNBDDevice(Volume(h), d, unreadable)
                /\ dev' = [dev EXCEPT ![h] = d]
                /\ Continue(h, "connect")
          \/ /\ ReserveFails(Volume(h), unreadable)
             /\ dev' = dev
             /\ Continue(h, "cleanup_unmount")
    /\ UNCHANGED <<kernel, nbdMu, src, zerofs>>

\* nbd-client refuses a device that is in use.
Connect(h) ==
    /\ At(h, "connect")
    /\ \/ /\ conn[dev[h]] = None
          /\ pod[Volume(h)] = "serving"
          /\ conn' = [conn EXCEPT ![dev[h]] = Volume(h)]
          /\ Continue(h, "blkid")
       \/ /\ \/ Fails("connect")
             \/ conn[dev[h]] # None
             \/ pod[Volume(h)] # "serving"
          /\ conn' = conn
          /\ Continue(h, "clear_unconnected")
    /\ UNCHANGED <<nbdFiles, mounts, dirs, nbdMu, dev, src, zerofs>>

ClearUnconnected(h) ==
    /\ At(h, "clear_unconnected")
    /\ nbdMu = None
    /\ clearVolumeNBDState(Volume(h), dev[h])
    /\ Continue(h, "cleanup_unmount")
    /\ UNCHANGED <<kernel, nbdMu, dev, src, zerofs>>

\* Mutant: the output of blkid is not looked at.
BlkidIgnored(h) ==
    /\ At(h, "blkid")
    /\ Advance(h, "mkfs")

\* No output, which is also what a blkid that fails prints, means that there
\* is no file system.
Blkid(h) ==
    LET printsType == Live(dev[h]) /\ disk[conn[dev[h]]] = "formatted" IN
    /\ At(h, "blkid")
    /\ \/ printsType /\ Advance(h, "mount_fs")
       \/ (~printsType \/ Fails("blkid")) /\ Advance(h, "mkfs")

\* mkfs -f formats the disk image of whichever volume is connected.
Mkfs(h) ==
    LET v == conn[dev[h]] IN
    /\ At(h, "mkfs")
    /\ \/ /\ Live(dev[h])
          /\ disk' = [disk EXCEPT ![v] = "formatted"]
          /\ wiped' = wiped \cup {w \in {v} : disk[w] = "formatted"}
          /\ Continue(h, "mount_fs")
       \/ /\ ~Live(dev[h]) \/ Fails("mkfs")
          /\ Continue(h, "disconnect")
          /\ UNCHANGED <<disk, wiped>>
    /\ UNCHANGED <<nbdFiles, kernel, nbdMu, dev, src, pod, socket>>

MountFs(h) ==
    LET mountable == /\ Live(dev[h]) /\ disk[conn[dev[h]]] = "formatted"
                     /\ tgt[h] \in dirs /\ Len(mounts[tgt[h]]) < MaxMounts
    IN  /\ At(h, "mount_fs")
        /\ \/ /\ mountable
              /\ Mount(tgt[h], dev[h])
              /\ Return(h, "published")
           \/ /\ ~mountable \/ Fails("mount_fs")
              /\ Continue(h, "disconnect")
              /\ UNCHANGED <<kernel, nbdMu, dev, src>>
        /\ UNCHANGED <<nbdFiles, zerofs>>

\* nbd-client -d after a failed mkfs or mount, tried once.
DisconnectFailed(h) ==
    /\ At(h, "disconnect")
    /\ Disconnect(dev[h]) \/ (Fails("detach") /\ UNCHANGED kernel)
    /\ Continue(h, "cleanup_unmount")
    /\ UNCHANGED <<nbdFiles, nbdMu, dev, src, zerofs>>

-----------------------------------------------------------------------------
(* The deferred cleanup of a failed publish, which does not take nbdMu.    *)

\* Mutant: the deferred cleanup does not unmount the target.
CleanupUnmountSkipped(h) ==
    /\ At(h, "cleanup_unmount")
    /\ Advance(h, "cleanup_read")

CleanupUnmount(h) ==
    /\ At(h, "cleanup_unmount")
    /\ unmountBestEffort(tgt[h])
    /\ Continue(h, "cleanup_read")
    /\ UNCHANGED <<nbdFiles, nbdMu, dev, src, zerofs>>

\* Mutant: whether there is a state file is not looked at.
CleanupReadUnchecked(h) ==
    /\ At(h, "cleanup_read")
    /\ dev' = [dev EXCEPT ![h] = readVolumeNBDState(Volume(h))]
    /\ Continue(h, "cleanup_detach")
    /\ UNCHANGED <<nbdFiles, kernel, nbdMu, src, zerofs>>

CleanupRead(h) ==
    LET recorded == readVolumeNBDState(Volume(h)) IN
    /\ At(h, "cleanup_read")
    /\ dev' = [dev EXCEPT ![h] = recorded]
    /\ Continue(h, IF recorded = None THEN "cleanup_pod" ELSE "cleanup_detach")
    /\ UNCHANGED <<nbdFiles, kernel, nbdMu, src, zerofs>>

CleanupDetach(h) ==
    /\ At(h, "cleanup_detach")
    /\ detachNBDDeviceBestEffort(dev[h])
    /\ Continue(h, "cleanup_state")
    /\ UNCHANGED <<nbdFiles, nbdMu, dev, src, zerofs>>

\* clearVolumeNBDState removes two files; without the mutex other handlers
\* run in between.
CleanupState(h) ==
    /\ At(h, "cleanup_state")
    /\ RemoveVolumeFile(Volume(h))
    /\ Continue(h, "cleanup_reservation")
    /\ UNCHANGED <<reservation, expired, kernel, nbdMu, dev, src, zerofs>>

CleanupReservation(h) ==
    /\ At(h, "cleanup_reservation")
    /\ RemoveReservation(dev[h])
    /\ Continue(h, "cleanup_pod")
    /\ UNCHANGED <<volState, kernel, nbdMu, dev, src, zerofs>>

\* The pod is deleted with the call's context as well.
RemovePod(h) ==
    /\ \/ h \in waiting /\ pod' = [pod EXCEPT ![Volume(h)] = "none"]
       \/ (h \notin waiting \/ Fails("remove_pod")) /\ UNCHANGED pod
    /\ UNCHANGED <<socket, disk, wiped>>

CleanupPod(h) ==
    /\ At(h, "cleanup_pod")
    /\ RemovePod(h)
    /\ Return(h, "uncertain")
    /\ UNCHANGED <<nbdFiles, kernel>>

-----------------------------------------------------------------------------
(* NodeUnpublishVolume.                                                    *)

FindSource(h) ==
    /\ At(h, "find_source")
    /\ \E found \in FoundSources(tgt[h]) : src' = [src EXCEPT ![h] = found]
    /\ Continue(h, "umount_fs")
    /\ UNCHANGED <<nbdFiles, kernel, nbdMu, dev, zerofs>>

\* The failure of umount is only logged.
UmountFs(h) ==
    /\ At(h, "umount_fs")
    /\ Unmount(tgt[h]) \/ UnmountFails(tgt[h], "umount")
    /\ Continue(h, "recover")
    /\ UNCHANGED <<nbdFiles, nbdMu, dev, src, zerofs>>

\* Mutant: the state file is removed before the device is detached.
RecoverClears(h) ==
    /\ At(h, "recover")
    /\ RemoveVolumeFile(Volume(h))
    /\ Continue(h, "detach")
    /\ UNCHANGED <<reservation, expired, kernel, nbdMu, dev, src, zerofs>>

\* If findmnt found nothing, the device is taken from the state file.
Recover(h) ==
    LET recorded == readVolumeNBDState(Volume(h)) IN
    /\ At(h, "recover")
    /\ src' = [src EXCEPT ![h] = IF @ = <<>> /\ recorded # None
                                 THEN <<recorded>> ELSE @]
    /\ Continue(h, "detach")
    /\ UNCHANGED <<nbdFiles, kernel, nbdMu, dev, zerofs>>

\* nbd-client -d is run once and fails on what is no NBD device.
Detach(h) ==
    LET d == DeviceArgument(src[h]) IN
    /\ At(h, "detach")
    /\ \/ d # None /\ Disconnect(d)
       \/ (d = None \/ Fails("detach")) /\ UNCHANGED kernel
    /\ Continue(h, "remove_pod")
    /\ UNCHANGED <<nbdFiles, nbdMu, dev, src, zerofs>>

RemovePodOf(h) ==
    /\ At(h, "remove_pod")
    /\ RemovePod(h)
    /\ Continue(h, "clear")
    /\ UNCHANGED <<nbdFiles, kernel, nbdMu, dev, src>>

\* The call succeeds whatever failed before; the kubelet then removes the
\* target directory unless something is still mounted on it.
Clear(h) ==
    /\ At(h, "clear")
    /\ nbdMu = None
    /\ clearVolumeNBDState(Volume(h), ReservationArgument(src[h]))
    /\ dirs' = IF h \in waiting /\ mounts[tgt[h]] = <<>>
               THEN dirs \ {tgt[h]} ELSE dirs
    /\ Return(h, "none")
    /\ UNCHANGED <<conn, mounts, zerofs>>

-----------------------------------------------------------------------------
(* The startup reconciler, which takes no lock.                            *)

\* Mutant: the scan ends with the first device.
ExamineFirst(d) ==
    /\ orphan = None
    /\ d \in scan /\ \A e \in scan : d <= e
    /\ scan' = {}
    /\ orphan' = IF isNBDConnected(d) /\ ~MountedSomewhere(d) THEN d ELSE None
    /\ UNCHANGED <<nbdFiles, kernel, nbdMu, pc, locals, zerofs, caller,
                   restarts>>

\* A device that is connected and of which findmnt shows no mount (or fails
\* to run) is an orphan.  That the two commands are one step loses nothing: if
\* a device that findmnt has found unmounted is connected when it is detached,
\* then it was connected and unmounted at some time before, and otherwise
\* detaching it does nothing.
Examine(d) ==
    /\ orphan = None
    /\ d \in scan /\ \A e \in scan : d <= e
    /\ scan' = scan \ {d}
    /\ \/ /\ isNBDConnected(d)
          /\ ~MountedSomewhere(d) \/ Fails("findmnt")
          /\ orphan' = d
       \/ /\ ~isNBDConnected(d) \/ MountedSomewhere(d) \/ Fails("sysfs")
          /\ orphan' = orphan
    /\ UNCHANGED <<nbdFiles, kernel, nbdMu, pc, locals, zerofs, caller,
                   restarts>>

DetachOrphan ==
    /\ orphan # None
    /\ detachNBDDeviceBestEffort(orphan)
    /\ orphan' = None
    /\ UNCHANGED <<nbdFiles, nbdMu, pc, locals, scan, zerofs, caller,
                   restarts>>

reconcileOrphanedNBDDevices == (\E d \in Devices : Examine(d)) \/ DetachOrphan

NbdFilesLost ==
    /\ volState' = [v \in Volumes |-> None]
    /\ reservation' = [d \in Devices |-> None]
    /\ expired' = [d \in Devices |-> FALSE]

HandlersLost ==
    /\ nbdMu' = None
    /\ pc' = [h \in Handlers |-> "idle"]
    /\ tgt' = [h \in Handlers |-> None]
    /\ dev' = [h \in Handlers |-> None]
    /\ src' = [h \in Handlers |-> <<>>]
    /\ waiting' = {}

\* Mutant: the restarted plugin does not run the reconciler.
RestartOnly ==
    /\ restarts < MaxRestarts
    /\ restarts' = restarts + 1
    /\ NbdFilesLost
    /\ HandlersLost
    /\ scan' = {}
    /\ orphan' = None
    /\ UNCHANGED <<kernel, zerofs, kub, timeouts>>

\* The plugin's container is replaced: its goroutines and its file system
\* are gone, the reconciler starts, and calls in flight have failed.
Restart ==
    /\ restarts < MaxRestarts
    /\ restarts' = restarts + 1
    /\ NbdFilesLost
    /\ HandlersLost
    /\ scan' = Devices
    /\ orphan' = None
    /\ UNCHANGED <<kernel, zerofs, kub, timeouts>>

-----------------------------------------------------------------------------
(* Time and the ZeroFS pods.                                               *)

\* A reservation file grows older than two hours, which NodePublishVolume
\* does not take from reserving a device to its return.
Expire(d) ==
    /\ Fails("expiry")
    /\ \A h \in Handlers : dev[h] # d
    /\ reservation[d] # None /\ ~expired[d]
    /\ expired' = [expired EXCEPT ![d] = TRUE]
    /\ UNCHANGED <<volState, reservation, kernel, nbdMu, pc, locals,
                   reconciler, zerofs, caller, restarts>>

\* ZeroFS creates its socket file, which nobody removes, and serves.
PodServes(v) ==
    /\ pod[v] = "starting"
    /\ pod' = [pod EXCEPT ![v] = "serving"]
    /\ socket' = [socket EXCEPT ![v] = TRUE]
    /\ UNCHANGED <<nbdFiles, kernel, nbdMu, pc, locals, reconciler, disk,
                   wiped, caller, restarts>>

\* The pod's container restarts, or the pod is deleted.
PodDies(v) ==
    /\ Fails("pod")
    /\ pod[v] = "serving"
    /\ \E state \in {"none", "starting"} : pod' = [pod EXCEPT ![v] = state]
    /\ UNCHANGED <<nbdFiles, kernel, nbdMu, pc, locals, reconciler, socket,
                   disk, wiped, caller, restarts>>

-----------------------------------------------------------------------------

Publish(h) ==
    \/ Check(h) \/ UnmountLingering(h) \/ LockStale(h) \/ DetachStale(h)
    \/ ClearStale(h) \/ CreatePod(h) \/ AwaitPod(h) \/ WaitSocket(h)
    \/ Mount9P(h) \/ CreateDisk(h) \/ Umount9P(h) \/ Reserve(h)
    \/ Connect(h) \/ ClearUnconnected(h) \/ Blkid(h) \/ Mkfs(h)
    \/ MountFs(h) \/ DisconnectFailed(h)

Cleanup(h) ==
    \/ CleanupUnmount(h) \/ CleanupRead(h) \/ CleanupDetach(h)
    \/ CleanupState(h) \/ CleanupReservation(h) \/ CleanupPod(h)

Unpublish(h) ==
    \/ FindSource(h) \/ UmountFs(h) \/ Recover(h) \/ Detach(h)
    \/ RemovePodOf(h) \/ Clear(h)

Step(h) == Publish(h) \/ Cleanup(h) \/ Unpublish(h)

Next ==
    \/ \E h \in Handlers :
          \/ \E t \in Targets : NodePublishVolume(h, t)
                                \/ NodeUnpublishVolume(h, t)
          \/ Timeout(h)
          \/ Step(h)
    \/ reconcileOrphanedNBDDevices
    \/ Restart
    \/ \E d \in Devices : Expire(d)
    \/ \E v \in Volumes : PodServes(v) \/ PodDies(v)

Spec == Init /\ [][Next]_vars

=============================================================================
