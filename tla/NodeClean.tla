----------------------------- MODULE NodeClean -----------------------------
(***************************************************************************)
(* What the node service leaves behind: the invariants from which          *)
(* FailedPublishIsClean and UnpublishedIsClean follow.  Publishing may     *)
(* fail at every step, pods may die and the plugin may restart; only the   *)
(* commands of the clean-up itself do not fail.                            *)
(***************************************************************************)
EXTENDS NodeSerial

CleanEnvironment ==
    /\ MaxTimeouts = 0
    /\ \A t, u \in Targets : VolumeOf[t] = VolumeOf[u] => t = u
    /\ Faults \cap {"umount", "findmnt", "detach", "remove_pod"} = {}
    /\ MaxRestarts # 0 => "sysfs" \notin Faults

\* The state file names no device: it is missing, or empty after a write
\* that failed.
Unrecorded(v) ==
    volState[v] = None \/ (Fails("write_state") /\ volState[v] = Empty)

Bare(t) == mounts[t] = <<>> /\ Unrecorded(VolumeOf[t])

\* What a publish that was killed before it mounted a device leaves.
Begun(t) == mounts[t] \in {<<>>, <<NineP>>} /\ Unrecorded(VolumeOf[t])

\* A device is mounted; the volume's state file, if it was not lost, names it.
Holds(t, d) ==
    mounts[t] = <<d>> /\ (Recorded(t, d) \/ Unrecorded(VolumeOf[t]))

Held(t) == \E d \in Devices : Holds(t, d)

\* What the kubelet finds of a target that no handler works on.
Settled(t) ==
    LET v == VolumeOf[t]
    IN  /\ kub[t] = "published" => Held(t)
        /\ kub[t] = "none" =>
              mounts[t] = <<>> /\ volState[v] = None /\ pod[v] = "none"
        /\ kub[t] = "uncertain" =>
              \/ Bare(t) /\ pod[v] = "none"
              \/ restarts # 0 /\ (Begun(t) \/ Held(t))

\* A device is connected to no volume but such as have it on record.
LinkRecorded(d) == \A w \in Volumes : conn[d] = w => volState[w] = d

PublishClean(h) ==
    LET t == tgt[h]
        v == VolumeOf[t]
        d == dev[h]
    IN  /\ pc[h] = "check" => Settled(t)
        /\ pc[h] \in {"lock_stale", "create_pod", "await_pod", "wait_socket",
                      "mount_9p", "reserve", "cleanup_reservation",
                      "cleanup_pod"} => Bare(t)
        /\ pc[h] \in {"unmount_lingering", "create_disk", "umount_9p"} =>
              Begun(t)
        /\ pc[h] \in {"connect", "clear_unconnected", "blkid", "mkfs",
                      "mount_fs", "disconnect", "cleanup_detach",
                      "cleanup_state"} =>
              mounts[t] = <<>> /\ Recorded(t, d)
        /\ pc[h] \in {"connect", "clear_unconnected", "cleanup_state"} =>
              conn[d] # v
        /\ pc[h] \in {"connect", "blkid", "mkfs", "mount_fs"} =>
              LinkRecorded(d)
        /\ pc[h] = "cleanup_unmount" =>
              Begun(t) \/ (mounts[t] = <<>> /\ volState[v] \in Devices)
        /\ pc[h] = "cleanup_read" =>
              Bare(t) \/ (mounts[t] = <<>> /\ volState[v] \in Devices)

\* The device that an unpublishing handler has taken off the target.
TakenOff(t, d) ==
    mounts[t] = <<>> /\ (Recorded(t, d) \/ Unrecorded(VolumeOf[t]))

UnpublishClean(h) ==
    LET t == tgt[h]
        v == VolumeOf[t]
    IN  /\ pc[h] = "find_source" => Begun(t) \/ Held(t)
        /\ pc[h] = "umount_fs" =>
              \/ DeviceArgument(src[h]) = None /\ src[h] # <<>> /\ Begun(t)
              \/ src[h] = <<>> /\ Bare(t)
              \/ \E d \in Devices : src[h] = <<d>> /\ Holds(t, d)
        /\ pc[h] \in {"recover", "detach"} =>
              \/ DeviceArgument(src[h]) = None /\ Bare(t)
              \/ \E d \in Devices : src[h] = <<d>> /\ TakenOff(t, d)
        /\ pc[h] \in {"remove_pod", "clear"} =>
              /\ mounts[t] = <<>>
              /\ \A d \in Devices : volState[v] = d => conn[d] # v
        /\ pc[h] = "clear" => pod[v] = "none"

HandlerClean(h) ==
    /\ pc[h] \notin CriticalLabels
    /\ kub[tgt[h]] # "none"
    /\ kub[tgt[h]] = "published" => pc[h] = "check"
    /\ PublishClean(h)
    /\ UnpublishClean(h)

\* What will lead somebody to the connection of device d to volume v: the
\* volume's state file, a mount on its target, the lines of findmnt that an
\* unpublishing handler keeps, or the scan of the startup reconciler.
Tied(v, d) ==
    \/ volState[v] = d
    \/ d \in scan \/ d = orphan
    \/ \E t \in Targets : VolumeOf[t] = v /\ mounts[t] = <<d>>
    \/ \E h \in Handlers : /\ pc[h] \in {"recover", "detach"}
                           /\ Volume(h) = v /\ src[h] = <<d>>

CleanInv ==
    /\ TypeOK
    /\ waiting = {h \in Handlers : Active(h)}
    /\ \A h, k \in Handlers :
          Active(h) /\ Active(k) /\ tgt[h] = tgt[k] => h = k
    /\ restarts = 0 => scan = {} /\ orphan = None
    /\ \A t \in Targets : mounts[t] # <<>> => t \in dirs
    /\ \A t \in Targets : ~Attended(t) => Settled(t)
    /\ \A h \in Handlers : Active(h) => HandlerClean(h)
    /\ \A v \in Volumes : (\A t \in Targets : VolumeOf[t] # v) =>
                              volState[v] = None /\ pod[v] = "none"
    /\ \A v \in Volumes, d \in Devices : conn[d] = v => Tied(v, d)
    /\ \A t \in Targets, d \in scan :
          mounts[t] = <<d>> => conn[d] = VolumeOf[t] \/ LinkRecorded(d)

-----------------------------------------------------------------------------
(* A restart loses the state files.  The reconciler passes over a device   *)
(* that is mounted, so that nothing leads to its connection any more if it *)
(* is mounted on the target of another volume than the one it is connected *)
(* to.  That a device is mounted where it belongs needs reservations that  *)
(* are exclusive; a single handler keeps them so.                          *)

MountsLinked ==
    \A t \in Targets, d \in Devices :
        mounts[t] = <<d>> => conn[d] \in {VolumeOf[t], Dead}

AloneEnvironment ==
    /\ CleanEnvironment
    /\ \A h, k \in Handlers : h = k
    /\ {"write_reservation", "expiry"} \cap Faults = {}

\* Device d is on record for no volume but v.
OnlyFor(v, d) == \A w \in Volumes : volState[w] = d => w = v

AloneInv ==
    /\ MountsLinked
    /\ \A v \in Volumes, d \in Devices :
          volState[v] = d => reservation[d] = v /\ ~expired[d]
    /\ \A t \in Targets, d \in Devices :
          mounts[t] = <<d>> => OnlyFor(VolumeOf[t], d)
    /\ \A h \in Handlers :
          /\ pc[h] \in {"blkid", "mkfs", "mount_fs"} =>
                conn[dev[h]] \in {Volume(h), None, Dead}
          /\ pc[h] = "cleanup_reservation" => OnlyFor(None, dev[h])
          /\ pc[h] \in UnpublishLabels \ {"find_source"} =>
                \A d \in Devices : ReservationArgument(src[h]) = d =>
                                       OnlyFor(Volume(h), d)

=============================================================================
