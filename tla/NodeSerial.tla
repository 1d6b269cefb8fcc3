---------------------------- MODULE NodeSerial -----------------------------
(***************************************************************************)
(* The node service in the environment in which its guarantees hold: every *)
(* volume has one target, calls are neither abandoned nor cut short by a   *)
(* restart, the pods keep running, and neither umount nor findmnt nor a    *)
(* step after the connection of a device fails.  Everything before the     *)
(* connection may fail, and so may detaching a device, removing a pod and  *)
(* the bookkeeping.  SerialInv is the inductive invariant from which the   *)
(* guarantees follow.                                                      *)
(***************************************************************************)
EXTENDS NodeProperties

SerialFaults ==
    /\ MaxTimeouts = 0
    /\ \A t, u \in Targets : VolumeOf[t] = VolumeOf[u] => t = u
    /\ Faults \cap {"mkfs", "mount_fs", "umount", "findmnt", "pod"} = {}

SerialEnvironment == SerialFaults /\ MaxRestarts = 0

Active(h) == pc[h] # "idle"
Attended(t) == \E h \in Handlers : Active(h) /\ tgt[h] = t

Recorded(t, d) == volState[VolumeOf[t]] = d
NoRecord(t) == volState[VolumeOf[t]] \notin Devices
Linked(t, d) == conn[d] = VolumeOf[t] /\ Recorded(t, d)

\* The target is mounted from the device of its volume's state file.
Served(t) == \E d \in Devices : mounts[t] = <<d>> /\ Linked(t, d)

Vacant(t) == mounts[t] = <<>> /\ NoRecord(t)

TargetOK(t) == IF kub[t] = "published" THEN Served(t) ELSE Vacant(t)

\* Labels that only a stale state file or a failure after the connection of
\* the device leads to.
UnreachedLabels ==
    {"detach_stale", "clear_stale", "disconnect", "cleanup_detach",
     "cleanup_state", "cleanup_reservation"}

\* What a publishing handler has achieved for its target.
PublishOK(h) ==
    LET t == tgt[h]
        v == VolumeOf[t]
        d == dev[h]
    IN  /\ pc[h] = "check" => TargetOK(t)
        /\ pc[h] \in {"unmount_lingering", "lock_stale", "create_pod",
                      "await_pod", "wait_socket", "mount_9p", "reserve",
                      "cleanup_read", "cleanup_pod"} => Vacant(t)
        /\ pc[h] \in {"create_disk", "umount_9p", "cleanup_unmount"} =>
              mounts[t] \in {<<>>, <<NineP>>} /\ NoRecord(t)
        /\ pc[h] \in {"umount_9p", "reserve", "connect", "blkid", "mkfs",
                      "mount_fs"} => t \in dirs /\ pod[v] = "serving"
        /\ pc[h] \in {"connect", "clear_unconnected", "blkid", "mkfs",
                      "mount_fs"} => mounts[t] = <<>> /\ Recorded(t, d)
        /\ pc[h] \in {"blkid", "mkfs", "mount_fs"} => conn[d] = v
        /\ pc[h] = "mkfs" => Fails("blkid") \/ disk[v] # "formatted"
        /\ pc[h] = "mount_fs" => disk[v] = "formatted"

\* What an unpublishing handler has found of its target.
UnpublishOK(h) ==
    LET t == tgt[h]
        nothing == src[h] \in {<<>>, <<HostFs>>} /\ Vacant(t)
    IN  /\ pc[h] = "find_source" => Served(t) \/ Vacant(t)
        /\ pc[h] = "umount_fs" =>
              \/ nothing
              \/ \E d \in Devices :
                    src[h] = <<d>> /\ mounts[t] = <<d>> /\ Linked(t, d)
        /\ pc[h] \in {"recover", "detach"} =>
              \/ nothing
              \/ \E d \in Devices :
                    src[h] = <<d>> /\ mounts[t] = <<>> /\ Linked(t, d)
        /\ pc[h] \in {"remove_pod", "clear"} =>
              \/ nothing
              \/ \E d \in Devices :
                    src[h] = <<d>> /\ mounts[t] = <<>> /\ Recorded(t, d)

HandlerOK(h) ==
    /\ pc[h] \notin UnreachedLabels
    /\ kub[tgt[h]] = "published" => pc[h] = "check"
    /\ PublishOK(h)
    /\ UnpublishOK(h)

\* A device that a state file names is reserved for the file's volume, if
\* reservations are written and do not grow old.
RecordsReserved ==
    {"write_reservation", "expiry"} \cap Faults = {} =>
        \A v \in Volumes, d \in Devices :
            volState[v] = d => reservation[d] = v /\ ~expired[d]

SerialInv ==
    /\ TypeOK
    /\ waiting = {h \in Handlers : Active(h)}
    /\ \A h, k \in Handlers :
          Active(h) /\ Active(k) /\ tgt[h] = tgt[k] => h = k
    /\ scan = {} /\ orphan = None
    /\ \A t \in Targets : mounts[t] # <<>> => t \in dirs
    /\ \A d \in Devices : conn[d] # Dead
    /\ \A t \in Targets : ~Attended(t) => TargetOK(t)
    /\ \A h \in Handlers : Active(h) => HandlerOK(h)
    /\ Fails("blkid") \/ wiped = {}
    /\ RecordsReserved

=============================================================================
