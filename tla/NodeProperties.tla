-------------------------- MODULE NodeProperties ---------------------------
(***************************************************************************)
(* What the node service guarantees, and what its comments and the         *)
(* documentation say of it.                                                *)
(***************************************************************************)
EXTENDS NodeService

\* A goroutine that can run does; sync.Mutex hands the lock to a goroutine
\* that has waited for a millisecond, so that none is starved of it.
LockingStep(h) == LockStale(h) \/ Reserve(h) \/ ClearUnconnected(h) \/ Clear(h)

Fairness ==
    /\ \A h \in Handlers : WF_vars(Step(h)) /\ SF_vars(LockingStep(h))
    /\ WF_vars(reconcileOrphanedNBDDevices)

FairSpec == Spec /\ Fairness

-----------------------------------------------------------------------------
(* Properties.                                                             *)

\* The mutex is held exactly while its holder is between the read and the
\* removal of a stale state file: no path of NodePublishVolume returns or
\* goes on with the mutex locked.
MutexDiscipline ==
    \A h \in Handlers : nbdMu = h <=> pc[h] \in CriticalLabels

\* A target that the kubelet holds for published, and of which it has not
\* asked the removal, is mounted from one NBD device, and that device is
\* connected to the target's own volume.
PublishedIsServed ==
    \A t \in Targets :
        kub[t] = "published" =>
            \E d \in Devices : mounts[t] = <<d>> /\ conn[d] = VolumeOf[t]

\* A device is recorded in the state file of at most one volume: reservations
\* are exclusive.
DeviceExclusive ==
    \A v, w \in Volumes :
        volState[v] = volState[w] /\ volState[v] \in Devices => v = w

\* mkfs never runs on a disk image that has a file system.
NothingFormattedOver == wiped = {}

Idle(v) == \A h \in Handlers : pc[h] # "idle" => Volume(h) # v

Reconciled == scan = {} /\ orphan = None

\* Nothing on the node is left of volume v.
Clean(v) ==
    /\ \A d \in Devices : conn[d] # v
    /\ \A t \in Targets : VolumeOf[t] = v => mounts[t] = <<>>
    /\ volState[v] = None
    /\ pod[v] = "none"

\* A failed NodePublishVolume cleans up after itself: a volume that no
\* handler works for and that is published nowhere has left nothing behind.
FailedPublishIsClean ==
    \A v \in Volumes :
        /\ Idle(v)
        /\ \A t \in Targets : VolumeOf[t] = v => kub[t] # "published"
        => Clean(v)

\* After NodeUnpublishVolume nothing is left of the volume, even if the
\* plugin restarted in the middle of an earlier call, once the startup
\* reconciler has finished.
UnpublishedIsClean ==
    \A v \in Volumes :
        /\ Idle(v)
        /\ Reconciled
        /\ \A t \in Targets : VolumeOf[t] = v => kub[t] = "none"
        => Clean(v)

\* Every call returns: no handler waits for ever, for the mutex or for a pod.
CallsReturn == \A h \in Handlers : pc[h] # "idle" ~> pc[h] = "idle"

\* A device that is connected, mounted nowhere and used by no handler, as a
\* plugin killed in the middle of a call leaves it, is disconnected in the
\* end, by the startup reconciler or by the next call that it serves.
Orphaned(d) ==
    /\ isNBDConnected(d)
    /\ ~MountedSomewhere(d)
    /\ \A h \in Handlers : dev[h] # d /\ DeviceArgument(src[h]) # d

OrphansDetached == \A d \in Devices : Orphaned(d) ~> ~isNBDConnected(d)

\* The volume whose state file names device d.
leaseHolder ==
    [d \in Devices |-> IF \E v \in Volumes : volState[v] = d
                       THEN CHOOSE v \in Volumes : volState[v] = d ELSE None]

Lease == INSTANCE DeviceLease WITH lease <- leaseHolder, link <- conn

\* The state files implement leases: a handler connects and disconnects a
\* device only while the state file of its own volume, and of no other one,
\* names it.
LeasesImplemented == Lease!Spec

-----------------------------------------------------------------------------
(* What comments and documentation say of single steps.                    *)

\* node.go: the state that NodePublishVolume detaches before it starts over
\* is "stale", from "previous failed attempts": its device does not serve a
\* published target.
StaleIsNotPublished ==
    \A h \in Handlers, t \in Targets :
        pc[h] = "detach_stale" /\ kub[t] = "published"
            => mounts[t] # <<dev[h]>>

\* node.go: the startup reconciler leaves a mounted device alone.
ReconcilerSparesMounted ==
    [][DetachOrphan => ~MountedSomewhere(orphan)]_vars

=============================================================================
