-------------------------------- MODULE Nbd --------------------------------
(***************************************************************************)
(* The NBD bookkeeping of one node (pkg/csi/nbd.go): the two kinds of      *)
(* state file under /run/zerofs-csi, the kernel's NBD devices and the      *)
(* mount table of the kubelet target paths.  The operators below are the   *)
(* functions of nbd.go; module NodeService calls them from the steps of    *)
(* its handlers.                                                           *)
(*                                                                         *)
(* A fault is the failure of one external command or file operation.       *)
(* Faults names the ones that may happen, so that a model can ask what     *)
(* holds when only some of them do.                                        *)
(***************************************************************************)
EXTENDS Integers, Sequences

CONSTANTS
    Volumes,    \* CSI volume ids
    Targets,    \* kubelet target paths
    Devices,    \* the minor numbers of the /dev/nbdN block devices
    Faults,     \* the names of the operations that may fail
    MaxMounts,  \* bound on the mounts stacked on a target (fs.mount-max)
    None,       \* a file that does not exist, a device that is not connected
    Empty,      \* a file that exists without content
    Dead,       \* a device disconnected while a mount still holds it open
    NineP,      \* the mount source of ZeroFS' 9P export
    HostFs      \* the mount source of the file system below the target paths

VARIABLES
    volState,    \* /run/zerofs-csi/<volume>: the device the volume uses
    reservation, \* /run/zerofs-csi/by-device/<device>: the volume it is for
    expired,     \* whether that reservation file is older than two hours
    conn,        \* the volume whose ZeroFS server a device is connected to
    mounts,      \* the sources mounted on a target, the lowest one first
    dirs         \* the targets whose directory exists

nbdFiles == <<volState, reservation, expired>>
kernel == <<conn, mounts, dirs>>

ASSUME DevicesAssumption == Devices \subseteq Nat
ASSUME MaxMountsAssumption == MaxMounts \in Nat \ {0}
ASSUME SentinelsAssumption ==
    /\ None \notin Volumes \cup Devices \cup Targets
    /\ Empty \notin Volumes \cup Devices \cup {None}
    /\ Dead \notin Volumes \cup {None}
    /\ {NineP, HostFs} \cap Devices = {}
    /\ NineP # HostFs

MountSources == Devices \cup {NineP}

NbdTypeOK ==
    /\ volState \in [Volumes -> Devices \cup {None, Empty}]
    /\ reservation \in [Devices -> Volumes \cup {None, Empty}]
    /\ expired \in [Devices -> BOOLEAN]
    /\ conn \in [Devices -> Volumes \cup {None, Dead}]
    /\ mounts \in [Targets -> Seq(MountSources)]
    /\ dirs \subseteq Targets

NbdInit ==
    /\ volState = [v \in Volumes |-> None]
    /\ reservation = [d \in Devices |-> None]
    /\ expired = [d \in Devices |-> FALSE]
    /\ conn = [d \in Devices |-> None]
    /\ mounts = [t \in Targets |-> <<>>]
    /\ dirs = {}

Fails(operation) == operation \in Faults

-----------------------------------------------------------------------------
(* Reading the state of the node.                                          *)

\* Mutant: only the reservation files say that a device is in use.
NeverConnected(d) == d \notin Devices

\* /sys/block/nbdN/pid exists until the last opener of the device is gone,
\* so that a device disconnected below a mount still counts as connected.
isNBDConnected(d) == conn[d] # None

\* findmnt --target walks up to the mount that holds the path: for a path
\* that exists it always finds a source, that of the host's file system if
\* nothing is mounted on the path itself.  Stacked mounts are listed one per
\* line.  <<>> is the answer "not mounted" of a findmnt that failed.
findMountSource(t) ==
    IF t \notin dirs THEN <<>>
    ELSE IF mounts[t] = <<>> THEN <<HostFs>> ELSE mounts[t]

FoundSources(t) ==
    {findMountSource(t)} \cup {src \in {<<>>} : Fails("findmnt")}

\* findmnt -S <device>
MountedSomewhere(d) ==
    \E t \in Targets : \E i \in DOMAIN mounts[t] : mounts[t][i] = d

\* What nbd-client -d makes of the lines that findmnt printed.
DeviceArgument(lines) ==
    IF Len(lines) = 1 /\ lines[1] \in Devices THEN lines[1] ELSE None

\* filepath.Base of the lines: the device of the last one.
ReservationArgument(lines) ==
    IF lines # <<>> /\ lines[Len(lines)] \in Devices
    THEN lines[Len(lines)] ELSE None

\* A file that is missing, unreadable or empty is no state.
readVolumeNBDState(v) == IF volState[v] = Empty THEN None ELSE volState[v]

-----------------------------------------------------------------------------
(* Commands that change the kernel's state.                                *)

\* The connections left when the mounts are m: a device that was
\* disconnected below a mount is released with the last mount of it.
Released(m) ==
    [d \in Devices |->
        IF conn[d] = Dead
           /\ ~ \E t \in Targets : \E i \in DOMAIN m[t] : m[t][i] = d
        THEN None ELSE conn[d]]

\* umount <target> removes the topmost mount.
Unmount(t) ==
    LET rest == [mounts EXCEPT ![t] =
                    SubSeq(mounts[t], 1, Len(mounts[t]) - 1)]
    IN  /\ mounts[t] # <<>>
        /\ mounts' = rest
        /\ conn' = Released(rest)
        /\ dirs' = dirs

UnmountFails(t, fault) ==
    /\ mounts[t] = <<>> \/ Fails(fault)
    /\ UNCHANGED kernel

\* umount runs only if findmnt found a source; its failure is only logged.
unmountBestEffort(t) ==
    \/ Unmount(t)
    \/ UnmountFails(t, "umount")
    \/ Fails("findmnt") /\ UNCHANGED kernel

Mount(t, source) ==
    /\ t \in dirs
    /\ Len(mounts[t]) < MaxMounts
    /\ mounts' = [mounts EXCEPT ![t] = Append(mounts[t], source)]
    /\ UNCHANGED <<conn, dirs>>

\* nbd-client -d <device>: a no-op on a device that is not connected, and
\* not refused for one that is mounted.
Disconnect(d) ==
    /\ conn' = [conn EXCEPT ![d] =
                   IF conn[d] # None /\ MountedSomewhere(d)
                   THEN Dead ELSE None]
    /\ UNCHANGED <<mounts, dirs>>

\* Five attempts, the failure of the last one is ignored.
detachNBDDeviceBestEffort(d) ==
    \/ Disconnect(d)
    \/ Fails("detach") /\ UNCHANGED kernel

-----------------------------------------------------------------------------
(* The state files.                                                        *)

RemoveVolumeFile(v) == volState' = [volState EXCEPT ![v] = None]

\* d = None stands for an empty device path or one of no NBD device.
RemoveReservation(d) ==
    /\ reservation' = [e \in Devices |->
                          IF e = d THEN None ELSE reservation[e]]
    /\ expired' = [e \in Devices |-> IF e = d THEN FALSE ELSE expired[e]]

clearVolumeNBDState(v, d) == RemoveVolumeFile(v) /\ RemoveReservation(d)

\* Mutant: a reservation file that exists is no obstacle (no O_EXCL).
ReservationIgnored(d) == d \in Devices

\* The reservation is absent, or one that the scan garbage-collects.
ReservationFree(d) ==
    \/ reservation[d] \in {None, Empty}
    \/ /\ reservation[d] \in Volumes
       /\ volState[reservation[d]] = None \/ expired[d]

\* The first device of the scan that is neither connected, nor unreadable
\* in sysfs, nor reserved.
Reservable(d, unreadable) ==
    /\ d \notin unreadable
    /\ ~isNBDConnected(d)
    /\ ReservationFree(d)

FirstReservable(d, unreadable) ==
    /\ Reservable(d, unreadable)
    /\ \A e \in Devices : Reservable(e, unreadable) => d <= e

\* A reservation file is created with the volume's id as its content; the
\* error of writing the content is ignored.
CreateReservation(v, d) ==
    /\ \/ reservation' = [reservation EXCEPT ![d] = v]
       \/ /\ Fails("write_reservation")
          /\ reservation' = [reservation EXCEPT ![d] = Empty]
    /\ expired' = [expired EXCEPT ![d] = FALSE]

\* reserveNBDDevice returns the device of the volume's state file ...
ReuseReservation(v, d) ==
    /\ readVolumeNBDState(v) = d
    /\ IF reservation[d] = None
       THEN CreateReservation(v, d)
       ELSE UNCHANGED <<reservation, expired>>
    /\ UNCHANGED volState

\* ... or reserves the first free one ...
TakeReservation(v, d, unreadable) ==
    /\ readVolumeNBDState(v) = None
    /\ FirstReservable(d, unreadable)
    /\ CreateReservation(v, d)
    /\ volState' = [volState EXCEPT ![v] = d]

reserveNBDDevice(v, d, unreadable) ==
    ReuseReservation(v, d) \/ TakeReservation(v, d, unreadable)

\* ... or fails, because no device is free or because the state file cannot
\* be written, which may leave an empty state file and, the reservation
\* being removed again, no reservation of the device the scan had chosen.
ReserveFails(v, unreadable) ==
    /\ readVolumeNBDState(v) = None
    /\ \/ /\ \A d \in Devices : ~Reservable(d, unreadable)
          /\ UNCHANGED nbdFiles
       \/ /\ Fails("write_state")
          /\ \E d \in Devices :
                FirstReservable(d, unreadable) /\ RemoveReservation(d)
          /\ \E content \in {volState[v], Empty} :
                volState' = [volState EXCEPT ![v] = content]

\* The devices whose sysfs state cannot be read during a scan.
UnreadableSets == {u \in SUBSET Devices : u # {} => Fails("sysfs")}

=============================================================================
