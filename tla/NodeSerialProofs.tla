------------------------- MODULE NodeSerialProofs --------------------------
(***************************************************************************)
(* SerialInv is an inductive invariant of the node service in the serial   *)
(* environment, for every number of volumes, targets, devices and          *)
(* handlers; from it follow what the service guarantees there.             *)
(*                                                                         *)
(* A step of a handler is taken apart by the component of the state that   *)
(* it changes.  Each part is shown to change nothing that the invariant    *)
(* says of another target than the handler's; what it says of the          *)
(* handler's own target is shown action by action.                         *)
(***************************************************************************)
EXTENDS NodeSerial, NodeTypeProofs

\* The step disturbs nothing in the kernel but what is target t's.
KernelOK(t) ==
    /\ \A u \in Targets \ {t} : /\ mounts'[u] = mounts[u]
                                /\ u \in dirs => u \in dirs'
    /\ \A d \in Devices : conn'[d] = conn[d] \/ conn[d] \in {None, VolumeOf[t]}
    /\ \A u \in Targets : mounts'[u] # <<>> => u \in dirs'
    /\ \A d \in Devices : conn'[d] # Dead

\* ... in the state files ...
FilesOK(t) ==
    /\ \A u \in Targets \ {t} :
          volState'[VolumeOf[u]] = volState[VolumeOf[u]]
    /\ RecordsReserved'

\* ... and of the pods and disk images.
PodsOK(t) ==
    /\ \A u \in Targets \ {t} : /\ pod'[VolumeOf[u]] = pod[VolumeOf[u]]
                                /\ disk'[VolumeOf[u]] = disk[VolumeOf[u]]
    /\ Fails("blkid") \/ wiped' = {}

\* The step is one of handler h, for target t.
ControlOK(h, t) ==
    /\ \A k \in Handlers \ {h} : /\ pc'[k] = pc[k] /\ tgt'[k] = tgt[k]
                                 /\ dev'[k] = dev[k] /\ src'[k] = src[k]
    /\ \A u \in Targets \ {t} : kub'[u] = kub[u]
    /\ waiting' = {k \in Handlers : pc'[k] # "idle"}
    /\ UNCHANGED <<scan, orphan>>
    /\ pc'[h] # "idle" => tgt'[h] = t

\* What the invariant says of a target stays true if nothing of it changes.
LEMMA TargetKept ==
    ASSUME SerialFaults, SerialInv,
           NEW t \in Targets, NEW u \in Targets, u # t,
           KernelOK(t), FilesOK(t), kub'[u] = kub[u]
    PROVE  /\ Served(u) => Served(u)'
           /\ Vacant(u) <=> Vacant(u)'
           /\ TargetOK(u) => TargetOK(u)'
           /\ NoRecord(u) <=> NoRecord(u)'
           /\ \A d \in Devices : Recorded(u, d) <=> Recorded(u, d)'
           /\ \A d \in Devices : Linked(u, d) => Linked(u, d)'
<1>1. VolumeOf[u] \in Volumes /\ VolumeOf[u] # VolumeOf[t]
  BY VolumeOfAssumption, Zenon DEF SerialFaults
<1>2. mounts'[u] = mounts[u] /\ volState'[VolumeOf[u]] = volState[VolumeOf[u]]
  BY Zenon DEF KernelOK, FilesOK
<1>3. \A d \in Devices : conn[d] = VolumeOf[u] => conn'[d] = VolumeOf[u]
  BY <1>1, SentinelsAssumption, Zenon DEF KernelOK
<1>4. /\ \A d \in Devices : Recorded(u, d) <=> Recorded(u, d)'
      /\ NoRecord(u) <=> NoRecord(u)'
      /\ \A d \in Devices : Linked(u, d) => Linked(u, d)'
  BY <1>2, <1>3, Zenon DEF Recorded, NoRecord, Linked
<1>5. (Vacant(u) <=> Vacant(u)') /\ (Served(u) => Served(u)')
  BY <1>2, <1>4, Zenon DEF Vacant, Served
<1>6. QED
  BY <1>4, <1>5, Zenon DEF TargetOK

\* Nor does a handler of another target notice the step.
LEMMA HandlerKept ==
    ASSUME SerialFaults, SerialInv,
           NEW h \in Handlers, NEW t \in Targets,
           KernelOK(t), FilesOK(t), PodsOK(t), ControlOK(h, t),
           NEW k \in Handlers, k # h, Active(k), tgt[k] # t
    PROVE  HandlerOK(k)'
<1>1. PICK u \in Targets : u = tgt[k]
  BY Zenon DEF SerialInv, TypeOK, Active
<1>2. /\ pc'[k] = pc[k] /\ tgt'[k] = u /\ dev'[k] = dev[k] /\ src'[k] = src[k]
      /\ kub'[u] = kub[u]
  BY <1>1, Zenon DEF ControlOK
<1>3. /\ Served(u) => Served(u)'
      /\ Vacant(u) <=> Vacant(u)'
      /\ TargetOK(u) => TargetOK(u)'
      /\ NoRecord(u) <=> NoRecord(u)'
      /\ \A d \in Devices : Recorded(u, d) <=> Recorded(u, d)'
      /\ \A d \in Devices : Linked(u, d) => Linked(u, d)'
  BY <1>1, <1>2, TargetKept, Zenon
<1>4. HandlerOK(k) /\ (pc[k] \in DeviceLabels => dev[k] \in Devices)
  BY Zenon DEF SerialInv, TypeOK, Active
<1>5. mounts'[u] = mounts[u] /\ (u \in dirs => u \in dirs')
  BY <1>1, Zenon DEF KernelOK
<1>6. /\ pod'[VolumeOf[u]] = pod[VolumeOf[u]]
      /\ disk'[VolumeOf[u]] = disk[VolumeOf[u]]
  BY <1>1, Zenon DEF PodsOK
<1>7. \A d \in Devices : conn[d] = VolumeOf[u] => conn'[d] = VolumeOf[u]
  BY <1>1, VolumeOfAssumption, SentinelsAssumption
  DEF KernelOK, SerialFaults
<1>8. PublishOK(k)'
  <2>1. PublishOK(k)
    BY <1>4, Zenon DEF HandlerOK
  <2>2. QED
    BY <1>1, <1>2, <1>3, <1>4, <1>5, <1>6, <1>7, <2>1, Zenon
    DEF PublishOK, DeviceLabels
<1>9. UnpublishOK(k)'
  <2>1. UnpublishOK(k)
    BY <1>4, Zenon DEF HandlerOK
  <2>2. QED
    BY <1>1, <1>2, <1>3, <1>5, <2>1, Zenon DEF UnpublishOK
<1>10. QED
  BY <1>1, <1>2, <1>4, <1>8, <1>9, Zenon DEF HandlerOK

\* A step that keeps the rest alone and does its own part keeps the invariant.
LEMMA Assemble ==
    ASSUME SerialFaults, SerialInv, TypeOK',
           NEW h \in Handlers, NEW t \in Targets,
           \A k \in Handlers \ {h} : Active(k) => tgt[k] # t,
           KernelOK(t), FilesOK(t), PodsOK(t), ControlOK(h, t),
           Active(h) => tgt[h] = t,
           pc'[h] = "idle" => TargetOK(t)',
           pc'[h] # "idle" => HandlerOK(h)'
    PROVE  SerialInv'
<1>1. \A k \in Handlers \ {h} : Active(k)' <=> Active(k)
  BY Zenon DEF ControlOK, Active
<1>2. waiting' = {k \in Handlers : Active(k)'}
  BY Zenon DEF ControlOK, Active
<1>3. ASSUME NEW k \in Handlers, NEW l \in Handlers, Active(k)', Active(l)',
             tgt'[k] = tgt'[l]
      PROVE  k = l
  BY <1>1, <1>3 DEF ControlOK, Active, SerialInv
<1>4. ASSUME NEW k \in Handlers, Active(k)'
      PROVE  HandlerOK(k)'
  <2>1. CASE k = h
    BY <1>4, <2>1, Zenon DEF Active
  <2>2. CASE k # h
    BY <1>1, <1>4, <2>2, HandlerKept, Zenon
  <2>3. QED
    BY <2>1, <2>2, Zenon
<1>5. ASSUME NEW u \in Targets, ~Attended(u)'
      PROVE  TargetOK(u)'
  <2>1. CASE u = t
    BY <1>5, <2>1, Zenon DEF Attended, Active, ControlOK
  <2>2. CASE u # t
    <3>1. ~Attended(u)
      BY <1>1, <1>5, <2>2, Zenon DEF Attended, ControlOK
    <3>2. TargetOK(u) /\ kub'[u] = kub[u]
      BY <3>1, <2>2, Zenon DEF SerialInv, ControlOK
    <3>3. QED
      BY <2>2, <3>2, TargetKept, Zenon
  <2>3. QED
    BY <2>1, <2>2, Zenon
<1>6. scan' = {} /\ orphan' = None
  BY Zenon DEF SerialInv, ControlOK
<1>7. QED
  BY <1>2, <1>3, <1>4, <1>5, <1>6, Zenon
  DEF SerialInv, KernelOK, FilesOK, PodsOK

-----------------------------------------------------------------------------
(* The kernel's state.                                                     *)

\* A target carries no mount, the mount of ZeroFS' export, or that of the
\* device of its own volume.
LEMMA MountsOwned ==
    ASSUME SerialInv, NEW t \in Targets
    PROVE  mounts[t] \in {<<>>, <<NineP>>} \/ Served(t)
<1>1. CASE ~Attended(t)
  BY <1>1, Zenon DEF SerialInv, TargetOK, Vacant
<1>2. ASSUME NEW h \in Handlers, Active(h), tgt[h] = t
      PROVE  mounts[t] \in {<<>>, <<NineP>>} \/ Served(t)
  <2>1. HandlerOK(h) /\ pc[h] \in Labels
    BY <1>2, Zenon DEF SerialInv, TypeOK
  <2>2. CASE pc[h] \in PublishLabels
    BY <1>2, <2>1, <2>2, Zenon
    DEF HandlerOK, PublishOK, PublishLabels, UnreachedLabels, TargetOK, Vacant
  <2>3. CASE pc[h] \in UnpublishLabels
    BY <1>2, <2>1, <2>3, Zenon
    DEF HandlerOK, UnpublishOK, UnpublishLabels, Vacant, Served
  <2>4. QED
    BY <1>2, <2>1, <2>2, <2>3, Zenon DEF Labels, Active
<1>3. QED
  BY <1>1, <1>2, Zenon DEF Attended

\* No target of another volume is mounted from a volume's device.
LEMMA NotMountedElsewhere ==
    ASSUME SerialFaults, SerialInv, NEW t \in Targets,
           NEW d \in Devices, conn[d] = VolumeOf[t], mounts[t] = <<>>
    PROVE  ~MountedSomewhere(d)
<1>1. ASSUME NEW u \in Targets, NEW i \in DOMAIN mounts[u], mounts[u][i] = d
      PROVE  FALSE
  <2>1. mounts[u] # <<>> /\ mounts[u] # <<NineP>>
    BY <1>1, SentinelsAssumption
  <2>2. PICK e \in Devices : mounts[u] = <<e>> /\ conn[e] = VolumeOf[u]
    BY <2>1, MountsOwned, Zenon DEF Served, Linked
  <2>3. e = d
    BY <1>1, <2>2
  <2>4. QED
    BY <2>1, <2>2, <2>3, Zenon DEF SerialFaults
<1>2. QED
  BY <1>1, Zenon DEF MountedSomewhere

\* Steps that leave the kernel alone.
LEMMA KernelAlone ==
    ASSUME SerialInv, NEW t \in Targets, UNCHANGED kernel
    PROVE  KernelOK(t)
  BY Zenon DEF SerialInv, KernelOK, kernel

\* umount of the only mount of a target.
LEMMA UnmountOne ==
    ASSUME SerialInv, NEW t \in Targets, NEW s, mounts[t] = <<s>>, Unmount(t)
    PROVE  KernelOK(t) /\ mounts'[t] = <<>> /\ conn' = conn /\ dirs' = dirs
<1>1. SubSeq(mounts[t], 1, Len(mounts[t]) - 1) = <<>>
  OBVIOUS
<1>2. mounts' = [mounts EXCEPT ![t] = <<>>] /\ dirs' = dirs
  BY <1>1, Zenon DEF Unmount
<1>3. conn' = conn
  BY Zenon DEF Unmount, Released, SerialInv, TypeOK, NbdTypeOK
<1>4. QED
  BY <1>2, <1>3, Zenon DEF SerialInv, TypeOK, NbdTypeOK, KernelOK

\* mount on a target without a mount.
LEMMA MountOne ==
    ASSUME SerialInv, NEW t \in Targets, NEW s, mounts[t] = <<>>, Mount(t, s)
    PROVE  KernelOK(t) /\ mounts'[t] = <<s>> /\ conn' = conn
<1>1. mounts' = [mounts EXCEPT ![t] = <<s>>]
  BY DEF Mount
<1>2. QED
  BY <1>1, Zenon DEF Mount, SerialInv, TypeOK, NbdTypeOK, KernelOK

\* nbd-client -d on the device of the target's own volume.
LEMMA DisconnectOwn ==
    ASSUME SerialFaults, SerialInv, NEW t \in Targets,
           NEW d \in Devices, conn[d] = VolumeOf[t], mounts[t] = <<>>,
           Disconnect(d)
    PROVE  /\ KernelOK(t) /\ mounts' = mounts
           /\ conn' = [conn EXCEPT ![d] = None]
<1>1. conn' = [conn EXCEPT ![d] = None] /\ mounts' = mounts /\ dirs' = dirs
  BY NotMountedElsewhere, Zenon DEF Disconnect
<1>2. QED
  BY <1>1, SentinelsAssumption, Zenon
  DEF SerialInv, TypeOK, NbdTypeOK, KernelOK

-----------------------------------------------------------------------------
(* The state files.                                                        *)

\* Steps that leave the state files alone.
LEMMA FilesAlone ==
    ASSUME SerialInv, NEW t \in Targets, UNCHANGED nbdFiles
    PROVE  FilesOK(t)
  BY Zenon DEF SerialInv, FilesOK, RecordsReserved, nbdFiles

\* Removing a volume's files, given the device that its state file names.
LEMMA ClearOwn ==
    ASSUME SerialFaults, SerialInv, NEW t \in Targets,
           NEW d, d = None \/ (d \in Devices /\ Recorded(t, d)),
           clearVolumeNBDState(VolumeOf[t], d)
    PROVE  FilesOK(t) /\ NoRecord(t)'
<1> DEFINE v == VolumeOf[t]
<1>1. v \in Volumes /\ None \notin Devices
  BY VolumeOfAssumption, SentinelsAssumption, Zenon
<1>2. volState' = [volState EXCEPT ![v] = None]
      /\ volState \in [Volumes -> Devices \cup {None, Empty}]
  BY Zenon
  DEF clearVolumeNBDState, RemoveVolumeFile, SerialInv, TypeOK, NbdTypeOK
<1>3. \A u \in Targets \ {t} : volState'[VolumeOf[u]] = volState[VolumeOf[u]]
  BY <1>1, <1>2, VolumeOfAssumption, Zenon DEF SerialFaults
<1>4. RecordsReserved'
  <2> SUFFICES ASSUME {"write_reservation", "expiry"} \cap Faults = {},
                      NEW w \in Volumes, NEW e \in Devices, volState'[w] = e
               PROVE  reservation'[e] = w /\ ~expired'[e]
    BY Zenon DEF RecordsReserved
  <2>1. w # v /\ volState[w] = e
    BY <1>1, <1>2, Zenon
  <2>2. reservation[e] = w /\ ~expired[e]
    BY <2>1, Zenon DEF SerialInv, RecordsReserved
  <2>3. e # d
    BY <1>1, <2>1, <2>2 DEF SerialInv, RecordsReserved, Recorded
  <2>4. QED
    BY <2>2, <2>3, Zenon DEF clearVolumeNBDState, RemoveReservation
<1>5. QED
  BY <1>1, <1>2, <1>3, <1>4, Zenon DEF FilesOK, NoRecord

\* A device that is reserved is in no other volume's state file.
LEMMA FreeIsUnrecorded ==
    ASSUME SerialInv, {"write_reservation", "expiry"} \cap Faults = {},
           NEW d \in Devices, NEW unreadable, Reservable(d, unreadable),
           NEW w \in Volumes
    PROVE  volState[w] # d
<1>1. None \notin Devices /\ None \notin Volumes /\ Empty \notin Volumes
  BY SentinelsAssumption, Zenon
<1>2. QED
  BY <1>1 DEF SerialInv, RecordsReserved, Reservable, ReservationFree

\* Reserving a device for a volume that has none.
LEMMA ReserveOwn ==
    ASSUME SerialFaults, SerialInv, NEW t \in Targets, NoRecord(t),
           NEW d \in Devices, NEW unreadable,
           reserveNBDDevice(VolumeOf[t], d, unreadable)
    PROVE  /\ FilesOK(t) /\ Recorded(t, d)'
           /\ volState' = [volState EXCEPT ![VolumeOf[t]] = d]
           /\ FirstReservable(d, unreadable)
<1> DEFINE v == VolumeOf[t]
<1>1. v \in Volumes /\ None \notin Devices
  BY VolumeOfAssumption, SentinelsAssumption, Zenon
<1>2. volState \in [Volumes -> Devices \cup {None, Empty}]
      /\ reservation \in [Devices -> Volumes \cup {None, Empty}]
      /\ expired \in [Devices -> BOOLEAN]
  BY Zenon DEF SerialInv, TypeOK, NbdTypeOK
<1>3. TakeReservation(v, d, unreadable)
  BY <1>1, <1>2, Zenon
  DEF reserveNBDDevice, ReuseReservation, readVolumeNBDState, NoRecord
<1>4. /\ volState' = [volState EXCEPT ![v] = d]
      /\ FirstReservable(d, unreadable) /\ Reservable(d, unreadable)
  BY <1>3, Zenon DEF TakeReservation, FirstReservable
<1>5. \A u \in Targets \ {t} : volState'[VolumeOf[u]] = volState[VolumeOf[u]]
  BY <1>1, <1>2, <1>4, VolumeOfAssumption, Zenon DEF SerialFaults
<1>6. RecordsReserved'
  <2> SUFFICES ASSUME {"write_reservation", "expiry"} \cap Faults = {},
                      NEW w \in Volumes, NEW e \in Devices, volState'[w] = e
               PROVE  reservation'[e] = w /\ ~expired'[e]
    BY Zenon DEF RecordsReserved
  <2>1. /\ reservation' = [reservation EXCEPT ![d] = v]
        /\ expired' = [expired EXCEPT ![d] = FALSE]
    BY <1>3, Zenon DEF TakeReservation, CreateReservation, Fails
  <2>2. CASE w = v
    BY <1>1, <1>2, <1>4, <2>1, <2>2, Zenon
  <2>3. CASE w # v
    <3>1. volState[w] = e
      BY <1>2, <1>4, <2>3, Zenon
    <3>2. reservation[e] = w /\ ~expired[e] /\ e # d
      BY <3>1, <1>4, FreeIsUnrecorded, Zenon DEF SerialInv, RecordsReserved
    <3>3. QED
      BY <1>2, <2>1, <3>2, Zenon
  <2>4. QED
    BY <2>2, <2>3, Zenon
<1>7. QED
  BY <1>1, <1>2, <1>4, <1>5, <1>6, Zenon DEF FilesOK, Recorded

\* Failing to.
LEMMA ReserveNone ==
    ASSUME SerialFaults, SerialInv, NEW t \in Targets, NoRecord(t),
           NEW unreadable, ReserveFails(VolumeOf[t], unreadable)
    PROVE  FilesOK(t) /\ NoRecord(t)'
<1> DEFINE v == VolumeOf[t]
<1>1. CASE UNCHANGED nbdFiles
  BY <1>1, FilesAlone, Zenon DEF NoRecord, nbdFiles
<1>2. ASSUME NEW d \in Devices, NEW content \in {volState[v], Empty},
             FirstReservable(d, unreadable), RemoveReservation(d),
             volState' = [volState EXCEPT ![v] = content]
      PROVE  FilesOK(t) /\ NoRecord(t)'
  <2>1. /\ v \in Volumes /\ Empty \notin Devices
        /\ volState \in [Volumes -> Devices \cup {None, Empty}]
    BY VolumeOfAssumption, SentinelsAssumption, Zenon
    DEF SerialInv, TypeOK, NbdTypeOK
  <2>2. volState'[v] \notin Devices
    BY <1>2, <2>1, Zenon DEF NoRecord
  <2>3. \A u \in Targets \ {t} : volState'[VolumeOf[u]] = volState[VolumeOf[u]]
    BY <1>2, <2>1, VolumeOfAssumption, Zenon DEF SerialFaults
  <2>4. RecordsReserved'
    <3> SUFFICES ASSUME {"write_reservation", "expiry"} \cap Faults = {},
                        NEW w \in Volumes, NEW e \in Devices, volState'[w] = e
                 PROVE  reservation'[e] = w /\ ~expired'[e]
      BY Zenon DEF RecordsReserved
    <3>1. volState[w] = e
      BY <1>2, <2>1, <2>2, Zenon
    <3>2. reservation[e] = w /\ ~expired[e] /\ e # d
      BY <1>2, <3>1, FreeIsUnrecorded, Zenon
      DEF SerialInv, RecordsReserved, FirstReservable
    <3>3. QED
      BY <1>2, <3>2, Zenon DEF RemoveReservation
  <2>5. QED
    BY <2>2, <2>3, <2>4, Zenon DEF FilesOK, NoRecord
<1>3. QED
  BY <1>1, <1>2, Zenon DEF ReserveFails

-----------------------------------------------------------------------------
(* The pods.                                                               *)

\* A handler removes at most the pod of its own volume.
LEMMA RemoveOwnPod ==
    ASSUME SerialFaults, SerialInv, NEW h \in Handlers,
           NEW t \in Targets, Volume(h) = VolumeOf[t], RemovePod(h)
    PROVE  PodsOK(t)
<1>1. pod \in [Volumes -> {"none", "starting", "serving"}]
  BY Zenon DEF SerialInv, TypeOK
<1>2. \A w \in Volumes \ {VolumeOf[t]} : pod'[w] = pod[w]
  BY <1>1, Zenon DEF RemovePod
<1>3. QED
  BY <1>2, VolumeOfAssumption, Zenon
  DEF RemovePod, PodsOK, SerialInv, SerialFaults

-----------------------------------------------------------------------------
(* The handlers' steps.                                                    *)

\* What is known of a handler at work, ...
Situation(h, t) ==
    /\ tgt[h] = t /\ Volume(h) = VolumeOf[t] /\ VolumeOf[t] \in Volumes
    /\ dev \in [Handlers -> Devices \cup {None}]
    /\ src \in [Handlers -> Seq(MountSources \cup {HostFs})]
    /\ HandlerOK(h) /\ h \in waiting
    /\ pc[h] # "check" => kub[t] # "published"

\* ... what follows if its step leaves a component alone, ...
Frames(t) ==
    /\ UNCHANGED kernel => KernelOK(t)
    /\ UNCHANGED nbdFiles => FilesOK(t)
    /\ UNCHANGED zerofs => PodsOK(t)
    /\ UNCHANGED kernel /\ UNCHANGED nbdFiles =>
          (Vacant(t) => Vacant(t)') /\ (Served(t) => Served(t)')

\* ... and what remains to be shown of the step.
Moves(h, t) ==
    /\ \A l \in Labels :
          /\ Continue(h, l) /\ l # "idle"
          /\ \A k \in Handlers \ {h} : dev'[k] = dev[k] /\ src'[k] = src[k]
          => /\ ControlOK(h, t) /\ pc'[h] = l /\ tgt'[h] = t
             /\ kub'[t] = kub[t]
    /\ \A status \in {"none", "uncertain", "published"} :
          Return(h, status) =>
             ControlOK(h, t) /\ pc'[h] = "idle" /\ kub'[t] = status
    /\ /\ KernelOK(t) /\ FilesOK(t) /\ PodsOK(t) /\ ControlOK(h, t)
       /\ pc'[h] = "idle" => TargetOK(t)'
       /\ pc'[h] # "idle" => HandlerOK(h)'
       => SerialInv'

\* Handler h goes on, ...
LEMMA ContinueControl ==
    ASSUME TypeOK, waiting = {k \in Handlers : Active(k)},
           NEW h \in Handlers, NEW t \in Targets, tgt[h] = t, Active(h),
           NEW l \in Labels, Continue(h, l), l # "idle",
           \A k \in Handlers \ {h} : dev'[k] = dev[k] /\ src'[k] = src[k]
    PROVE  /\ ControlOK(h, t) /\ pc'[h] = l /\ tgt'[h] = t
           /\ kub'[t] = kub[t]
  BY DEF TypeOK, Active, ControlOK, Continue, Goto, caller, reconciler

\* ... or returns.
LEMMA ReturnControl ==
    ASSUME TypeOK, waiting = {k \in Handlers : Active(k)},
           NEW h \in Handlers, NEW t \in Targets, tgt[h] = t, Active(h),
           NEW status, Return(h, status)
    PROVE  ControlOK(h, t) /\ pc'[h] = "idle" /\ kub'[t] = status
<1>1. waiting' = {k \in Handlers : pc'[k] # "idle"}
  BY Zenon DEF TypeOK, Active, Return, Goto
<1>2. kub' = [kub EXCEPT ![t] = status]
  BY Zenon DEF Return
<1>3. QED
  BY <1>1, <1>2 DEF TypeOK, ControlOK, Return, Goto, reconciler

\* A handler at work has that context.
LEMMA StepFacts ==
    ASSUME SerialFaults, SerialInv, TypeOK',
           NEW h \in Handlers, Active(h)
    PROVE  \E t \in Targets : Situation(h, t) /\ Frames(t) /\ Moves(h, t)
<1>0. PICK t \in Targets : tgt[h] = t
  BY Zenon DEF SerialInv, TypeOK, Active
<1>1. Volume(h) = VolumeOf[t] /\ VolumeOf[t] \in Volumes
  BY <1>0, VolumeOfAssumption, Zenon DEF Volume
<1>2. HandlerOK(h) /\ h \in waiting /\ (pc[h] # "check" => kub[t] # "published")
  BY <1>0, Zenon DEF SerialInv, HandlerOK
<1>3. /\ UNCHANGED kernel => KernelOK(t)
      /\ UNCHANGED nbdFiles => FilesOK(t)
      /\ UNCHANGED zerofs => PodsOK(t)
  BY KernelAlone, FilesAlone, Zenon DEF SerialInv, PodsOK, zerofs
<1>4. UNCHANGED kernel /\ UNCHANGED nbdFiles =>
         (Vacant(t) => Vacant(t)') /\ (Served(t) => Served(t)')
  BY Zenon DEF Vacant, Served, NoRecord, Linked, Recorded, kernel, nbdFiles
<1>5. ASSUME NEW l \in Labels, Continue(h, l), l # "idle",
             \A k \in Handlers \ {h} : dev'[k] = dev[k] /\ src'[k] = src[k]
      PROVE  /\ ControlOK(h, t) /\ pc'[h] = l /\ tgt'[h] = t
             /\ kub'[t] = kub[t]
  BY <1>0, <1>5, ContinueControl, Zenon DEF SerialInv
<1>6. ASSUME NEW status, Return(h, status)
      PROVE  ControlOK(h, t) /\ pc'[h] = "idle" /\ kub'[t] = status
  BY <1>0, <1>6, ReturnControl, Zenon DEF SerialInv
<1>7. \A k \in Handlers \ {h} : Active(k) => tgt[k] # t
  BY <1>0, Zenon DEF SerialInv
<1>8. /\ dev \in [Handlers -> Devices \cup {None}]
      /\ src \in [Handlers -> Seq(MountSources \cup {HostFs})]
  BY Zenon DEF SerialInv, TypeOK
<1>9. /\ KernelOK(t) /\ FilesOK(t) /\ PodsOK(t) /\ ControlOK(h, t)
      /\ pc'[h] = "idle" => TargetOK(t)'
      /\ pc'[h] # "idle" => HandlerOK(h)'
      => SerialInv'
  BY <1>0, <1>7, Assemble, Zenon
<1>10. Situation(h, t) /\ Frames(t)
  BY <1>0, <1>1, <1>2, <1>3, <1>4, <1>8, Zenon DEF Situation, Frames
<1>11. Moves(h, t)
  BY <1>5, <1>6, <1>9, Zenon DEF Moves
<1>12. QED
  BY <1>10, <1>11, Zenon

\* Arriving at a label where the target is vacant.
LEMMA ArriveVacant ==
    ASSUME NEW h \in Handlers, NEW t \in Targets, tgt'[h] = t,
           kub'[t] # "published", Vacant(t)',
           pc'[h] \in {"unmount_lingering", "lock_stale", "create_pod",
                       "await_pod", "wait_socket", "mount_9p", "create_disk",
                       "cleanup_unmount", "cleanup_read", "cleanup_pod"}
    PROVE  HandlerOK(h)'
  BY Zenon DEF HandlerOK, PublishOK, UnpublishOK, UnreachedLabels, Vacant

\* Arriving at a label where ZeroFS' export may be mounted on the target.
LEMMA ArriveMounted ==
    ASSUME NEW h \in Handlers, NEW t \in Targets, tgt'[h] = t,
           kub'[t] # "published",
           mounts'[t] \in {<<>>, <<NineP>>}, NoRecord(t)',
           pc'[h] \in {"create_disk", "cleanup_unmount"}
    PROVE  HandlerOK(h)'
  BY Zenon DEF HandlerOK, PublishOK, UnpublishOK, UnreachedLabels

\* The state file of a volume without a device is not there or empty.
LEMMA NothingRecorded ==
    ASSUME SerialInv, NEW t \in Targets, NoRecord(t)
    PROVE  readVolumeNBDState(VolumeOf[t]) = None
<1>1. volState[VolumeOf[t]] \in {None, Empty}
  BY VolumeOfAssumption, Zenon DEF SerialInv, TypeOK, NbdTypeOK, NoRecord
<1>2. QED
  BY <1>1, Zenon DEF readVolumeNBDState

\* The steps of NodePublishVolume up to the mount of ZeroFS' export.
LEMMA FirstSteps ==
    ASSUME SerialFaults, SerialInv, TypeOK', NEW h \in Handlers,
           \/ Check(h) \/ UnmountLingering(h) \/ LockStale(h) \/ DetachStale(h)
           \/ ClearStale(h) \/ CreatePod(h) \/ AwaitPod(h) \/ WaitSocket(h)
           \/ Mount9P(h)
    PROVE  SerialInv'
<1> USE DEF At, Advance, Labels, PublishLabels
<1>1. Active(h) /\ pc[h] \notin UnreachedLabels
  <2>1. Active(h)
    BY Zenon DEF Active, Check, UnmountLingering, LockStale, DetachStale,
       ClearStale, CreatePod, AwaitPod, WaitSocket, Mount9P
  <2>2. QED
    BY <2>1, Zenon DEF SerialInv, HandlerOK
<1>2. PICK t \in Targets : Situation(h, t) /\ Frames(t) /\ Moves(h, t)
  BY <1>1, StepFacts, Zenon
<1> DEFINE v == VolumeOf[t]
<1> USE DEF Situation, Frames, Moves
<1>3. Situation(h, t)
  BY <1>2, Zenon
<1>4. Frames(t)
  BY <1>2, Zenon
<1>5. Moves(h, t)
  BY <1>2, Zenon
<1>6. FoundSources(t) = {findMountSource(t)}
  BY Zenon DEF SerialFaults, FoundSources, Fails
<1>7. CASE Check(h)
  <2>1. UNCHANGED <<nbdFiles, kernel, zerofs>> /\ pc[h] = "check"
    BY <1>7, Zenon DEF Check
  <2>2. TargetOK(t)
    BY <1>3, <1>4, <2>1, Zenon DEF HandlerOK, PublishOK
  <2>3. CASE kub[t] = "published"
    <3>1. PICK d \in Devices : mounts[t] = <<d>>
      BY <2>2, <2>3, Zenon DEF TargetOK, Served
    <3>2. findMountSource(t) = <<d>>
      BY <3>1 DEF findMountSource, SerialInv
    <3>3. Return(h, "published")
      <4>1. FoundSources(tgt[h]) = {<<d>>}
        BY <1>3, <1>6, <3>2, Zenon
      <4>2. <<d>> # <<>> /\ <<d>>[1] \in Devices
        BY Zenon
      <4>3. QED
        BY <1>7, <4>1, <4>2, Zenon DEF Check
    <3>4. TargetOK(t)'
      BY <1>3, <1>4, <1>5, <2>1, <2>2, <2>3, <3>3, Zenon DEF TargetOK
    <3>5. QED
      BY <1>3, <1>4, <1>5, <2>1, <3>3, <3>4, Zenon
  <2>4. CASE kub[t] # "published"
    <3>1. Vacant(t)
      BY <2>2, <2>4, Zenon DEF TargetOK
    <3>2. findMountSource(t) \in {<<>>, <<HostFs>>}
      BY <3>1, Zenon DEF findMountSource, Vacant
    <3>3. PICK l \in {"unmount_lingering", "lock_stale"} :
            Continue(h, l) /\ UNCHANGED <<dev, src>>
      BY <1>3, <1>6, <1>7, <3>2, SentinelsAssumption DEF Check
    <3>4. HandlerOK(h)'
      BY <1>3, <1>4, <1>5, <2>1, <2>4, <3>1, <3>3, ArriveVacant, Zenon
    <3>5. QED
      BY <1>3, <1>4, <1>5, <2>1, <3>3, <3>4, Zenon
  <2>5. QED
    BY <2>3, <2>4, Zenon
<1>8. CASE UnmountLingering(h)
  <2>1. Vacant(t)
    BY <1>3, <1>4, <1>8, Zenon DEF UnmountLingering, HandlerOK, PublishOK
  <2>2. UNCHANGED kernel
    BY <1>3, <1>8, <2>1, Zenon
    DEF UnmountLingering, unmountBestEffort, Unmount, UnmountFails, Vacant
  <2>3. HandlerOK(h)'
    BY <1>3, <1>4, <1>5, <1>8, <2>1, <2>2, ArriveVacant, Zenon
    DEF UnmountLingering
  <2>4. QED
    BY <1>3, <1>4, <1>5, <1>8, <2>2, <2>3 DEF UnmountLingering
<1>9. CASE LockStale(h)
  <2>1. Vacant(t)
    BY <1>3, <1>4, <1>9, Zenon DEF LockStale, HandlerOK, PublishOK
  <2>2. readVolumeNBDState(v) = None
    BY <2>1, NothingRecorded, Zenon DEF Vacant
  <2>3. Continue(h, "create_pod")
        /\ UNCHANGED <<dev, src, nbdFiles, kernel, zerofs>>
    BY <1>3, <1>4, <1>9, <2>2, Zenon DEF LockStale
  <2>4. HandlerOK(h)'
    BY <1>3, <1>4, <1>5, <1>9, <2>1, <2>3, ArriveVacant, Zenon DEF LockStale
  <2>5. QED
    BY <1>3, <1>4, <1>5, <2>3, <2>4, SMTT(30)
<1>10. CASE DetachStale(h) \/ ClearStale(h)
  BY <1>1, <1>10, Zenon DEF DetachStale, ClearStale, UnreachedLabels
<1>11. CASE CreatePod(h)
  <2>1. Vacant(t)
    BY <1>3, <1>4, <1>11, Zenon DEF CreatePod, HandlerOK, PublishOK
  <2>2. UNCHANGED <<nbdFiles, conn, mounts, dev, src, disk, wiped>>
        /\ dirs \subseteq dirs'
    BY <1>11, Zenon DEF CreatePod
  <2>3. PICK l \in {"await_pod", "cleanup_unmount"} : Continue(h, l)
    BY <1>11, Zenon DEF CreatePod
  <2>4. KernelOK(t)
    BY <2>2, Zenon DEF KernelOK, SerialInv
  <2>5. PodsOK(t)
    <3>1. pod \in [Volumes -> {"none", "starting", "serving"}]
      BY Zenon DEF SerialInv, TypeOK
    <3>2. \A w \in Volumes \ {v} : pod'[w] = pod[w]
      BY <1>3, <1>4, <1>11, <3>1, Zenon DEF CreatePod
    <3>3. QED
      BY <2>2, <3>2, VolumeOfAssumption, Zenon
      DEF PodsOK, SerialInv, SerialFaults
  <2>6. Vacant(t)'
    BY <2>1, <2>2, Zenon DEF Vacant, NoRecord, nbdFiles
  <2>7. HandlerOK(h)'
    BY <1>3, <1>4, <1>5, <1>11, <2>2, <2>3, <2>6, ArriveVacant, Zenon
    DEF CreatePod
  <2>8. QED
    BY <1>3, <1>4, <1>5, <2>2, <2>3, <2>4, <2>5, <2>7, Zenon
<1>12. CASE AwaitPod(h) \/ WaitSocket(h)
  <2>1. Vacant(t) /\ pc[h] # "check"
    BY <1>3, <1>4, <1>12, Zenon DEF AwaitPod, WaitSocket, HandlerOK, PublishOK
  <2>2. PICK l \in {"wait_socket", "mount_9p", "cleanup_unmount"} :
          Advance(h, l)
    BY <1>12, Zenon DEF AwaitPod, WaitSocket
  <2>3. HandlerOK(h)'
    BY <1>3, <1>4, <1>5, <2>1, <2>2, ArriveVacant, Zenon
  <2>4. QED
    BY <1>3, <1>4, <1>5, <2>2, <2>3, Zenon
<1>13. CASE Mount9P(h)
  <2>1. Vacant(t) /\ pc[h] # "check"
    BY <1>3, <1>4, <1>13, Zenon DEF Mount9P, HandlerOK, PublishOK
  <2>2. UNCHANGED <<nbdFiles, dev, src, zerofs>>
    BY <1>13, Zenon DEF Mount9P
  <2>3. CASE Mount(t, NineP) /\ Continue(h, "create_disk")
    <3>1. KernelOK(t) /\ mounts'[t] = <<NineP>>
      BY <2>1, <2>3, MountOne, Zenon DEF Vacant
    <3>2. NoRecord(t)'
      BY <2>1, <2>2, Zenon DEF Vacant, NoRecord, nbdFiles
    <3>3. /\ ControlOK(h, t) /\ pc'[h] = "create_disk" /\ tgt'[h] = t
          /\ kub'[t] = kub[t]
      BY <1>3, <1>5, <2>2, <2>3, Zenon
    <3>4. HandlerOK(h)'
      BY <1>3, <2>1, <3>1, <3>2, <3>3, ArriveMounted, Zenon
    <3>5. QED
      BY <1>4, <1>5, <2>2, <3>1, <3>3, <3>4, Zenon
  <2>4. ASSUME UNCHANGED kernel,
               NEW l \in {"create_disk", "cleanup_unmount"}, Continue(h, l)
        PROVE  SerialInv'
    <3>1. HandlerOK(h)'
      BY <1>3, <1>4, <1>5, <2>1, <2>2, <2>4, ArriveVacant, Zenon
    <3>2. QED
      BY <1>3, <1>4, <1>5, <2>2, <2>4, <3>1, Zenon
  <2>5. QED
    BY <1>3, <1>13, <2>3, <2>4, Zenon DEF Mount9P
<1>14. QED
  BY <1>7, <1>8, <1>9, <1>10, <1>11, <1>12, <1>13, Zenon

\* The steps of NodePublishVolume from the creation of the disk image on.
LEMMA LaterSteps ==
    ASSUME SerialFaults, SerialInv, TypeOK', NEW h \in Handlers,
           \/ CreateDisk(h) \/ Umount9P(h) \/ Reserve(h) \/ Connect(h)
           \/ ClearUnconnected(h) \/ Blkid(h) \/ Mkfs(h) \/ MountFs(h)
           \/ DisconnectFailed(h)
    PROVE  SerialInv'
<1> USE DEF At, Advance, Labels, PublishLabels
<1>1. Active(h) /\ pc[h] \notin UnreachedLabels
  <2>1. Active(h)
    BY Zenon
    DEF Active, CreateDisk, Umount9P, Reserve, Connect, ClearUnconnected,
       Blkid, Mkfs, MountFs, DisconnectFailed
  <2>2. QED
    BY <2>1, Zenon DEF SerialInv, HandlerOK
<1>2. PICK t \in Targets : Situation(h, t) /\ Frames(t) /\ Moves(h, t)
  BY <1>1, StepFacts, Zenon
<1> DEFINE v == VolumeOf[t]
<1> USE DEF Situation, Frames, Moves
<1>3. Situation(h, t)
  BY <1>2, Zenon
<1>4. Frames(t)
  BY <1>2, Zenon
<1>5. Moves(h, t)
  BY <1>2, Zenon
<1>6. CASE CreateDisk(h)
  <2>1. /\ mounts[t] \in {<<>>, <<NineP>>} /\ NoRecord(t)
        /\ kub[t] # "published"
    BY <1>3, <1>6, Zenon DEF CreateDisk, HandlerOK, PublishOK
  <2>2. UNCHANGED <<nbdFiles, kernel, dev, src, pod, wiped>>
    BY <1>6, Zenon DEF CreateDisk
  <2>3. PodsOK(t)
    <3>1. disk \in [Volumes -> {"absent", "blank", "formatted"}]
      BY Zenon DEF SerialInv, TypeOK
    <3>2. \A w \in Volumes \ {v} : disk'[w] = disk[w]
      BY <1>3, <1>6, <3>1, Zenon DEF CreateDisk
    <3>3. QED
      BY <2>2, <3>2, VolumeOfAssumption, Zenon
      DEF PodsOK, SerialInv, SerialFaults
  <2>4. mounts'[t] = mounts[t] /\ NoRecord(t)'
    BY <2>1, <2>2, Zenon DEF kernel, nbdFiles, NoRecord
  <2>5. CASE Continue(h, "cleanup_unmount")
    <3>1. /\ ControlOK(h, t) /\ pc'[h] = "cleanup_unmount" /\ tgt'[h] = t
          /\ kub'[t] = kub[t]
      BY <1>5, <2>2, <2>5, Zenon
    <3>2. HandlerOK(h)'
      BY <2>1, <2>4, <3>1, ArriveMounted, Zenon
    <3>3. QED
      BY <1>4, <1>5, <2>2, <2>3, <3>1, <3>2, Zenon
  <2>6. CASE mounts[t] # <<>> /\ pod[v] = "serving" /\ Continue(h, "umount_9p")
    <3>1. /\ ControlOK(h, t) /\ pc'[h] = "umount_9p" /\ tgt'[h] = t
          /\ kub'[t] = kub[t]
      BY <1>5, <2>2, <2>6, Zenon
    <3>2. t \in dirs' /\ pod'[v] = "serving" /\ mounts'[t] = <<NineP>>
      BY <2>1, <2>2, <2>4, <2>6, Zenon DEF SerialInv, kernel
    <3>3. HandlerOK(h)'
      BY <2>1, <2>4, <3>1, <3>2, Zenon
      DEF HandlerOK, PublishOK, UnpublishOK, UnreachedLabels
    <3>4. QED
      BY <1>4, <1>5, <2>2, <2>3, <3>1, <3>3, Zenon
  <2>7. QED
    BY <1>3, <1>6, <2>5, <2>6, Zenon DEF CreateDisk
<1>7. CASE Umount9P(h)
  <2>1. /\ mounts[t] \in {<<>>, <<NineP>>} /\ NoRecord(t)
        /\ t \in dirs /\ pod[v] = "serving" /\ kub[t] # "published"
    BY <1>3, <1>7, Zenon DEF Umount9P, HandlerOK, PublishOK
  <2>2. UNCHANGED <<nbdFiles, dev, src, zerofs>>
    BY <1>7, Zenon DEF Umount9P
  <2>3. NoRecord(t)'
    BY <2>1, <2>2, Zenon DEF NoRecord, nbdFiles
  <2>4. CASE Unmount(t) /\ Continue(h, "reserve")
    <3>1. /\ ControlOK(h, t) /\ pc'[h] = "reserve" /\ tgt'[h] = t
          /\ kub'[t] = kub[t]
      BY <1>5, <2>2, <2>4, Zenon
    <3>2. mounts[t] = <<NineP>>
      BY <2>1, <2>4, Zenon DEF Unmount
    <3>3. KernelOK(t) /\ mounts'[t] = <<>> /\ dirs' = dirs
      BY <2>4, <3>2, UnmountOne, Zenon
    <3>4. HandlerOK(h)'
      BY <2>1, <2>2, <2>3, <3>1, <3>3, Zenon
      DEF HandlerOK, PublishOK, UnpublishOK, UnreachedLabels, Vacant, zerofs
    <3>5. QED
      BY <1>4, <1>5, <2>2, <3>1, <3>3, <3>4, Zenon
  <2>5. CASE UNCHANGED kernel /\ Continue(h, "cleanup_unmount")
    <3>1. /\ ControlOK(h, t) /\ pc'[h] = "cleanup_unmount" /\ tgt'[h] = t
          /\ kub'[t] = kub[t]
      BY <1>5, <2>2, <2>5, Zenon
    <3>2. HandlerOK(h)'
      BY <2>1, <2>3, <2>5, <3>1, ArriveMounted, Zenon DEF kernel
    <3>3. QED
      BY <1>4, <1>5, <2>2, <2>5, <3>1, <3>2, Zenon
  <2>6. QED
    BY <1>3, <1>7, <2>4, <2>5, Zenon DEF Umount9P, UnmountFails
<1>8. CASE Reserve(h)
  <2>1. /\ Vacant(t) /\ NoRecord(t) /\ mounts[t] = <<>> /\ t \in dirs
        /\ pod[v] = "serving" /\ kub[t] # "published"
    BY <1>3, <1>8, Zenon DEF Reserve, HandlerOK, PublishOK, Vacant
  <2>2. UNCHANGED <<kernel, src, zerofs>>
    BY <1>8, Zenon DEF Reserve
  <2>3. ASSUME NEW d \in Devices, NEW unreadable,
               reserveNBDDevice(v, d, unreadable),
               dev' = [dev EXCEPT ![h] = d], Continue(h, "connect")
        PROVE  SerialInv'
    <3>1. /\ ControlOK(h, t) /\ pc'[h] = "connect" /\ tgt'[h] = t
          /\ kub'[t] = kub[t] /\ dev'[h] = d
      BY <1>3, <1>5, <2>2, <2>3, Zenon
    <3>2. FilesOK(t) /\ Recorded(t, d)'
      BY <2>1, <2>3, ReserveOwn, Zenon
    <3>3. HandlerOK(h)'
      BY <2>1, <2>2, <3>1, <3>2, Zenon
      DEF HandlerOK, PublishOK, UnpublishOK, UnreachedLabels, Recorded,
          kernel, zerofs
    <3>4. QED
      BY <1>4, <1>5, <2>2, <3>1, <3>2, <3>3, Zenon
  <2>4. ASSUME NEW unreadable, ReserveFails(v, unreadable), dev' = dev,
               Continue(h, "cleanup_unmount")
        PROVE  SerialInv'
    <3>1. /\ ControlOK(h, t) /\ pc'[h] = "cleanup_unmount" /\ tgt'[h] = t
          /\ kub'[t] = kub[t]
      BY <1>5, <2>2, <2>4, Zenon
    <3>2. FilesOK(t) /\ NoRecord(t)'
      BY <2>1, <2>4, ReserveNone, Zenon
    <3>3. HandlerOK(h)'
      BY <2>1, <2>2, <3>1, <3>2, ArriveMounted, Zenon DEF kernel
    <3>4. QED
      BY <1>4, <1>5, <2>2, <3>1, <3>2, <3>3, Zenon
  <2>5. QED
    BY <1>3, <1>8, <2>3, <2>4, Zenon DEF Reserve
<1>9. CASE Connect(h)
  <2>1. /\ mounts[t] = <<>> /\ Recorded(t, dev[h]) /\ t \in dirs
        /\ pod[v] = "serving" /\ kub[t] # "published" /\ dev[h] \in Devices
    <3>1. dev[h] \in Devices
      BY <1>9, Zenon DEF Connect, SerialInv, TypeOK, DeviceLabels
    <3>2. QED
      BY <1>3, <1>9, <3>1, Zenon DEF Connect, HandlerOK, PublishOK
  <2>2. UNCHANGED <<nbdFiles, mounts, dirs, dev, src, zerofs>>
    BY <1>9, Zenon DEF Connect
  <2>3. PICK d \in Devices : d = dev[h]
    BY <2>1, Zenon
  <2>4. /\ mounts'[t] = <<>> /\ Recorded(t, d)' /\ t \in dirs'
        /\ pod'[v] = "serving" /\ dev'[h] = d
    BY <2>1, <2>2, <2>3, Zenon DEF Recorded, nbdFiles, zerofs
  <2>5. CASE /\ conn[d] = None /\ conn' = [conn EXCEPT ![d] = v]
             /\ Continue(h, "blkid")
    <3>1. /\ ControlOK(h, t) /\ pc'[h] = "blkid" /\ tgt'[h] = t
          /\ kub'[t] = kub[t]
      BY <1>5, <2>2, <2>5, Zenon
    <3>2. KernelOK(t) /\ conn'[d] = v
      <4>1. /\ conn \in [Devices -> Volumes \cup {None, Dead}]
            /\ v \in Volumes /\ Dead \notin Volumes
        BY <1>3, SentinelsAssumption, Zenon DEF SerialInv, TypeOK, NbdTypeOK
      <4>2. conn'[d] = v /\ \A e \in Devices \ {d} : conn'[e] = conn[e]
        BY <2>5, <4>1, Zenon
      <4>3. QED
        BY <2>2, <2>5, <4>1, <4>2, Zenon DEF SerialInv, KernelOK
    <3>3. HandlerOK(h)'
      BY <2>1, <2>4, <3>1, <3>2, Zenon
      DEF HandlerOK, PublishOK, UnpublishOK, UnreachedLabels, Recorded
    <3>4. QED
      BY <1>4, <1>5, <2>2, <3>1, <3>2, <3>3, Zenon
  <2>6. CASE conn' = conn /\ Continue(h, "clear_unconnected")
    <3>1. /\ ControlOK(h, t) /\ pc'[h] = "clear_unconnected" /\ tgt'[h] = t
          /\ kub'[t] = kub[t]
      BY <1>5, <2>2, <2>6, Zenon
    <3>2. HandlerOK(h)'
      BY <2>1, <2>4, <3>1, Zenon
      DEF HandlerOK, PublishOK, UnpublishOK, UnreachedLabels, Recorded
    <3>3. QED
      BY <1>4, <1>5, <2>2, <2>6, <3>1, <3>2, Zenon DEF kernel
  <2>7. QED
    BY <1>3, <1>9, <2>3, <2>5, <2>6, Zenon DEF Connect
<1>10. CASE ClearUnconnected(h)
  <2>1. /\ mounts[t] = <<>> /\ Recorded(t, dev[h]) /\ kub[t] # "published"
        /\ dev[h] \in Devices
    <3>1. dev[h] \in Devices
      BY <1>10, Zenon DEF ClearUnconnected, SerialInv, TypeOK, DeviceLabels
    <3>2. QED
      BY <1>3, <1>10, <3>1, Zenon DEF ClearUnconnected, HandlerOK, PublishOK
  <2>2. UNCHANGED <<kernel, dev, src, zerofs>>
    BY <1>10, Zenon DEF ClearUnconnected
  <2>3. PICK d \in Devices : d = dev[h]
    BY <2>1, Zenon
  <2>4. FilesOK(t) /\ NoRecord(t)'
    BY <1>3, <1>10, <2>1, <2>3, ClearOwn, Zenon DEF ClearUnconnected
  <2>5. /\ ControlOK(h, t) /\ pc'[h] = "cleanup_unmount" /\ tgt'[h] = t
        /\ kub'[t] = kub[t]
    BY <1>5, <1>10, <2>2, Zenon DEF ClearUnconnected
  <2>6. HandlerOK(h)'
    BY <2>1, <2>2, <2>4, <2>5, ArriveMounted, Zenon DEF kernel
  <2>7. QED
    BY <1>4, <1>5, <2>2, <2>4, <2>5, <2>6, Zenon
<1>11. CASE Blkid(h) \/ Mkfs(h) \/ MountFs(h)
  <2>1. /\ mounts[t] = <<>> /\ Recorded(t, dev[h]) /\ t \in dirs
        /\ pod[v] = "serving" /\ kub[t] # "published" /\ dev[h] \in Devices
        /\ conn[dev[h]] = v
    <3>1. dev[h] \in Devices
      BY <1>11, Zenon DEF Blkid, Mkfs, MountFs, SerialInv, TypeOK, DeviceLabels
    <3>2. QED
      BY <1>3, <1>11, <3>1, Zenon
      DEF Blkid, Mkfs, MountFs, HandlerOK, PublishOK
  <2>2. PICK d \in Devices : d = dev[h]
    BY <2>1, Zenon
  <2>3. Live(d) /\ conn[d] = v
    BY <1>3, <2>1, <2>2, Zenon DEF Live
  <2>4. ASSUME UNCHANGED <<nbdFiles, kernel, dev, src, pod>>,
               NEW l \in {"mkfs", "mount_fs"}, Continue(h, l),
               l = "mkfs" => Fails("blkid") \/ disk'[v] # "formatted",
               l = "mount_fs" => disk'[v] = "formatted",
               PodsOK(t)
        PROVE  SerialInv'
    <3>1. /\ ControlOK(h, t) /\ pc'[h] = l /\ tgt'[h] = t
          /\ kub'[t] = kub[t] /\ dev'[h] = d
      BY <1>5, <2>2, <2>4, Zenon
    <3>2. /\ mounts'[t] = <<>> /\ Recorded(t, d)' /\ t \in dirs'
          /\ pod'[v] = "serving" /\ conn'[d] = v
      BY <2>1, <2>2, <2>4, Zenon DEF Recorded, nbdFiles, kernel
    <3>3. HandlerOK(h)'
      BY <2>1, <2>4, <3>1, <3>2, Zenon
      DEF HandlerOK, PublishOK, UnpublishOK, UnreachedLabels, Recorded
    <3>4. QED
      BY <1>4, <1>5, <2>4, <3>1, <3>3, Zenon
  <2>5. CASE Blkid(h)
    <3>1. UNCHANGED <<nbdFiles, kernel, dev, src, zerofs>>
      BY <2>5, Zenon DEF Blkid
    <3>2. PICK l \in {"mkfs", "mount_fs"} :
            /\ Continue(h, l)
            /\ l = "mkfs" => Fails("blkid") \/ disk[v] # "formatted"
            /\ l = "mount_fs" => disk[v] = "formatted"
      BY <2>2, <2>3, <2>5, Zenon DEF Blkid
    <3>3. QED
      BY <1>4, <2>4, <3>1, <3>2, Zenon DEF zerofs
  <2>6. CASE Mkfs(h)
    <3>1. /\ UNCHANGED <<nbdFiles, kernel, dev, src, pod>>
          /\ Continue(h, "mount_fs")
          /\ disk' = [disk EXCEPT ![v] = "formatted"]
          /\ wiped' = wiped \cup {w \in {v} : disk[w] = "formatted"}
      BY <2>2, <2>3, <2>6, Zenon DEF Mkfs, SerialFaults, Fails
    <3>2. Fails("blkid") \/ disk[v] # "formatted"
      BY <1>3, <2>6, Zenon DEF Mkfs, HandlerOK, PublishOK
    <3>3. Fails("blkid") \/ wiped' = {}
      BY <3>1, <3>2, Zenon DEF SerialInv
    <3>4. /\ disk'[v] = "formatted"
          /\ \A w \in Volumes \ {v} : disk'[w] = disk[w]
      <4>1. disk \in [Volumes -> {"absent", "blank", "formatted"}]
        BY Zenon DEF SerialInv, TypeOK
      <4>2. v \in Volumes
        BY <1>3, Zenon
      <4>3. QED
        BY <3>1, <4>1, <4>2, Zenon
    <3>5. PodsOK(t)
      BY <3>1, <3>3, <3>4, VolumeOfAssumption, Zenon
      DEF PodsOK, SerialFaults
    <3>6. QED
      BY <2>4, <3>1, <3>4, <3>5, Zenon
  <2>7. CASE MountFs(h)
    <3>1. disk[v] = "formatted"
      BY <1>3, <2>7, Zenon DEF MountFs, HandlerOK, PublishOK
    <3>2. Len(mounts[t]) < MaxMounts
      <4>1. Len(mounts[t]) = 0
        BY <2>1
      <4>2. QED
        BY <4>1, MaxMountsAssumption
    <3>3. /\ Mount(t, d) /\ Return(h, "published")
          /\ UNCHANGED <<nbdFiles, zerofs>>
      BY <1>3, <2>1, <2>2, <2>3, <2>7, <3>1, <3>2, Zenon
      DEF MountFs, SerialFaults, Fails
    <3>4. KernelOK(t) /\ mounts'[t] = <<d>> /\ conn' = conn
      BY <2>1, <3>3, MountOne, Zenon
    <3>5. Served(t)'
      BY <2>1, <2>2, <3>3, <3>4, Zenon DEF Served, Linked, Recorded, nbdFiles
    <3>6. ControlOK(h, t) /\ pc'[h] = "idle" /\ kub'[t] = "published"
      BY <1>5, <3>3, Zenon
    <3>7. QED
      BY <1>4, <1>5, <3>3, <3>4, <3>5, <3>6, Zenon DEF TargetOK
  <2>8. QED
    BY <1>11, <2>5, <2>6, <2>7, Zenon
<1>12. CASE DisconnectFailed(h)
  BY <1>1, <1>12, Zenon DEF DisconnectFailed, UnreachedLabels
<1>13. QED
  BY <1>6, <1>7, <1>8, <1>9, <1>10, <1>11, <1>12, Zenon

\* The deferred cleanup, which in this environment never finds a device.
LEMMA CleanupSteps ==
    ASSUME SerialFaults, SerialInv, TypeOK', NEW h \in Handlers,
           Cleanup(h)
    PROVE  SerialInv'
<1> USE DEF At, Labels, PublishLabels
<1>1. Active(h) /\ pc[h] \notin UnreachedLabels
  <2>1. Active(h)
    BY Zenon DEF Active, Cleanup, CleanupUnmount, CleanupRead, CleanupDetach,
       CleanupState, CleanupReservation, CleanupPod
  <2>2. QED
    BY <2>1, Zenon DEF SerialInv, HandlerOK
<1>2. PICK t \in Targets : Situation(h, t) /\ Frames(t) /\ Moves(h, t)
  BY <1>1, StepFacts, Zenon
<1> DEFINE v == VolumeOf[t]
<1> USE DEF Situation, Frames, Moves
<1>3. Situation(h, t)
  BY <1>2, Zenon
<1>4. Frames(t)
  BY <1>2, Zenon
<1>5. Moves(h, t)
  BY <1>2, Zenon
<1>6. CASE CleanupUnmount(h)
  <2>1. /\ mounts[t] \in {<<>>, <<NineP>>} /\ NoRecord(t)
        /\ kub[t] # "published"
    BY <1>3, <1>6, Zenon DEF CleanupUnmount, HandlerOK, PublishOK
  <2>2. /\ UNCHANGED <<nbdFiles, dev, src, zerofs>>
        /\ Continue(h, "cleanup_read")
    BY <1>6, Zenon DEF CleanupUnmount
  <2>3. Unmount(t) \/ (mounts[t] = <<>> /\ UNCHANGED kernel)
    BY <1>3, <1>6, Zenon
    DEF CleanupUnmount, unmountBestEffort, UnmountFails, SerialFaults,
        Fails
  <2>4. KernelOK(t) /\ mounts'[t] = <<>>
    <3>1. CASE Unmount(t)
      BY <2>1, <3>1, UnmountOne, Zenon DEF Unmount
    <3>2. CASE mounts[t] = <<>> /\ UNCHANGED kernel
      BY <1>4, <3>2, Zenon DEF kernel
    <3>3. QED
      BY <2>3, <3>1, <3>2, Zenon
  <2>5. /\ ControlOK(h, t) /\ pc'[h] = "cleanup_read" /\ tgt'[h] = t
        /\ kub'[t] = kub[t]
    BY <1>5, <2>2, Zenon
  <2>6. Vacant(t)'
    BY <2>1, <2>2, <2>4, Zenon DEF Vacant, NoRecord, nbdFiles
  <2>7. HandlerOK(h)'
    BY <2>1, <2>5, <2>6, ArriveVacant, Zenon
  <2>8. QED
    BY <1>4, <1>5, <2>2, <2>4, <2>5, <2>7, Zenon
<1>7. CASE CleanupRead(h)
  <2>1. Vacant(t) /\ kub[t] # "published"
    BY <1>3, <1>7, Zenon DEF CleanupRead, HandlerOK, PublishOK
  <2>2. readVolumeNBDState(v) = None
    BY <2>1, NothingRecorded, Zenon DEF Vacant
  <2>3. /\ UNCHANGED <<nbdFiles, kernel, src, zerofs>>
        /\ Continue(h, "cleanup_pod") /\ dev' = [dev EXCEPT ![h] = None]
    BY <1>3, <1>7, <2>2, Zenon DEF CleanupRead
  <2>4. /\ ControlOK(h, t) /\ pc'[h] = "cleanup_pod" /\ tgt'[h] = t
        /\ kub'[t] = kub[t]
    BY <1>3, <1>5, <2>3, Zenon
  <2>5. HandlerOK(h)'
    BY <1>4, <2>1, <2>3, <2>4, ArriveVacant, Zenon
  <2>6. QED
    BY <1>4, <1>5, <2>3, <2>4, <2>5, Zenon
<1>8. CASE CleanupDetach(h) \/ CleanupState(h) \/ CleanupReservation(h)
  BY <1>1, <1>8, Zenon
  DEF CleanupDetach, CleanupState, CleanupReservation, UnreachedLabels
<1>9. CASE CleanupPod(h)
  <2>1. Vacant(t)
    BY <1>3, <1>9, Zenon DEF CleanupPod, HandlerOK, PublishOK
  <2>2. /\ UNCHANGED <<nbdFiles, kernel>> /\ Return(h, "uncertain")
        /\ RemovePod(h)
    BY <1>9, Zenon DEF CleanupPod
  <2>3. PodsOK(t)
    BY <1>3, <2>2, RemoveOwnPod, Zenon
  <2>4. ControlOK(h, t) /\ pc'[h] = "idle" /\ kub'[t] = "uncertain"
    BY <1>5, <2>2, Zenon
  <2>5. QED
    BY <1>4, <1>5, <2>1, <2>2, <2>3, <2>4, Zenon DEF TargetOK
<1>10. QED
  BY <1>6, <1>7, <1>8, <1>9, Zenon DEF Cleanup

\* The steps of NodeUnpublishVolume.
LEMMA UnpublishSteps ==
    ASSUME SerialFaults, SerialInv, TypeOK', NEW h \in Handlers,
           Unpublish(h)
    PROVE  SerialInv'
<1> USE DEF At, Labels, UnpublishLabels
<1>1. Active(h)
  BY Zenon DEF Active, Unpublish, FindSource, UmountFs, Recover, Detach,
     RemovePodOf, Clear
<1>2. PICK t \in Targets : Situation(h, t) /\ Frames(t) /\ Moves(h, t)
  BY <1>1, StepFacts, Zenon
<1> DEFINE v == VolumeOf[t]
<1> USE DEF Situation, Frames, Moves
<1>3. Situation(h, t)
  BY <1>2, Zenon
<1>4. Frames(t)
  BY <1>2, Zenon
<1>5. Moves(h, t)
  BY <1>2, Zenon
<1>6. kub[t] # "published"
  BY <1>3, Zenon
  DEF Unpublish, FindSource, UmountFs, Recover, Detach, RemovePodOf,
     Clear
<1>7. CASE FindSource(h)
  <2>1. Served(t) \/ Vacant(t)
    BY <1>3, <1>7, Zenon DEF FindSource, HandlerOK, UnpublishOK
  <2>2. /\ UNCHANGED <<nbdFiles, kernel, dev, zerofs>>
        /\ Continue(h, "umount_fs")
        /\ src' = [src EXCEPT ![h] = findMountSource(t)]
    BY <1>3, <1>7, Zenon
    DEF FindSource, FoundSources, SerialFaults, Fails
  <2>3. /\ ControlOK(h, t) /\ pc'[h] = "umount_fs" /\ tgt'[h] = t
        /\ kub'[t] = kub[t] /\ src'[h] = findMountSource(t)
    BY <1>3, <1>5, <2>2, Zenon
  <2>4. \/ findMountSource(t) \in {<<>>, <<HostFs>>} /\ Vacant(t)'
        \/ \E d \in Devices : /\ findMountSource(t) = <<d>>
                              /\ mounts'[t] = <<d>> /\ Linked(t, d)'
    <3>1. CASE Served(t)
      <4>1. PICK d \in Devices : mounts[t] = <<d>> /\ Linked(t, d)
        BY <3>1, Zenon DEF Served
      <4>2. findMountSource(t) = <<d>>
        BY <4>1 DEF findMountSource, SerialInv
      <4>3. mounts'[t] = <<d>> /\ Linked(t, d)'
        BY <2>2, <4>1, Zenon DEF Linked, Recorded, nbdFiles, kernel
      <4>4. QED
        BY <4>2, <4>3, Zenon
    <3>2. CASE Vacant(t)
      BY <1>4, <2>2, <3>2, Zenon DEF findMountSource, Vacant
    <3>3. QED
      BY <2>1, <3>1, <3>2, Zenon
  <2>5. HandlerOK(h)'
    BY <1>6, <2>3, <2>4, Zenon
    DEF HandlerOK, PublishOK, UnpublishOK, UnreachedLabels
  <2>6. QED
    BY <1>4, <1>5, <2>2, <2>3, <2>5, Zenon
<1>8. CASE UmountFs(h)
  <2>1. /\ UNCHANGED <<nbdFiles, dev, src, zerofs>> /\ Continue(h, "recover")
        /\ Unmount(t) \/ (mounts[t] = <<>> /\ UNCHANGED kernel)
    BY <1>3, <1>8, Zenon DEF UmountFs, UnmountFails, SerialFaults, Fails
  <2>2. /\ ControlOK(h, t) /\ pc'[h] = "recover" /\ tgt'[h] = t
        /\ kub'[t] = kub[t] /\ src'[h] = src[h]
    BY <1>5, <2>1, Zenon
  <2>3. CASE src[h] \in {<<>>, <<HostFs>>} /\ Vacant(t)
    <3>1. UNCHANGED kernel
      BY <2>1, <2>3, Zenon DEF Unmount, Vacant
    <3>2. HandlerOK(h)'
      BY <1>4, <1>6, <2>1, <2>2, <2>3, <3>1, Zenon
      DEF HandlerOK, PublishOK, UnpublishOK, UnreachedLabels
    <3>3. QED
      BY <1>4, <1>5, <2>1, <2>2, <3>1, <3>2, Zenon
  <2>4. ASSUME NEW d \in Devices, src[h] = <<d>>, mounts[t] = <<d>>,
               Linked(t, d)
        PROVE  SerialInv'
    <3>1. KernelOK(t) /\ mounts'[t] = <<>> /\ conn' = conn
      BY <2>1, <2>4, UnmountOne
    <3>2. Linked(t, d)'
      BY <2>1, <2>4, <3>1, Zenon DEF Linked, Recorded, nbdFiles
    <3>3. HandlerOK(h)'
      BY <1>6, <2>2, <2>4, <3>1, <3>2, Zenon
      DEF HandlerOK, PublishOK, UnpublishOK, UnreachedLabels
    <3>4. QED
      BY <1>4, <1>5, <2>1, <2>2, <3>1, <3>3, Zenon
  <2>5. QED
    BY <1>3, <1>8, <2>3, <2>4, Zenon DEF UmountFs, HandlerOK, UnpublishOK
<1>9. CASE Recover(h)
  <2>1. /\ UNCHANGED <<nbdFiles, kernel, dev, zerofs>>
        /\ Continue(h, "detach")
    BY <1>9, Zenon DEF Recover
  <2>2. \/ src[h] \in {<<>>, <<HostFs>>} /\ Vacant(t)
        \/ \E d \in Devices :
              src[h] = <<d>> /\ mounts[t] = <<>> /\ Linked(t, d)
    BY <1>3, <1>9, Zenon DEF Recover, HandlerOK, UnpublishOK
  <2>3. src' = src
    <3>1. src[h] = <<>> => readVolumeNBDState(v) = None
      BY <2>2, NothingRecorded DEF Vacant
    <3>2. src' = [src EXCEPT ![h] = src[h]]
      BY <1>3, <1>9, <3>1, Zenon DEF Recover
    <3>3. QED
      BY <1>3, <3>2, Zenon
  <2>4. /\ ControlOK(h, t) /\ pc'[h] = "detach" /\ tgt'[h] = t
        /\ kub'[t] = kub[t] /\ src'[h] = src[h]
    BY <1>5, <2>1, <2>3, Zenon
  <2>5. \/ src[h] \in {<<>>, <<HostFs>>} /\ Vacant(t)'
        \/ \E d \in Devices :
              src[h] = <<d>> /\ mounts'[t] = <<>> /\ Linked(t, d)'
    BY <1>4, <2>1, <2>2, Zenon DEF Linked, Recorded, nbdFiles, kernel
  <2>6. HandlerOK(h)'
    BY <1>6, <2>4, <2>5, Zenon
    DEF HandlerOK, PublishOK, UnpublishOK, UnreachedLabels
  <2>7. QED
    BY <1>4, <1>5, <2>1, <2>4, <2>6, Zenon
<1>10. CASE Detach(h)
  <2>1. /\ UNCHANGED <<nbdFiles, dev, src, zerofs>>
        /\ Continue(h, "remove_pod")
    BY <1>10, Zenon DEF Detach
  <2>2. /\ ControlOK(h, t) /\ pc'[h] = "remove_pod" /\ tgt'[h] = t
        /\ kub'[t] = kub[t] /\ src'[h] = src[h]
    BY <1>5, <2>1, Zenon
  <2>3. CASE src[h] \in {<<>>, <<HostFs>>} /\ Vacant(t)
    <3>1. DeviceArgument(src[h]) = None
      BY <2>3, SentinelsAssumption DEF DeviceArgument
    <3>2. UNCHANGED kernel
      BY <1>10, <3>1, Zenon DEF Detach
    <3>3. HandlerOK(h)'
      BY <1>4, <1>6, <2>1, <2>2, <2>3, <3>2, Zenon
      DEF HandlerOK, PublishOK, UnpublishOK, UnreachedLabels
    <3>4. QED
      BY <1>4, <1>5, <2>1, <2>2, <3>2, <3>3, Zenon
  <2>4. ASSUME NEW d \in Devices, src[h] = <<d>>, mounts[t] = <<>>,
               Linked(t, d)
        PROVE  SerialInv'
    <3>1. DeviceArgument(src[h]) = d
      BY <2>4 DEF DeviceArgument
    <3>2. Disconnect(d) \/ UNCHANGED kernel
      BY <1>10, <3>1, Zenon DEF Detach
    <3>3. KernelOK(t) /\ mounts' = mounts
      BY <1>4, <2>4, <3>2, DisconnectOwn, Zenon DEF Linked, kernel
    <3>4. Recorded(t, d)'
      BY <2>1, <2>4, Zenon DEF Linked, Recorded, nbdFiles
    <3>5. HandlerOK(h)'
      BY <1>6, <2>2, <2>4, <3>3, <3>4, Zenon
      DEF HandlerOK, PublishOK, UnpublishOK, UnreachedLabels
    <3>6. QED
      BY <1>4, <1>5, <2>1, <2>2, <3>3, <3>5, Zenon
  <2>5. QED
    BY <1>3, <1>10, <2>3, <2>4, Zenon DEF Detach, HandlerOK, UnpublishOK
<1>11. CASE RemovePodOf(h)
  <2>1. /\ UNCHANGED <<nbdFiles, kernel, dev, src>> /\ RemovePod(h)
        /\ Continue(h, "clear")
    BY <1>11, Zenon DEF RemovePodOf
  <2>2. PodsOK(t)
    BY <1>3, <2>1, RemoveOwnPod, Zenon
  <2>3. /\ ControlOK(h, t) /\ pc'[h] = "clear" /\ tgt'[h] = t
        /\ kub'[t] = kub[t] /\ src'[h] = src[h]
    BY <1>5, <2>1, Zenon
  <2>4. \/ src[h] \in {<<>>, <<HostFs>>} /\ Vacant(t)
        \/ \E d \in Devices :
              src[h] = <<d>> /\ mounts[t] = <<>> /\ Recorded(t, d)
    BY <1>3, <1>11, Zenon DEF RemovePodOf, HandlerOK, UnpublishOK
  <2>5. \/ src[h] \in {<<>>, <<HostFs>>} /\ Vacant(t)'
        \/ \E d \in Devices :
              src[h] = <<d>> /\ mounts'[t] = <<>> /\ Recorded(t, d)'
    BY <1>4, <2>1, <2>4, Zenon DEF Recorded, nbdFiles, kernel
  <2>6. HandlerOK(h)'
    BY <1>6, <2>3, <2>5, Zenon
    DEF HandlerOK, PublishOK, UnpublishOK, UnreachedLabels
  <2>7. QED
    BY <1>4, <1>5, <2>1, <2>2, <2>3, <2>6, Zenon
<1>12. CASE Clear(h)
  <2>1. /\ UNCHANGED <<conn, mounts, zerofs>> /\ Return(h, "none")
        /\ clearVolumeNBDState(v, ReservationArgument(src[h]))
        /\ dirs' = IF mounts[t] = <<>> THEN dirs \ {t} ELSE dirs
    BY <1>3, <1>12, Zenon DEF Clear
  <2>2. ControlOK(h, t) /\ pc'[h] = "idle" /\ kub'[t] = "none"
    BY <1>5, <2>1, Zenon
  <2>3. mounts[t] = <<>>
    BY <1>3, <1>12, Zenon DEF Clear, HandlerOK, UnpublishOK, Vacant
  <2>4. KernelOK(t)
    BY <2>1, <2>3, Zenon DEF SerialInv, KernelOK
  <2>5. FilesOK(t) /\ NoRecord(t)'
    <3>1. CASE src[h] \in {<<>>, <<HostFs>>}
      <4>1. ReservationArgument(src[h]) = None
        BY <3>1, SentinelsAssumption DEF ReservationArgument
      <4>2. QED
        BY <2>1, <4>1, ClearOwn, Zenon
    <3>2. ASSUME NEW d \in Devices, src[h] = <<d>>, Recorded(t, d)
          PROVE  FilesOK(t) /\ NoRecord(t)'
      <4>1. ReservationArgument(src[h]) = d
        BY <3>2 DEF ReservationArgument
      <4>2. QED
        BY <2>1, <3>2, <4>1, ClearOwn, Zenon
    <3>3. QED
      BY <1>3, <1>12, <3>1, <3>2, Zenon DEF Clear, HandlerOK, UnpublishOK
  <2>6. TargetOK(t)'
    BY <2>1, <2>2, <2>3, <2>5, Zenon DEF TargetOK, Vacant
  <2>7. QED
    BY <1>4, <1>5, <2>1, <2>2, <2>4, <2>5, <2>6, Zenon
<1>13. QED
  BY <1>7, <1>8, <1>9, <1>10, <1>11, <1>12, Zenon DEF Unpublish

-----------------------------------------------------------------------------
(* The kubelet and the environment.                                        *)

\* The kubelet calls for a target that no handler works on.
LEMMA CallSteps ==
    ASSUME SerialFaults, SerialInv, TypeOK', NEW h \in Handlers,
           NEW t \in Targets,
           NodePublishVolume(h, t) \/ NodeUnpublishVolume(h, t)
    PROVE  SerialInv'
<1>1. PICK op \in {"publish", "unpublish"}, l \in {"check", "find_source"} :
        Admissible(t, op) /\ StartCall(h, t, l)
  BY Zenon DEF NodePublishVolume, NodeUnpublishVolume
<1>2. /\ UNCHANGED <<nbdFiles, kernel, nbdMu, dev, src, reconciler, zerofs>>
      /\ pc[h] = "idle" /\ pc' = [pc EXCEPT ![h] = l]
      /\ tgt' = [tgt EXCEPT ![h] = t] /\ waiting' = waiting \cup {h}
  BY <1>1, Zenon DEF StartCall, At, Goto
<1>3. \A k \in Handlers : Active(k) => tgt[k] # t
  BY <1>1, Zenon DEF Admissible, SerialInv
<1>4. TargetOK(t)
  BY <1>3, Zenon DEF SerialInv, Attended
<1>5. KernelOK(t) /\ FilesOK(t) /\ PodsOK(t)
  BY <1>2, KernelAlone, FilesAlone, Zenon DEF SerialInv, PodsOK, zerofs
<1>6. pc \in [Handlers -> Labels] /\ tgt \in [Handlers -> Targets \cup {None}]
      /\ kub \in [Targets -> {"none", "uncertain", "published"}]
  BY Zenon DEF SerialInv, TypeOK
<1>7. pc'[h] = l /\ tgt'[h] = t
  BY <1>2, <1>6, Zenon
<1>8. /\ kub'[t] = "published" => l = "check" /\ kub[t] = "published"
      /\ l = "check" /\ kub[t] = "published" => kub'[t] = "published"
      /\ \A u \in Targets \ {t} : kub'[u] = kub[u]
  <2>1. CASE NodePublishVolume(h, t)
    <3>1. /\ kub' = [kub EXCEPT ![t] = IF @ = "published" THEN @
                                       ELSE "uncertain"]
          /\ pc'[h] = "check"
      BY <1>6, <2>1, Zenon DEF NodePublishVolume, StartCall, Goto
    <3>2. QED
      BY <1>6, <1>7, <3>1, Zenon
  <2>2. CASE NodeUnpublishVolume(h, t)
    <3>1. kub' = [kub EXCEPT ![t] = "uncertain"] /\ pc'[h] = "find_source"
      BY <1>6, <2>2, Zenon DEF NodeUnpublishVolume, StartCall, Goto
    <3>2. QED
      BY <1>6, <1>7, <3>1, Zenon
  <2>3. QED
    BY <2>1, <2>2, Zenon
<1>9. ControlOK(h, t)
  <2>1. waiting' = {k \in Handlers : pc'[k] # "idle"}
    BY <1>2, <1>6, Zenon DEF SerialInv, Active
  <2>2. QED
    BY <1>2, <1>6, <1>7, <1>8, <2>1, Zenon DEF ControlOK, reconciler
<1>10. HandlerOK(h)'
  <2>1. (Served(t) <=> Served(t)') /\ (Vacant(t) <=> Vacant(t)')
    BY <1>2, Zenon
    DEF Served, Vacant, Linked, Recorded, NoRecord, kernel, nbdFiles
  <2>2. Served(t)' \/ Vacant(t)'
    BY <1>4, <2>1, Zenon DEF TargetOK
  <2>3. l = "check" => TargetOK(t)'
    BY <1>4, <1>8, <2>1, Zenon DEF TargetOK
  <2>4. QED
    BY <1>7, <1>8, <2>2, <2>3, Zenon
    DEF HandlerOK, PublishOK, UnpublishOK, UnreachedLabels
<1>11. QED
  BY <1>2, <1>3, <1>5, <1>7, <1>9, <1>10, Assemble, Zenon DEF Active

\* A step outside the handlers that at most makes a pod serve or a
\* reservation older, and a stuttering step.
LEMMA QuietStep ==
    ASSUME SerialInv, TypeOK', RecordsReserved',
           UNCHANGED <<volState, kernel, pc, locals, reconciler, disk, wiped,
                       caller>>,
           \A w \in Volumes : pod[w] = "serving" => pod'[w] = "serving"
    PROVE  SerialInv'
<1> USE DEF locals, reconciler, caller, kernel
<1>1. ASSUME NEW t \in Targets
      PROVE  /\ Served(t) <=> Served(t)'
             /\ Vacant(t) <=> Vacant(t)'
             /\ TargetOK(t) <=> TargetOK(t)'
             /\ NoRecord(t) <=> NoRecord(t)'
             /\ \A d : Recorded(t, d) <=> Recorded(t, d)'
             /\ \A d : Linked(t, d) <=> Linked(t, d)'
  BY Zenon DEF Served, Vacant, TargetOK, NoRecord, Recorded, Linked
<1>2. ASSUME NEW h \in Handlers, Active(h)
      PROVE  HandlerOK(h)'
  <2>1. PICK t \in Targets : tgt[h] = t /\ tgt'[h] = t
    BY <1>2, Zenon DEF SerialInv, TypeOK, Active
  <2>2. HandlerOK(h)
    BY <1>2, Zenon DEF SerialInv
  <2>3. pod[VolumeOf[t]] = "serving" => pod'[VolumeOf[t]] = "serving"
    BY VolumeOfAssumption, Zenon
  <2>4. PublishOK(h)'
    BY <1>1, <2>1, <2>2, <2>3, Zenon DEF HandlerOK, PublishOK
  <2>5. UnpublishOK(h)'
    BY <1>1, <2>1, <2>2, Zenon DEF HandlerOK, UnpublishOK
  <2>6. QED
    BY <2>2, <2>4, <2>5, Zenon DEF HandlerOK
<1>3. \A h \in Handlers : Active(h)' <=> Active(h)
  BY Zenon DEF Active
<1>4. \A t \in Targets : ~Attended(t)' => TargetOK(t)'
  BY <1>1, <1>3, Zenon DEF Attended, SerialInv
<1>5. QED
  BY <1>2, <1>3, <1>4, Zenon DEF SerialInv

\* Every step but a restart keeps the invariant.
LEMMA NextSerial ==
    ASSUME SerialFaults, SerialInv, [Next]_vars, ~Restart
    PROVE  SerialInv'
<1>1. TypeOK /\ TypeOK'
  BY NextType, Zenon DEF SerialInv
<1>2. ASSUME NEW h \in Handlers, Step(h)
      PROVE  SerialInv'
  BY <1>1, <1>2, FirstSteps, LaterSteps, CleanupSteps, UnpublishSteps, Zenon
  DEF Step, Publish
<1>3. ASSUME NEW h \in Handlers, NEW t \in Targets,
             NodePublishVolume(h, t) \/ NodeUnpublishVolume(h, t)
      PROVE  SerialInv'
  BY <1>1, <1>3, CallSteps, Zenon
<1>4. ASSUME NEW h \in Handlers, Timeout(h)
      PROVE  FALSE
  BY <1>1, <1>4 DEF Timeout, TypeOK, SerialFaults
<1>5. ~reconcileOrphanedNBDDevices
  BY Zenon DEF SerialInv, reconcileOrphanedNBDDevices, Examine, DetachOrphan
<1>6. ASSUME NEW d \in Devices, Expire(d)
      PROVE  SerialInv'
  <2>1. RecordsReserved'
    BY <1>6, Zenon DEF Expire, RecordsReserved, Fails
  <2>2. QED
    BY <1>1, <1>6, <2>1, QuietStep, Zenon DEF Expire, zerofs
<1>7. ASSUME NEW v \in Volumes, PodServes(v)
      PROVE  SerialInv'
  <2>1. RecordsReserved'
    BY <1>7, Zenon DEF PodServes, RecordsReserved, SerialInv, nbdFiles
  <2>2. \A w \in Volumes : pod[w] = "serving" => pod'[w] = "serving"
    BY <1>1, <1>7, Zenon DEF PodServes, TypeOK
  <2>3. QED
    BY <1>1, <1>7, <2>1, <2>2, QuietStep, Zenon DEF PodServes, nbdFiles
<1>8. ASSUME NEW v \in Volumes, PodDies(v)
      PROVE  FALSE
  BY <1>8, Zenon DEF PodDies, SerialFaults, Fails
<1>9. CASE UNCHANGED vars
  <2>1. UNCHANGED <<nbdFiles, kernel, pc, locals, reconciler, zerofs, caller>>
    BY <1>9, Zenon DEF vars
  <2>2. RecordsReserved'
    BY <2>1, Zenon DEF RecordsReserved, SerialInv, nbdFiles
  <2>3. QED
    BY <1>1, <2>1, <2>2, QuietStep, Zenon DEF nbdFiles, zerofs
<1>10. QED
  BY <1>2, <1>3, <1>4, <1>5, <1>6, <1>7, <1>8, <1>9, Zenon DEF Next

\* Initially the invariant holds.
LEMMA InitSerial == Init => SerialInv
<1> SUFFICES ASSUME Init PROVE SerialInv
  BY Zenon
<1>1. TypeOK
  BY InitType, Zenon
<1>2. \A t \in Targets : Vacant(t) /\ kub[t] = "none"
  BY VolumeOfAssumption, SentinelsAssumption, Zenon
  DEF Init, NbdInit, Vacant, NoRecord
<1>3. RecordsReserved
  BY SentinelsAssumption, Zenon DEF Init, NbdInit, RecordsReserved
<1>4. \A h \in Handlers : ~Active(h)
  BY Zenon DEF Init, Active
<1>5. QED
  BY <1>1, <1>2, <1>3, <1>4, SentinelsAssumption, Zenon
  DEF Init, NbdInit, SerialInv, TargetOK

\* Only a restart counts as one.
LEMMA RestartsCounted ==
    ASSUME [Next]_vars, ~Restart
    PROVE  restarts' = restarts
<1>1. ASSUME NEW h \in Handlers, Step(h)
      PROVE  restarts' = restarts
  <2>1. CASE Publish(h)
    BY <2>1, Zenon
    DEF Publish, Check, UnmountLingering, LockStale, DetachStale, ClearStale,
        CreatePod, AwaitPod, WaitSocket, Mount9P, CreateDisk, Umount9P,
        Reserve, Connect, ClearUnconnected, Blkid, Mkfs, MountFs,
        DisconnectFailed, Advance, Continue, Return
  <2>2. CASE Cleanup(h)
    BY <2>2, Zenon
    DEF Cleanup, CleanupUnmount, CleanupRead, CleanupDetach, CleanupState,
        CleanupReservation, CleanupPod, Continue, Return
  <2>3. CASE Unpublish(h)
    BY <2>3, Zenon
    DEF Unpublish, FindSource, UmountFs, Recover, Detach, RemovePodOf, Clear,
        Continue, Return
  <2>4. QED
    BY <1>1, <2>1, <2>2, <2>3, Zenon DEF Step
<1>2. QED
  BY <1>1, Zenon
  DEF Next, NodePublishVolume, NodeUnpublishVolume, StartCall, Timeout,
      reconcileOrphanedNBDDevices, Examine, DetachOrphan, Expire, PodServes,
      PodDies, vars

\* Until the plugin restarts for the first time the invariant holds of the
\* node service, whether it restarts later or not.
THEOREM SerialUntilRestart ==
    ASSUME SerialFaults
    PROVE  Spec => [](restarts = 0 => SerialInv)
<1>1. Init => SerialInv
  BY InitSerial, Zenon
<1>2. TypeOK /\ (restarts = 0 => SerialInv) /\ [Next]_vars
      => (restarts = 0 => SerialInv)'
  <2> SUFFICES ASSUME TypeOK, restarts = 0 => SerialInv, [Next]_vars,
                      restarts' = 0
               PROVE  SerialInv'
    OBVIOUS
  <2>1. ~Restart
    BY DEF Restart, TypeOK
  <2>2. restarts = 0
    BY <2>1, RestartsCounted, Zenon
  <2>3. QED
    BY <2>1, <2>2, NextSerial, Zenon
<1>3. QED
  BY <1>1, <1>2, TypeCorrect, PTL DEF Spec

\* The invariant holds of the node service in the serial environment.
THEOREM SerialCorrect ==
    ASSUME SerialEnvironment
    PROVE  Spec => []SerialInv
<1>1. SerialFaults
  BY Zenon DEF SerialEnvironment
<1>2. TypeOK => restarts = 0
  BY DEF TypeOK, SerialEnvironment
<1>3. QED
  BY <1>1, <1>2, SerialUntilRestart, TypeCorrect, PTL

-----------------------------------------------------------------------------
(* What the service guarantees in the serial environment.                  *)

\* A published target is mounted from the device that serves its own volume.
THEOREM ServedCorrect ==
    ASSUME SerialEnvironment
    PROVE  Spec => []PublishedIsServed
<1>1. SerialInv => PublishedIsServed
  <2> SUFFICES ASSUME SerialInv, NEW t \in Targets, kub[t] = "published"
               PROVE  Served(t)
    BY Zenon DEF PublishedIsServed, Served, Linked
  <2>1. CASE Attended(t)
    BY <2>1 DEF Attended, SerialInv, HandlerOK, PublishOK, TargetOK
  <2>2. CASE ~Attended(t)
    BY <2>2, Zenon DEF SerialInv, TargetOK
  <2>3. QED
    BY <2>1, <2>2, Zenon
<1>2. QED
  BY <1>1, SerialCorrect, PTL

\* If blkid does not fail either, mkfs never runs on a file system.
THEOREM FormatCorrect ==
    ASSUME SerialEnvironment, "blkid" \notin Faults
    PROVE  Spec => []NothingFormattedOver
<1>1. SerialInv => NothingFormattedOver
  BY Zenon DEF SerialInv, NothingFormattedOver, Fails
<1>2. QED
  BY <1>1, SerialCorrect, PTL

\* If reservation files are written and do not grow old, reservations are
\* exclusive.
THEOREM ExclusiveCorrect ==
    ASSUME SerialEnvironment, {"write_reservation", "expiry"} \cap Faults = {}
    PROVE  Spec => []DeviceExclusive
<1>1. SerialInv => DeviceExclusive
  BY DEF SerialInv, RecordsReserved, DeviceExclusive
<1>2. QED
  BY <1>1, SerialCorrect, PTL

-----------------------------------------------------------------------------
(* The leases.                                                             *)
(* In the serial environment, with reservation files that are written and  *)
(* do not grow old, the node service implements the device leases of       *)
(* module DeviceLease: the state files are the leases.                     *)

LeaseEnvironment ==
    /\ SerialEnvironment
    /\ {"write_reservation", "expiry"} \cap Faults = {}

\* The leases that the records of a function say.
Holding(record) ==
    [d \in Devices |-> IF \E v \in Volumes : record[v] = d
                       THEN CHOOSE v \in Volumes : record[v] = d ELSE None]

\* Exclusive records are exactly the leases they say.
LEMMA Holders ==
    ASSUME NEW record,
           \A v, w \in Volumes, d \in Devices :
              record[v] = d /\ record[w] = d => v = w
    PROVE  /\ Holding(record) \in [Devices -> Volumes \cup {None}]
           /\ \A d \in Devices, v \in Volumes :
                 Holding(record)[d] = v <=> record[v] = d
<1> DEFINE holder == Holding(record)
<1>1. ASSUME NEW d \in Devices, NEW v \in Volumes, record[v] = d
      PROVE  holder[d] = v
  <2>1. holder[d] = CHOOSE w \in Volumes : record[w] = d
    BY <1>1, Zenon DEF Holding
  <2>2. QED
    BY <1>1, <2>1, Zenon
<1>2. ASSUME NEW d \in Devices, ~ \E v \in Volumes : record[v] = d
      PROVE  holder[d] = None
  BY <1>2, Zenon DEF Holding
<1>3. holder = [d \in Devices |-> holder[d]]
  BY Zenon DEF Holding
<1>4. QED
  BY <1>1, <1>2, <1>3, SentinelsAssumption, Zenon

\* The leases say what the state files say.
LEMMA HolderOf ==
    ASSUME LeaseEnvironment, SerialInv
    PROVE  /\ leaseHolder \in [Devices -> Volumes \cup {None}]
           /\ \A d \in Devices, v \in Volumes :
                 leaseHolder[d] = v <=> volState[v] = d
<1>1. \A v, w \in Volumes, d \in Devices :
         volState[v] = d /\ volState[w] = d => v = w
  BY DEF LeaseEnvironment, SerialInv, RecordsReserved
<1>2. leaseHolder = Holding(volState)
  BY Zenon DEF leaseHolder, Holding
<1>3. QED
  BY <1>1, <1>2, Holders

\* The leases that follow from what a step does to the state files.
LEMMA HolderUpdate ==
    ASSUME LeaseEnvironment, SerialInv',
           NEW lease \in [Devices -> Volumes \cup {None}],
           \A d \in Devices, v \in Volumes : lease[d] = v <=> volState'[v] = d
    PROVE  leaseHolder' = lease
<1>1. \A v, w \in Volumes, d \in Devices :
         volState'[v] = d /\ volState'[w] = d => v = w
  BY DEF LeaseEnvironment, SerialInv, RecordsReserved
<1>2. /\ leaseHolder' \in [Devices -> Volumes \cup {None}]
      /\ \A d \in Devices, v \in Volumes :
            leaseHolder'[d] = v <=> volState'[v] = d
  <2>1. leaseHolder' = Holding(volState')
    BY Zenon DEF leaseHolder, Holding
  <2>2. QED
    BY <1>1, <2>1, Holders
<1>3. \A d \in Devices : leaseHolder'[d] = lease[d]
  BY <1>2, SentinelsAssumption
<1>4. QED
  BY <1>2, <1>3

\* Nothing but the records of devices matters for the leases.
LEMMA SameLeases ==
    ASSUME LeaseEnvironment, SerialInv, SerialInv',
           \A d \in Devices, v \in Volumes :
              volState'[v] = d <=> volState[v] = d
    PROVE  leaseHolder' = leaseHolder
  BY HolderOf, HolderUpdate

\* A volume that gets a record of a device that nobody has leases it.
LEMMA LeaseAcquired ==
    ASSUME LeaseEnvironment, SerialInv, SerialInv',
           NEW v \in Volumes, NEW d \in Devices,
           volState[v] \notin Devices, \A w \in Volumes : volState[w] # d,
           conn[d] = None, conn' = conn,
           volState' = [volState EXCEPT ![v] = d]
    PROVE  Lease!Acquire(v, d)
<1> DEFINE lease == [leaseHolder EXCEPT ![d] = v]
<1>1. /\ leaseHolder \in [Devices -> Volumes \cup {None}]
      /\ \A e \in Devices, w \in Volumes :
            leaseHolder[e] = w <=> volState[w] = e
  BY HolderOf, Zenon
<1>2. volState \in [Volumes -> Devices \cup {None, Empty}]
  BY Zenon DEF SerialInv, TypeOK, NbdTypeOK
<1>3. leaseHolder[d] = None /\ \A e \in Devices : leaseHolder[e] # v
  BY <1>1
<1>4. /\ lease \in [Devices -> Volumes \cup {None}]
      /\ \A e \in Devices, w \in Volumes : lease[e] = w <=> volState'[w] = e
  BY <1>1, <1>2, <1>3
<1>5. leaseHolder' = lease
  BY <1>4, HolderUpdate, Zenon
<1>6. QED
  BY <1>3, <1>5, Zenon DEF Lease!Acquire

\* A volume that loses its record releases its device, if it had one.
LEMMA LeaseReleased ==
    ASSUME LeaseEnvironment, SerialInv, SerialInv',
           NEW v \in Volumes, NEW d \in Devices, volState[v] = d,
           conn' = conn, volState' = [volState EXCEPT ![v] = None]
    PROVE  Lease!Release(v, d)
<1> DEFINE lease == [leaseHolder EXCEPT ![d] = None]
<1>1. /\ leaseHolder \in [Devices -> Volumes \cup {None}]
      /\ \A e \in Devices, w \in Volumes :
            leaseHolder[e] = w <=> volState[w] = e
  BY HolderOf, Zenon
<1>2. /\ volState \in [Volumes -> Devices \cup {None, Empty}]
      /\ None \notin Devices /\ None \notin Volumes
  BY SentinelsAssumption, Zenon DEF SerialInv, TypeOK, NbdTypeOK
<1>3. leaseHolder[d] = v
  BY <1>1, Zenon
<1>4. /\ lease \in [Devices -> Volumes \cup {None}]
      /\ \A e \in Devices, w \in Volumes : lease[e] = w <=> volState'[w] = e
  BY <1>1, <1>2, <1>3
<1>5. leaseHolder' = lease
  BY <1>4, HolderUpdate, Zenon
<1>6. QED
  BY <1>3, <1>5, Zenon DEF Lease!Release

-----------------------------------------------------------------------------
(* The steps.                                                              *)

\* Steps that change neither a record nor a connection.
LEMMA NoLeaseStep ==
    ASSUME LeaseEnvironment, SerialInv, SerialInv', volState' = volState,
           conn' = conn
    PROVE  [Lease!Next]_<<leaseHolder, conn>>
  BY SameLeases, Zenon

\* Without a device disconnected below a mount, umount changes no connection.
LEMMA UnmountKeepsConn ==
    ASSUME SerialInv, NEW t, Unmount(t)
    PROVE  conn' = conn
  BY Zenon DEF Unmount, Released, SerialInv, TypeOK, NbdTypeOK

\* A handler's step is a step of the leases: Reserve acquires, Connect
\* connects, Detach disconnects, ClearUnconnected and Clear release.
LEMMA StepLeases ==
    ASSUME LeaseEnvironment, SerialInv, SerialInv', NEW h \in Handlers, Step(h)
    PROVE  [Lease!Next]_<<leaseHolder, conn>>
<1> USE DEF At
<1>1. Active(h)
  BY Zenon
  DEF Active, Step, Publish, Cleanup, Unpublish, Check, UnmountLingering,
     LockStale, DetachStale, ClearStale, CreatePod, AwaitPod, WaitSocket,
     Mount9P, CreateDisk, Umount9P, Reserve, Connect, ClearUnconnected, Blkid,
     Mkfs, MountFs, DisconnectFailed, CleanupUnmount, CleanupRead,
     CleanupDetach, CleanupState, CleanupReservation, CleanupPod, FindSource,
     UmountFs, Recover, Detach, RemovePodOf, Clear
<1>2. PICK t \in Targets, v \in Volumes : tgt[h] = t /\ v = VolumeOf[t]
  BY <1>1, VolumeOfAssumption, Zenon DEF SerialInv, TypeOK, Active
<1>3. HandlerOK(h) /\ Volume(h) = v
  BY <1>1, <1>2, Zenon DEF SerialInv, Volume
<1>4. CASE Check(h) \/ LockStale(h) \/ CreatePod(h) \/ AwaitPod(h)
           \/ WaitSocket(h) \/ Mount9P(h) \/ CreateDisk(h)
  <2>1. UNCHANGED <<volState, conn>>
    BY <1>4, Zenon
    DEF Check, LockStale, CreatePod, AwaitPod, WaitSocket, Mount9P, Mount,
        CreateDisk, Advance, nbdFiles, kernel
  <2>2. QED
    BY <2>1, NoLeaseStep, Zenon
<1>5. CASE Blkid(h) \/ Mkfs(h) \/ MountFs(h) \/ CleanupRead(h)
           \/ CleanupPod(h) \/ FindSource(h) \/ Recover(h) \/ RemovePodOf(h)
  <2>1. UNCHANGED <<volState, conn>>
    BY <1>5, Zenon
    DEF Blkid, Mkfs, MountFs, Mount, CleanupRead, CleanupPod, FindSource,
        Recover, RemovePodOf, Advance, nbdFiles, kernel
  <2>2. QED
    BY <2>1, NoLeaseStep, Zenon
<1>6. CASE UnmountLingering(h) \/ Umount9P(h) \/ CleanupUnmount(h)
           \/ UmountFs(h)
  <2>1. UNCHANGED <<volState, conn>>
    BY <1>6, UnmountKeepsConn, Zenon
    DEF UnmountLingering, Umount9P, CleanupUnmount, UmountFs,
        unmountBestEffort, UnmountFails, nbdFiles, kernel
  <2>2. QED
    BY <2>1, NoLeaseStep, Zenon
<1>7. CASE DetachStale(h) \/ ClearStale(h) \/ DisconnectFailed(h)
           \/ CleanupDetach(h) \/ CleanupState(h) \/ CleanupReservation(h)
  BY <1>3, <1>7, Zenon
  DEF DetachStale, ClearStale, DisconnectFailed, CleanupDetach, CleanupState,
      CleanupReservation, HandlerOK, UnreachedLabels
<1>8. CASE Reserve(h)
  <2>1. NoRecord(t) /\ conn' = conn
    BY <1>2, <1>3, <1>8, Zenon
    DEF Reserve, HandlerOK, PublishOK, Vacant, kernel
  <2>2. ASSUME NEW d \in Devices, NEW unreadable,
               reserveNBDDevice(v, d, unreadable)
        PROVE  Lease!Acquire(v, d)
    <3>1. /\ volState' = [volState EXCEPT ![v] = d]
          /\ Reservable(d, unreadable)
      BY <1>2, <2>1, <2>2, ReserveOwn, Zenon
      DEF LeaseEnvironment, SerialEnvironment, FirstReservable
    <3>2. conn[d] = None /\ \A w \in Volumes : volState[w] # d
      BY <3>1, FreeIsUnrecorded, Zenon
      DEF Reservable, isNBDConnected, LeaseEnvironment
    <3>3. QED
      BY <1>2, <2>1, <3>1, <3>2, LeaseAcquired, Zenon DEF NoRecord
  <2>3. ASSUME NEW unreadable, ReserveFails(v, unreadable)
        PROVE  leaseHolder' = leaseHolder
    <3>1. /\ volState \in [Volumes -> Devices \cup {None, Empty}]
          /\ Empty \notin Devices
      BY SentinelsAssumption, Zenon DEF SerialInv, TypeOK, NbdTypeOK
    <3>2. \A d \in Devices, w \in Volumes : volState'[w] = d <=> volState[w] = d
      BY <1>2, <2>1, <2>3, <3>1, Zenon DEF ReserveFails, NoRecord, nbdFiles
    <3>3. QED
      BY <3>2, SameLeases, Zenon
  <2>4. QED
    BY <1>3, <1>8, <2>1, <2>2, <2>3, Zenon DEF Reserve, Lease!Next
<1>9. CASE Connect(h)
  <2>1. PICK d \in Devices : d = dev[h] /\ volState[v] = d
    <3>1. dev[h] \in Devices
      BY <1>9, Zenon DEF Connect, SerialInv, TypeOK, DeviceLabels
    <3>2. volState[v] = dev[h]
      BY <1>2, <1>3, <1>9 DEF Connect, HandlerOK, PublishOK, Recorded
    <3>3. QED
      BY <3>1, <3>2, Zenon
  <2>2. leaseHolder' = leaseHolder
    BY <1>9, SameLeases, Zenon DEF Connect, nbdFiles
  <2>3. leaseHolder[d] = v
    BY <2>1, HolderOf, Zenon
  <2>4. QED
    BY <1>3, <1>9, <2>1, <2>2, <2>3, Zenon
    DEF Connect, Lease!Connect, Lease!Next
<1>10. CASE ClearUnconnected(h)
  <2>1. PICK d \in Devices : d = dev[h] /\ volState[v] = d
    <3>1. dev[h] \in Devices
      BY <1>10, Zenon DEF ClearUnconnected, SerialInv, TypeOK, DeviceLabels
    <3>2. volState[v] = dev[h]
      BY <1>2, <1>3, <1>10 DEF ClearUnconnected, HandlerOK, PublishOK, Recorded
    <3>3. QED
      BY <3>1, <3>2, Zenon
  <2>2. conn' = conn /\ volState' = [volState EXCEPT ![v] = None]
    BY <1>3, <1>10, Zenon
    DEF ClearUnconnected, clearVolumeNBDState, RemoveVolumeFile, kernel
  <2>3. QED
    BY <2>1, <2>2, LeaseReleased, Zenon DEF Lease!Next
<1>11. CASE Detach(h)
  <2>1. leaseHolder' = leaseHolder
    BY <1>11, SameLeases, Zenon DEF Detach, nbdFiles
  <2>2. CASE src[h] \in {<<>>, <<HostFs>>}
    <3>1. DeviceArgument(src[h]) = None
      BY <2>2, SentinelsAssumption DEF DeviceArgument
    <3>2. QED
      BY <1>11, <2>1, <3>1, Zenon DEF Detach, kernel
  <2>3. ASSUME NEW d \in Devices, src[h] = <<d>>, mounts[t] = <<>>,
               Linked(t, d)
        PROVE  [Lease!Next]_<<leaseHolder, conn>>
    <3>1. DeviceArgument(src[h]) = d
      BY <2>3 DEF DeviceArgument
    <3>2. Disconnect(d) \/ conn' = conn
      BY <1>11, <3>1, Zenon DEF Detach, kernel
    <3>3. ASSUME Disconnect(d)
          PROVE  Lease!Disconnect(v, d)
      <4>1. conn' = [conn EXCEPT ![d] = None]
        BY <2>3, <3>3, DisconnectOwn, Zenon
        DEF LeaseEnvironment, SerialEnvironment, Linked
      <4>2. leaseHolder[d] = v /\ conn[d] = v
        BY <1>2, <2>3, HolderOf, Zenon DEF Linked, Recorded
      <4>3. QED
        BY <2>1, <4>1, <4>2, Zenon DEF Lease!Disconnect
    <3>4. QED
      BY <2>1, <3>2, <3>3, Zenon DEF Lease!Next
  <2>4. QED
    BY <1>2, <1>3, <1>11, <2>2, <2>3, Zenon DEF Detach, HandlerOK, UnpublishOK
<1>12. CASE Clear(h)
  <2>1. conn' = conn /\ volState' = [volState EXCEPT ![v] = None]
    BY <1>3, <1>12, Zenon DEF Clear, clearVolumeNBDState, RemoveVolumeFile
  <2>2. CASE volState[v] \in Devices
    BY <2>1, <2>2, LeaseReleased, Zenon DEF Lease!Next
  <2>3. CASE volState[v] \notin Devices
    <3>1. /\ volState \in [Volumes -> Devices \cup {None, Empty}]
          /\ None \notin Devices
      BY SentinelsAssumption, Zenon DEF SerialInv, TypeOK, NbdTypeOK
    <3>2. \A d \in Devices, w \in Volumes : volState'[w] = d <=> volState[w] = d
      BY <2>1, <2>3, <3>1, Zenon
    <3>3. QED
      BY <2>1, <3>2, SameLeases, Zenon
  <2>4. QED
    BY <2>2, <2>3, Zenon
<1>13. QED
  BY <1>4, <1>5, <1>6, <1>7, <1>8, <1>9, <1>10, <1>11, <1>12, Zenon
  DEF Step, Publish, Cleanup, Unpublish

\* So is every other step: it touches neither records nor connections.
LEMMA NextLeases ==
    ASSUME LeaseEnvironment, SerialInv, SerialInv', [Next]_vars
    PROVE  [Lease!Next]_<<leaseHolder, conn>>
<1>1. ASSUME NEW h \in Handlers, Step(h)
      PROVE  [Lease!Next]_<<leaseHolder, conn>>
  BY <1>1, StepLeases, Zenon
<1>2. ASSUME NEW h \in Handlers, NEW t \in Targets,
             NodePublishVolume(h, t) \/ NodeUnpublishVolume(h, t)
      PROVE  UNCHANGED <<volState, conn>>
  BY <1>2, Zenon
  DEF NodePublishVolume, NodeUnpublishVolume, StartCall, nbdFiles, kernel
<1>3. scan = {} /\ orphan = None /\ TypeOK
  BY Zenon DEF SerialInv
<1>4. ~reconcileOrphanedNBDDevices /\ ~Restart
  BY <1>3
  DEF reconcileOrphanedNBDDevices, Examine, DetachOrphan, Restart, TypeOK,
      LeaseEnvironment, SerialEnvironment
<1>5. ASSUME \/ \E h \in Handlers : Timeout(h)
             \/ \E d \in Devices : Expire(d)
             \/ \E v \in Volumes : PodServes(v) \/ PodDies(v)
             \/ UNCHANGED vars
      PROVE  UNCHANGED <<volState, conn>>
  BY <1>5, Zenon
  DEF Timeout, Expire, PodServes, PodDies, vars, nbdFiles, kernel
<1>6. QED
  BY <1>1, <1>2, <1>4, <1>5, NoLeaseStep, Zenon DEF Next

\* The state files implement leases: a handler connects and disconnects a
\* device only while the state file of its own volume, and of no other one,
\* names it.
THEOREM LeasesCorrect ==
    ASSUME LeaseEnvironment
    PROVE  Spec => LeasesImplemented
<1>1. Init => Lease!Init
  BY SentinelsAssumption DEF Init, NbdInit, Lease!Init, leaseHolder
<1>2. SerialInv /\ SerialInv' /\ [Next]_vars =>
        [Lease!Next]_<<leaseHolder, conn>>
  BY NextLeases, Zenon
<1>3. Spec => []SerialInv
  BY SerialCorrect, Zenon DEF LeaseEnvironment
<1>4. QED
  BY <1>1, <1>2, <1>3, PTL DEF Spec, LeasesImplemented, Lease!Spec

=============================================================================
