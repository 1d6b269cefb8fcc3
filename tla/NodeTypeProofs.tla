-------------------------- MODULE NodeTypeProofs ---------------------------
(***************************************************************************)
(* The type invariant and the mutex discipline of the node service, for    *)
(* every number of volumes, targets, devices and handlers, every set of    *)
(* faults, and any number of timeouts and restarts.                        *)
(***************************************************************************)
EXTENDS NodeProperties, SequenceTheorems, TLAPS

(* The parts of the type invariant that the operators of Nbd preserve.     *)
FilesType ==
    /\ volState \in [Volumes -> Devices \cup {None, Empty}]
    /\ reservation \in [Devices -> Volumes \cup {None, Empty}]
    /\ expired \in [Devices -> BOOLEAN]

KernelType ==
    /\ conn \in [Devices -> Volumes \cup {None, Dead}]
    /\ mounts \in [Targets -> Seq(MountSources)]
    /\ dirs \subseteq Targets

\* umount keeps the types of the kernel's state.
LEMMA UnmountType ==
    ASSUME KernelType, NEW t \in Targets, Unmount(t)
    PROVE  KernelType'
<1> DEFINE rest == SubSeq(mounts[t], 1, Len(mounts[t]) - 1)
<1>1. mounts[t] \in Seq(MountSources)
  BY Zenon DEF KernelType
<1>2. Len(mounts[t]) \in Nat
      /\ \A i \in 1..(Len(mounts[t]) - 1) : mounts[t][i] \in MountSources
  BY <1>1, LenProperties, ElementOfSeq
<1>3. rest \in Seq(MountSources)
  BY <1>2, SubSeqProperties
<1>4. mounts' \in [Targets -> Seq(MountSources)]
  BY <1>3, Zenon DEF Unmount, KernelType
<1>5. conn' \in [Devices -> Volumes \cup {None, Dead}]
  BY Zenon DEF Unmount, Released, KernelType
<1>6. QED
  BY <1>4, <1>5, Zenon DEF Unmount, KernelType

\* So does mount.
LEMMA MountType ==
    ASSUME KernelType, NEW t \in Targets, NEW s \in MountSources, Mount(t, s)
    PROVE  KernelType'
<1>1. Append(mounts[t], s) \in Seq(MountSources)
  BY AppendProperties, Zenon DEF KernelType
<1>2. QED
  BY <1>1, Zenon DEF KernelType, Mount

\* So does nbd-client -d.
LEMMA DisconnectType ==
    ASSUME KernelType, NEW d, Disconnect(d)
    PROVE  KernelType'
  BY Zenon DEF KernelType, Disconnect

\* So do the best-effort variants.
LEMMA BestEffortType ==
    ASSUME KernelType
    PROVE  /\ \A t \in Targets : unmountBestEffort(t) => KernelType'
           /\ \A t, fault : UnmountFails(t, fault) => KernelType'
           /\ \A d : detachNBDDeviceBestEffort(d) => KernelType'
<1>1. UNCHANGED kernel => KernelType'
  BY Zenon DEF kernel, KernelType
<1>2. QED
  BY <1>1, UnmountType, DisconnectType, Zenon
  DEF unmountBestEffort, UnmountFails, detachNBDDeviceBestEffort

\* Removing the state files keeps the types of the state files.
LEMMA ClearType ==
    ASSUME FilesType, NEW v \in Volumes, NEW d
    PROVE  /\ clearVolumeNBDState(v, d) => FilesType'
           /\ RemoveVolumeFile(v) =>
                 volState' \in [Volumes -> Devices \cup {None, Empty}]
           /\ RemoveReservation(d) =>
                 /\ reservation' \in [Devices -> Volumes \cup {None, Empty}]
                 /\ expired' \in [Devices -> BOOLEAN]
  BY Zenon
  DEF FilesType, clearVolumeNBDState, RemoveVolumeFile, RemoveReservation

\* So does reserving a device, and failing to.
LEMMA ReserveType ==
    ASSUME FilesType, NEW v \in Volumes, NEW unreadable
    PROVE  /\ \A d \in Devices :
                 reserveNBDDevice(v, d, unreadable) => FilesType'
           /\ ReserveFails(v, unreadable) => FilesType'
<1>1. ASSUME NEW d \in Devices, CreateReservation(v, d)
      PROVE  /\ reservation' \in [Devices -> Volumes \cup {None, Empty}]
             /\ expired' \in [Devices -> BOOLEAN]
  BY <1>1, Zenon DEF FilesType, CreateReservation
<1>2. ASSUME NEW d \in Devices, reserveNBDDevice(v, d, unreadable)
      PROVE  FilesType'
  BY <1>1, <1>2, Zenon
  DEF FilesType, reserveNBDDevice, ReuseReservation, TakeReservation
<1>3. ReserveFails(v, unreadable) => FilesType'
  BY ClearType, Zenon DEF FilesType, ReserveFails, nbdFiles
<1>4. QED
  BY <1>2, <1>3, Zenon

-----------------------------------------------------------------------------
(* The rest of the type invariant, and what the frames of the handlers'    *)
(* steps preserve of it.                                                   *)

PodsType ==
    /\ pod \in [Volumes -> {"none", "starting", "serving"}]
    /\ socket \in [Volumes -> BOOLEAN]
    /\ disk \in [Volumes -> {"absent", "blank", "formatted"}]
    /\ wiped \subseteq Volumes

LocalsType ==
    /\ pc \in [Handlers -> Labels]
    /\ tgt \in [Handlers -> Targets \cup {None}]
    /\ \A h \in Handlers : pc[h] # "idle" => tgt[h] \in Targets
    /\ dev \in [Handlers -> Devices \cup {None}]
    /\ \A h \in Handlers : pc[h] \in DeviceLabels => dev[h] \in Devices
    /\ src \in [Handlers -> Seq(MountSources \cup {HostFs})]

ControlType ==
    /\ nbdMu \in Handlers \cup {None}
    /\ scan \subseteq Devices
    /\ orphan \in Devices \cup {None}
    /\ kub \in [Targets -> {"none", "uncertain", "published"}]
    /\ waiting \subseteq Handlers
    /\ timeouts \in 0..MaxTimeouts
    /\ restarts \in 0..MaxRestarts

\* The parts make up the type invariant.
LEMMA TypeParts ==
    TypeOK <=> FilesType /\ KernelType /\ PodsType /\ LocalsType /\ ControlType
  BY Zenon DEF TypeOK, NbdTypeOK, FilesType, KernelType, PodsType, LocalsType,
         ControlType

\* A handler at work has a target, and its target a volume.
LEMMA ActiveHandler ==
    ASSUME TypeOK, NEW h \in Handlers, pc[h] # "idle"
    PROVE  tgt[h] \in Targets /\ Volume(h) \in Volumes
  BY VolumeOfAssumption, Zenon DEF TypeOK, Volume

\* The frame of a step that goes on to another label.
LEMMA ContinueType ==
    ASSUME TypeOK, NEW h \in Handlers, pc[h] # "idle",
           NEW l \in Labels, Continue(h, l),
           nbdMu' \in Handlers \cup {None},
           \/ UNCHANGED dev /\ (l \in DeviceLabels => pc[h] \in DeviceLabels)
           \/ \E d \in Devices \cup {None} :
                 /\ dev' = [dev EXCEPT ![h] = d]
                 /\ l \in DeviceLabels => d \in Devices,
           src' \in [Handlers -> Seq(MountSources \cup {HostFs})]
    PROVE  LocalsType' /\ ControlType'
<1>1. pc' \in [Handlers -> Labels]
  BY Zenon DEF TypeOK, Continue, Goto
<1>2. \A k \in Handlers : pc'[k] # "idle" => tgt'[k] \in Targets
  BY Zenon DEF TypeOK, Continue, Goto
<1>3. /\ dev' \in [Handlers -> Devices \cup {None}]
      /\ \A k \in Handlers : pc'[k] \in DeviceLabels => dev'[k] \in Devices
  BY Zenon DEF TypeOK, Continue, Goto
<1>4. QED
  BY <1>1, <1>2, <1>3, Zenon
  DEF TypeOK, Continue, LocalsType, ControlType, caller, reconciler

\* The frame of a step that ends a call.
LEMMA ReturnType ==
    ASSUME TypeOK, NEW h \in Handlers, pc[h] # "idle",
           NEW status \in {"none", "uncertain", "published"},
           Return(h, status)
    PROVE  LocalsType' /\ ControlType'
<1>1. <<>> \in Seq(MountSources \cup {HostFs})
  BY EmptySeq, Zenon
<1>2. LocalsType'
  BY <1>1, Zenon DEF TypeOK, Return, Goto, LocalsType, Labels, DeviceLabels
<1>3. kub' \in [Targets -> {"none", "uncertain", "published"}]
  BY ActiveHandler, Zenon DEF TypeOK, Return
<1>4. QED
  BY <1>2, <1>3, Zenon DEF TypeOK, Return, ControlType, reconciler

\* What findmnt prints.
LEMMA FoundType ==
    ASSUME KernelType, NEW t \in Targets
    PROVE  FoundSources(t) \subseteq Seq(MountSources \cup {HostFs})
<1>1. <<HostFs>> \in Seq(MountSources \cup {HostFs})
  OBVIOUS
<1>2. <<>> \in Seq(MountSources \cup {HostFs})
  OBVIOUS
<1>3. mounts[t] \in Seq(MountSources \cup {HostFs})
  <2>1. mounts[t] \in Seq(MountSources)
    BY Zenon DEF KernelType
  <2>2. QED
    BY <2>1, LenProperties, SeqDef
<1>4. QED
  BY <1>1, <1>2, <1>3, Zenon DEF FoundSources, findMountSource

\* A state file that is not empty and not missing names a device.
LEMMA RecordedType ==
    ASSUME FilesType, NEW v \in Volumes
    PROVE  readVolumeNBDState(v) \in Devices \cup {None}
  BY Zenon DEF FilesType, readVolumeNBDState

-----------------------------------------------------------------------------
(* One step per action of the specification.                               *)

\* What every step of a handler relies on.
LEMMA HandlerFacts ==
    ASSUME TypeOK, NEW h \in Handlers, pc[h] # "idle"
    PROVE  /\ FilesType /\ KernelType /\ PodsType
           /\ tgt[h] \in Targets /\ Volume(h) \in Volumes
           /\ pc[h] \in DeviceLabels => dev[h] \in Devices
           /\ UNCHANGED nbdFiles => FilesType'
           /\ UNCHANGED kernel => KernelType'
           /\ UNCHANGED zerofs => PodsType'
           /\ UNCHANGED src =>
                 src' \in [Handlers -> Seq(MountSources \cup {HostFs})]
           /\ UNCHANGED nbdMu => nbdMu' \in Handlers \cup {None}
           /\ FilesType' /\ KernelType' /\ PodsType' /\ LocalsType'
              /\ ControlType' => TypeOK'
           /\ \A l \in Labels :
                /\ Continue(h, l)
                /\ nbdMu' \in Handlers \cup {None}
                /\ \/ /\ UNCHANGED dev
                      /\ l \in DeviceLabels => pc[h] \in DeviceLabels
                   \/ \E d \in Devices \cup {None} :
                         /\ dev' = [dev EXCEPT ![h] = d]
                         /\ l \in DeviceLabels => d \in Devices
                /\ src' \in [Handlers -> Seq(MountSources \cup {HostFs})]
                => LocalsType' /\ ControlType'
           /\ \A status \in {"none", "uncertain", "published"} :
                Return(h, status) => LocalsType' /\ ControlType'
<1>1. FilesType /\ KernelType /\ PodsType
  BY TypeParts, Zenon
<1>2. tgt[h] \in Targets /\ Volume(h) \in Volumes
  BY ActiveHandler, Zenon
<1>3. FilesType' /\ KernelType' /\ PodsType' /\ LocalsType' /\ ControlType'
      => TypeOK'
  BY TypeParts, PTL
<1>4. QED
  BY <1>1, <1>2, <1>3, ContinueType, ReturnType, ZenonT(30)
  DEF TypeOK, nbdFiles, kernel, zerofs, FilesType, KernelType, PodsType

\* A handler's step of NodePublishVolume keeps the type invariant.
LEMMA PublishType ==
    ASSUME TypeOK, NEW h \in Handlers, Publish(h)
    PROVE  TypeOK'
<1> USE DEF At, Advance
<1>1. pc[h] # "idle"
  BY Zenon DEF Publish, Check, UnmountLingering, LockStale, DetachStale,
     ClearStale, CreatePod, AwaitPod, WaitSocket, Mount9P, CreateDisk,
     Umount9P, Reserve, Connect, ClearUnconnected, Blkid, Mkfs, MountFs,
     DisconnectFailed
<1> USE <1>1, HandlerFacts
<1> USE DEF Labels, PublishLabels, UnpublishLabels, DeviceLabels
<1>4. CASE Check(h)
  BY <1>4, Zenon DEF Check
<1>5. CASE UnmountLingering(h)
  BY <1>5, BestEffortType, Zenon DEF UnmountLingering
<1>6. CASE LockStale(h)
  BY <1>6, RecordedType, Zenon DEF LockStale
<1>7. CASE DetachStale(h)
  BY <1>7, BestEffortType, Zenon DEF DetachStale
<1>8. CASE ClearStale(h)
  BY <1>8, ClearType, Zenon DEF ClearStale
<1>9. CASE CreatePod(h)
  BY <1>9, Zenon DEF CreatePod, PodsType, KernelType
<1>10. CASE AwaitPod(h)
  BY <1>10, Zenon DEF AwaitPod
<1>11. CASE WaitSocket(h)
  BY <1>11, Zenon DEF WaitSocket
<1>12. CASE Mount9P(h)
  BY <1>12, MountType, Zenon DEF Mount9P, MountSources
<1>13. CASE CreateDisk(h)
  BY <1>13, Zenon DEF CreateDisk, PodsType
<1>14. CASE Umount9P(h)
  BY <1>14, UnmountType, BestEffortType, Zenon DEF Umount9P
<1>15. CASE Reserve(h)
  <2>1. PICK unreadable \in UnreadableSets :
          \/ \E d \in Devices :
                /\ reserveNBDDevice(Volume(h), d, unreadable)
                /\ dev' = [dev EXCEPT ![h] = d]
                /\ Continue(h, "connect")
          \/ /\ ReserveFails(Volume(h), unreadable)
             /\ dev' = dev
             /\ Continue(h, "cleanup_unmount")
    BY <1>15, Zenon DEF Reserve
  <2>2. UNCHANGED <<kernel, nbdMu, src, zerofs>>
    BY <1>15, Zenon DEF Reserve
  <2>3. FilesType'
    BY <2>1, ReserveType, Zenon
  <2>4. LocalsType' /\ ControlType'
    BY <2>1, <2>2, Zenon
  <2>5. QED
    BY <2>2, <2>3, <2>4, Zenon
<1>16. CASE Connect(h)
  BY <1>16, Zenon DEF Connect, KernelType
<1>17. CASE ClearUnconnected(h)
  BY <1>17, ClearType, Zenon DEF ClearUnconnected
<1>18. CASE Blkid(h)
  BY <1>18, Zenon DEF Blkid
<1>19. CASE Mkfs(h)
  <2>1. PodsType'
    <3>1. CASE Live(dev[h])
      <4>1. conn[dev[h]] \in Volumes
        BY <3>1, Zenon DEF Live
      <4>2. disk' \in [Volumes -> {"absent", "blank", "formatted"}]
        BY <1>19, <4>1, Zenon DEF Mkfs, PodsType
      <4>3. wiped' \subseteq Volumes
        BY <1>19, <4>1, Zenon DEF Mkfs, PodsType
      <4>4. QED
        BY <1>19, <4>2, <4>3, Zenon DEF Mkfs, PodsType
    <3>2. CASE ~Live(dev[h])
      BY <1>19, <3>2, Zenon DEF Mkfs, PodsType
    <3>3. QED
      BY <3>1, <3>2, Zenon
  <2>2. QED
    BY <1>19, <2>1, Zenon DEF Mkfs
<1>20. CASE MountFs(h)
  BY <1>20, MountType, Zenon DEF MountFs, MountSources
<1>21. CASE DisconnectFailed(h)
  BY <1>21, DisconnectType, Zenon DEF DisconnectFailed
<1>22. QED
  BY <1>4, <1>5, <1>6, <1>7, <1>8, <1>9, <1>10, <1>11, <1>12, <1>13, <1>14,
     <1>15, <1>16, <1>17, <1>18, <1>19, <1>20, <1>21, Zenon
  DEF Publish

\* So does a step of the deferred cleanup.
LEMMA CleanupType ==
    ASSUME TypeOK, NEW h \in Handlers, Cleanup(h)
    PROVE  TypeOK'
<1> USE DEF At, Advance
<1>1. pc[h] # "idle"
  BY Zenon
  DEF Cleanup, CleanupUnmount, CleanupRead, CleanupDetach, CleanupState,
     CleanupReservation, CleanupPod
<1> USE <1>1, HandlerFacts
<1> USE DEF Labels, PublishLabels, UnpublishLabels, DeviceLabels
<1>4. CASE CleanupUnmount(h)
  BY <1>4, BestEffortType, Zenon DEF CleanupUnmount
<1>5. CASE CleanupRead(h)
  BY <1>5, RecordedType, Zenon DEF CleanupRead
<1>6. CASE CleanupDetach(h)
  BY <1>6, BestEffortType, Zenon DEF CleanupDetach
<1>7. CASE CleanupState(h)
  BY <1>7, ClearType, Zenon DEF CleanupState, FilesType
<1>8. CASE CleanupReservation(h)
  BY <1>8, ClearType, Zenon DEF CleanupReservation, FilesType
<1>9. CASE CleanupPod(h)
  BY <1>9, Zenon DEF CleanupPod, RemovePod, PodsType
<1>10. QED
  BY <1>4, <1>5, <1>6, <1>7, <1>8, <1>9, Zenon DEF Cleanup

\* A device on its own is what findmnt may print.
LEMMA SourceLine ==
    \A d \in MountSources : <<d>> \in Seq(MountSources \cup {HostFs})
  OBVIOUS

\* So does a step of NodeUnpublishVolume.
LEMMA UnpublishType ==
    ASSUME TypeOK, NEW h \in Handlers, Unpublish(h)
    PROVE  TypeOK'
<1> USE DEF At
<1>1. pc[h] # "idle"
  BY Zenon
  DEF Unpublish, FindSource, UmountFs, Recover, Detach, RemovePodOf, Clear
<1> USE <1>1, HandlerFacts
<1> USE DEF Labels, PublishLabels, UnpublishLabels, DeviceLabels
<1>4. CASE FindSource(h)
  <2>1. PICK found \in FoundSources(tgt[h]) : src' = [src EXCEPT ![h] = found]
    BY <1>4, Zenon DEF FindSource
  <2>2. src' \in [Handlers -> Seq(MountSources \cup {HostFs})]
    BY <2>1, FoundType, Zenon DEF TypeOK
  <2>3. QED
    BY <1>4, <2>2, Zenon DEF FindSource
<1>5. CASE UmountFs(h)
  BY <1>5, UnmountType, BestEffortType, Zenon DEF UmountFs
<1>6. CASE Recover(h)
  <2>1. src' \in [Handlers -> Seq(MountSources \cup {HostFs})]
    <3>1. \A d \in MountSources : <<d>> \in Seq(MountSources \cup {HostFs})
      BY SourceLine, Zenon
    <3>2. QED
      BY <1>6, <3>1, RecordedType, Zenon DEF Recover, TypeOK, MountSources
  <2>2. QED
    BY <1>6, <2>1, Zenon DEF Recover
<1>7. CASE Detach(h)
  BY <1>7, DisconnectType, Zenon DEF Detach
<1>8. CASE RemovePodOf(h)
  BY <1>8, Zenon DEF RemovePodOf, RemovePod, PodsType
<1>9. CASE Clear(h)
  BY <1>9, ClearType, Zenon DEF Clear, KernelType
<1>10. QED
  BY <1>4, <1>5, <1>6, <1>7, <1>8, <1>9, Zenon DEF Unpublish

\* Initially the type invariant holds.
LEMMA InitType == Init => TypeOK
<1>1. <<>> \in Seq(MountSources) /\ <<>> \in Seq(MountSources \cup {HostFs})
  BY EmptySeq, Zenon
<1>2. QED
  BY <1>1, BoundsAssumption
  DEF Init, NbdInit, TypeOK, NbdTypeOK, Labels, DeviceLabels

\* So do the kubelet, the reconciler, a restart, time and the pods.
LEMMA EnvironmentType ==
    ASSUME TypeOK,
           \/ \E h \in Handlers :
                 \/ \E t \in Targets : NodePublishVolume(h, t)
                                       \/ NodeUnpublishVolume(h, t)
                 \/ Timeout(h)
           \/ reconcileOrphanedNBDDevices
           \/ Restart
           \/ \E d \in Devices : Expire(d)
           \/ \E v \in Volumes : PodServes(v) \/ PodDies(v)
    PROVE  TypeOK'
<1> USE DEF locals, caller, reconciler, zerofs, nbdFiles, kernel
<1>1. ASSUME NEW h \in Handlers, NEW t \in Targets,
             NodePublishVolume(h, t) \/ NodeUnpublishVolume(h, t)
      PROVE  TypeOK'
  <2>1. kub' \in [Targets -> {"none", "uncertain", "published"}]
    <3>1. kub \in [Targets -> {"none", "uncertain", "published"}]
      BY Zenon DEF TypeOK
    <3>2. CASE NodePublishVolume(h, t)
      BY <3>1, <3>2, Zenon DEF NodePublishVolume
    <3>3. CASE NodeUnpublishVolume(h, t)
      BY <3>1, <3>3, Zenon DEF NodeUnpublishVolume
    <3>4. QED
      BY <1>1, <3>2, <3>3, Zenon
  <2>2. PICK l \in {"check", "find_source"} : StartCall(h, t, l)
    BY <1>1, Zenon DEF NodePublishVolume, NodeUnpublishVolume
  <2>3. /\ pc' \in [Handlers -> Labels]
        /\ tgt' \in [Handlers -> Targets \cup {None}]
    BY <2>2, Zenon
    DEF TypeOK, StartCall, Goto, Labels, PublishLabels, UnpublishLabels
  <2>4. /\ \A k \in Handlers : pc'[k] # "idle" => tgt'[k] \in Targets
        /\ \A k \in Handlers : pc'[k] \in DeviceLabels => dev'[k] \in Devices
    BY <2>2, Zenon DEF TypeOK, StartCall, Goto, DeviceLabels
  <2>5. QED
    BY <2>1, <2>2, <2>3, <2>4, Zenon DEF TypeOK, NbdTypeOK, StartCall
<1>2. ASSUME NEW h \in Handlers, Timeout(h)
      PROVE  TypeOK'
  BY <1>2, BoundsAssumption DEF TypeOK, NbdTypeOK, Timeout
<1>3. CASE reconcileOrphanedNBDDevices
  <2>1. ASSUME NEW d \in Devices, Examine(d)
        PROVE  TypeOK'
    BY <2>1, Zenon DEF TypeOK, NbdTypeOK, Examine
  <2>2. CASE DetachOrphan
    <3>1. KernelType'
      BY <2>2, BestEffortType, TypeParts, Zenon DEF DetachOrphan
    <3>2. QED
      BY <2>2, <3>1, Zenon DEF TypeOK, NbdTypeOK, KernelType, DetachOrphan
  <2>3. QED
    BY <1>3, <2>1, <2>2, Zenon DEF reconcileOrphanedNBDDevices
<1>4. CASE Restart
  <2>1. <<>> \in Seq(MountSources \cup {HostFs})
    BY EmptySeq, Zenon
  <2>2. QED
    BY <1>4, <2>1, BoundsAssumption
    DEF TypeOK, NbdTypeOK, Restart, NbdFilesLost, HandlersLost, Labels,
        DeviceLabels
<1>5. ASSUME NEW d \in Devices, Expire(d)
      PROVE  TypeOK'
  BY <1>5, Zenon DEF TypeOK, NbdTypeOK, Expire
<1>6. ASSUME NEW v \in Volumes, PodServes(v) \/ PodDies(v)
      PROVE  TypeOK'
  <2>1. /\ pod' \in [Volumes -> {"none", "starting", "serving"}]
        /\ socket' \in [Volumes -> BOOLEAN]
    <3>1. /\ pod \in [Volumes -> {"none", "starting", "serving"}]
          /\ socket \in [Volumes -> BOOLEAN]
      BY Zenon DEF TypeOK
    <3>2. CASE PodServes(v)
      BY <3>1, <3>2, Zenon DEF PodServes
    <3>3. CASE PodDies(v)
      BY <3>1, <3>3 DEF PodDies
    <3>4. QED
      BY <1>6, <3>2, <3>3, Zenon
  <2>2. QED
    BY <1>6, <2>1 DEF TypeOK, NbdTypeOK, PodServes, PodDies
<1>7. QED
  BY <1>1, <1>2, <1>3, <1>4, <1>5, <1>6, Zenon

\* Every step keeps the type invariant.
LEMMA NextType ==
    ASSUME TypeOK, [Next]_vars
    PROVE  TypeOK'
<1>1. CASE UNCHANGED vars
  BY <1>1, Zenon
  DEF vars, nbdFiles, kernel, locals, reconciler, zerofs, caller, TypeOK,
      NbdTypeOK
<1>2. ASSUME NEW h \in Handlers, Step(h)
      PROVE  TypeOK'
  BY <1>2, PublishType, CleanupType, UnpublishType, Zenon DEF Step
<1>3. QED
  BY <1>1, <1>2, EnvironmentType, Zenon DEF Next

\* The type invariant holds of the node service whatever fails: state files,
\* reservations and the handlers' variables name devices and volumes of the
\* node, and a handler works on a device only after it has got one.
THEOREM TypeCorrect == Spec => []TypeOK
<1>1. Init => TypeOK
  BY InitType, Zenon
<1>2. TypeOK /\ [Next]_vars => TypeOK'
  BY NextType, Zenon
<1>3. QED
  BY <1>1, <1>2, PTL DEF Spec

-----------------------------------------------------------------------------
(* The mutex.                                                              *)

\* What a handler's step does to the mutex.
LockMove(h) ==
    /\ \A k \in Handlers \ {h} : pc'[k] = pc[k]
    /\ \/ /\ pc[h] \in CriticalLabels <=> pc'[h] \in CriticalLabels
          /\ nbdMu' = nbdMu
       \/ nbdMu = None /\ nbdMu' = h /\ pc'[h] \in CriticalLabels
       \/ /\ pc[h] \in CriticalLabels /\ pc'[h] \notin CriticalLabels
          /\ nbdMu' = None

\* Only the removal of a stale state file keeps nbdMu from one step of a
\* handler to the next.
LEMMA StepLocks ==
    ASSUME TypeOK, NEW h \in Handlers, Step(h)
    PROVE  LockMove(h)
<1> pc \in [Handlers -> Labels]
  BY Zenon DEF TypeOK
<1> USE DEF At, Goto, Continue, Return, Advance, CriticalLabels, LockMove
<1>1. CASE Check(h) \/ UnmountLingering(h) \/ LockStale(h) \/ DetachStale(h)
           \/ ClearStale(h)
  BY <1>1, Zenon
  DEF Check, UnmountLingering, LockStale, DetachStale, ClearStale
<1>2. CASE CreatePod(h) \/ AwaitPod(h) \/ WaitSocket(h) \/ Mount9P(h)
           \/ CreateDisk(h) \/ Umount9P(h)
  BY <1>2, Zenon
  DEF CreatePod, AwaitPod, WaitSocket, Mount9P, CreateDisk, Umount9P
<1>3. CASE Reserve(h) \/ Connect(h) \/ ClearUnconnected(h) \/ Blkid(h)
           \/ Mkfs(h) \/ MountFs(h) \/ DisconnectFailed(h)
  BY <1>3, Zenon DEF Reserve, Connect, ClearUnconnected, Blkid, Mkfs, MountFs,
     DisconnectFailed
<1>4. CASE Cleanup(h)
  BY <1>4, Zenon DEF Cleanup, CleanupUnmount, CleanupRead, CleanupDetach,
     CleanupState, CleanupReservation, CleanupPod
<1>5. CASE Unpublish(h)
  BY <1>5, Zenon
  DEF Unpublish, FindSource, UmountFs, Recover, Detach, RemovePodOf,
     Clear
<1>6. QED
  BY <1>1, <1>2, <1>3, <1>4, <1>5, Zenon DEF Step, Publish

\* Every step keeps the mutex discipline.
LEMMA NextMutex ==
    ASSUME TypeOK, MutexDiscipline, [Next]_vars
    PROVE  MutexDiscipline'
<1> USE HandlersAssumption DEF MutexDiscipline
<1>1. ASSUME NEW h \in Handlers, Step(h)
      PROVE  MutexDiscipline'
  BY <1>1, StepLocks DEF LockMove
<1>2. ASSUME NEW h \in Handlers, NEW t \in Targets,
             NodePublishVolume(h, t) \/ NodeUnpublishVolume(h, t)
      PROVE  MutexDiscipline'
  <2>1. PICK l \in {"check", "find_source"} : StartCall(h, t, l)
    BY <1>2, Zenon DEF NodePublishVolume, NodeUnpublishVolume
  <2>2. QED
    BY <2>1, Zenon DEF TypeOK, StartCall, At, Goto, CriticalLabels
<1>3. CASE Restart
  BY <1>3, Zenon DEF Restart, HandlersLost, CriticalLabels
<1>4. CASE UNCHANGED <<nbdMu, pc>>
  BY <1>4, Zenon
<1>5. QED
  BY <1>1, <1>2, <1>3, <1>4, Zenon
  DEF Next, Timeout, reconcileOrphanedNBDDevices, Examine, DetachOrphan,
      Expire, PodServes, PodDies, vars

\* The mutex discipline holds whatever fails and however calls interleave:
\* on no path does NodePublishVolume return or go on with nbdMu locked.
THEOREM MutexCorrect == Spec => []MutexDiscipline
<1>1. Init => MutexDiscipline
  BY HandlersAssumption DEF Init, MutexDiscipline, CriticalLabels
<1>2. TypeOK /\ MutexDiscipline /\ [Next]_vars => MutexDiscipline'
  BY NextMutex, Zenon
<1>3. QED
  BY <1>1, <1>2, TypeCorrect, PTL DEF Spec

=============================================================================
