-------------------------- MODULE NodeCleanProofs ---------------------------
(***************************************************************************)
(* What NodePublishVolume and NodeUnpublishVolume leave behind, for every  *)
(* number of volumes, targets, devices and handlers.  CleanInv is kept by  *)
(* every step but a restart, and by a restart at which every device is     *)
(* mounted where it belongs (MountsLinked); that this is so follows, for a *)
(* first restart, from SerialInv, and for later ones, if calls come one at *)
(* a time, from AloneInv.                                                  *)
(***************************************************************************)
EXTENDS NodeHandlerProofs

-----------------------------------------------------------------------------
(* The kubelet and the environment.                                        *)

\* The kubelet calls for a target that no handler works on.
LEMMA CleanCalls ==
    ASSUME CleanEnvironment, CleanInv, TypeOK', NEW h \in Handlers,
           NEW t \in Targets,
           NodePublishVolume(h, t) \/ NodeUnpublishVolume(h, t)
    PROVE  CleanInv'
<1>1. PICK op \in {"publish", "unpublish"}, l \in {"check", "find_source"} :
        Admissible(t, op) /\ StartCall(h, t, l)
  BY Zenon DEF NodePublishVolume, NodeUnpublishVolume
<1>2. /\ UNCHANGED <<volState, conn, mounts, dirs, dev, src, reconciler, pod,
                     restarts>>
      /\ pc[h] = "idle" /\ pc' = [pc EXCEPT ![h] = l]
      /\ tgt' = [tgt EXCEPT ![h] = t] /\ waiting' = waiting \cup {h}
  BY <1>1, Zenon DEF StartCall, At, Goto, nbdFiles, kernel, zerofs
<1>3. \A k \in Handlers : Active(k) => tgt[k] # t
  BY <1>1, Zenon DEF Admissible, CleanInv
<1>4. Settled(t)
  BY <1>3, Zenon DEF CleanInv, Attended
<1>5. EffectsOK(h, t)
  BY <1>2, QuietEffects, Zenon DEF Searching
<1>6. pc \in [Handlers -> Labels] /\ tgt \in [Handlers -> Targets \cup {None}]
      /\ kub \in [Targets -> {"none", "uncertain", "published"}]
  BY Zenon DEF CleanInv, TypeOK
<1>7. pc'[h] = l /\ tgt'[h] = t
  BY <1>2, <1>6, Zenon
<1>8. /\ \/ l = "check" /\ kub'[t] = "published" /\ kub[t] = "published"
         \/ l = "check" /\ kub'[t] = "uncertain" /\ kub[t] # "published"
         \/ l = "find_source" /\ kub'[t] = "uncertain" /\ kub[t] # "none"
      /\ \A u \in Targets \ {t} : kub'[u] = kub[u]
  <2>1. CASE NodePublishVolume(h, t)
    <3>1. /\ kub' = [kub EXCEPT ![t] = IF @ = "published" THEN @
                                       ELSE "uncertain"]
          /\ pc'[h] = "check"
      BY <1>6, <2>1, Zenon DEF NodePublishVolume, StartCall, Goto
    <3>2. QED
      BY <1>6, <1>7, <3>1, Zenon
  <2>2. CASE NodeUnpublishVolume(h, t)
    <3>1. /\ kub' = [kub EXCEPT ![t] = "uncertain"] /\ pc'[h] = "find_source"
          /\ kub[t] # "none"
      BY <1>6, <2>2, Zenon DEF NodeUnpublishVolume, StartCall, Goto
    <3>2. QED
      BY <1>6, <1>7, <3>1, Zenon
  <2>3. QED
    BY <2>1, <2>2, Zenon
<1>9. ControlOK(h, t)
  <2>1. waiting' = {k \in Handlers : pc'[k] # "idle"}
    BY <1>2, <1>6, Zenon DEF CleanInv, Active
  <2>2. QED
    BY <1>2, <1>6, <1>7, <1>8, <2>1, Zenon DEF ControlOK, reconciler
<1>10. HandlerClean(h)'
  <2>1. /\ Bare(t)' <=> Bare(t)
        /\ Begun(t)' <=> Begun(t)
        /\ Held(t)' <=> Held(t)
    BY <1>2, SameTarget, Zenon
  <2>2. Bare(t) => Begun(t)
    BY Zenon DEF Bare, Begun
  <2>3. kub[t] = "none" => Bare(t) /\ pod[VolumeOf[t]] = "none"
    BY <1>4, Zenon DEF Settled, Bare, Unrecorded
  <2>4. kub[t] = "none" \/ kub[t] = "uncertain" \/ kub[t] = "published"
    BY <1>6, Zenon
  <2>5. CASE l = "check"
    <3>1. Settled(t)'
      BY <1>2, <1>4, <1>8, <2>1, <2>3, <2>4, <2>5, Zenon DEF Settled
    <3>2. QED
      BY <1>7, <1>8, <2>5, <3>1, Zenon
      DEF HandlerClean, PublishClean, UnpublishClean, CriticalLabels
  <2>6. CASE l = "find_source"
    <3>1. Begun(t)' \/ Held(t)'
      BY <1>4, <1>8, <2>1, <2>2, <2>4, <2>6, Zenon DEF Settled
    <3>2. QED
      BY <1>7, <1>8, <2>6, <3>1, Zenon
      DEF HandlerClean, PublishClean, UnpublishClean, CriticalLabels
  <2>7. QED
    BY <2>5, <2>6, Zenon
<1>11. QED
  BY <1>2, <1>3, <1>5, <1>7, <1>9, <1>10, CleanAssemble, Zenon DEF Active

\* A step outside the handlers that at most disconnects devices, makes a pod
\* serve or fail, examines devices, or makes a reservation older.
LEMMA OutsideStep ==
    ASSUME CleanInv, TypeOK',
           UNCHANGED <<volState, mounts, dirs, pc, locals, caller, restarts>>,
           \A w \in Volumes : pod[w] = "none" => pod'[w] = "none",
           \A d \in Devices : conn'[d] \in {conn[d], None, Dead},
           scan' \subseteq scan, restarts = 0 => orphan' = None,
           \A w \in Volumes, d \in Devices : conn'[d] = w => Tied(w, d)'
    PROVE  CleanInv'
<1> USE DEF locals, caller
<1>1. \A d \in Devices : LinkRecorded(d) => LinkRecorded(d)'
  BY SentinelsAssumption, Zenon DEF LinkRecorded
<1>2. ASSUME NEW t \in Targets
      PROVE  /\ Bare(t)' <=> Bare(t)
             /\ Begun(t)' <=> Begun(t)
             /\ Held(t)' <=> Held(t)
             /\ \A d \in Devices : /\ Holds(t, d)' <=> Holds(t, d)
                                   /\ TakenOff(t, d)' <=> TakenOff(t, d)
                                   /\ conn[d] # VolumeOf[t] =>
                                         conn'[d] # VolumeOf[t]
             /\ pod[VolumeOf[t]] = "none" => pod'[VolumeOf[t]] = "none"
             /\ mounts'[t] = mounts[t]
             /\ volState'[VolumeOf[t]] = volState[VolumeOf[t]]
  BY OwnVolume, SameTarget, Zenon
<1>3. \A t \in Targets : Settled(t) => Settled(t)'
  BY <1>2, Zenon DEF Settled
<1>4. ASSUME NEW h \in Handlers, Active(h)
      PROVE  HandlerClean(h)'
  <2>1. PICK t \in Targets : tgt[h] = t /\ tgt'[h] = t
    BY <1>4, Zenon DEF CleanInv, TypeOK, Active
  <2>2. HandlerClean(h) /\ (pc[h] \in DeviceLabels => dev[h] \in Devices)
    BY <1>4, Zenon DEF CleanInv, TypeOK
  <2>3. PublishClean(h)'
    <3>1. PublishClean(h)
      BY <2>2, Zenon DEF HandlerClean
    <3>2. dev[h] \in Devices /\ LinkRecorded(dev[h]) => LinkRecorded(dev[h])'
      <4> SUFFICES ASSUME dev[h] \in Devices, LinkRecorded(dev[h])
                   PROVE  LinkRecorded(dev[h])'
        BY Zenon
      <4>1. PICK d \in Devices : d = dev[h]
        BY Zenon
      <4>2. LinkRecorded(d)'
        BY <1>1, <4>1, Zenon
      <4>3. QED
        BY <4>1, <4>2, Zenon DEF LinkRecorded
    <3>3. /\ Settled(t) => Settled(t)'
          /\ Bare(t)' <=> Bare(t)
          /\ Begun(t)' <=> Begun(t)
          /\ mounts'[t] = mounts[t]
          /\ volState'[VolumeOf[t]] = volState[VolumeOf[t]]
          /\ pc'[h] = pc[h] /\ dev'[h] = dev[h]
      BY <1>2, <1>3, Zenon
    <3>4. dev[h] \in Devices /\ conn[dev[h]] # VolumeOf[t] =>
             conn'[dev[h]] # VolumeOf[t]
      BY <1>2, Zenon
    <3>5. QED
      BY <2>1, <2>2, <3>1, <3>2, <3>3, <3>4, ZenonT(30)
      DEF PublishClean, DeviceLabels, Recorded
  <2>4. UnpublishClean(h)'
    <3>1. UnpublishClean(h)
      BY <2>2, Zenon DEF HandlerClean
    <3>2. /\ Bare(t)' <=> Bare(t)
          /\ Begun(t)' <=> Begun(t)
          /\ Held(t)' <=> Held(t)
          /\ \A d \in Devices : /\ Holds(t, d)' <=> Holds(t, d)
                                /\ TakenOff(t, d)' <=> TakenOff(t, d)
                                /\ conn[d] # VolumeOf[t] =>
                                      conn'[d] # VolumeOf[t]
          /\ pod[VolumeOf[t]] = "none" => pod'[VolumeOf[t]] = "none"
          /\ mounts'[t] = mounts[t]
          /\ volState'[VolumeOf[t]] = volState[VolumeOf[t]]
          /\ pc'[h] = pc[h] /\ src'[h] = src[h]
      BY <1>2, Zenon
    <3>3. QED
      BY <2>1, <3>1, <3>2, ZenonT(30) DEF UnpublishClean
  <2>5. QED
    BY <2>2, <2>3, <2>4, Zenon DEF HandlerClean
<1>5. \A h \in Handlers : Active(h)' <=> Active(h)
  BY Zenon DEF Active
<1>6. \A t \in Targets : ~Attended(t)' => Settled(t)'
  BY <1>3, <1>5, Zenon DEF Attended, CleanInv
<1>7. ASSUME NEW t \in Targets, NEW d \in scan', mounts'[t] = <<d>>
      PROVE  conn'[d] = VolumeOf[t] \/ LinkRecorded(d)'
  <2>1. d \in scan /\ d \in Devices
    BY Zenon DEF CleanInv, TypeOK
  <2>2. conn[d] = VolumeOf[t] \/ LinkRecorded(d)
    BY <1>7, <2>1, Zenon DEF CleanInv
  <2>3. CASE conn'[d] = conn[d]
    BY <1>1, <2>1, <2>2, <2>3, Zenon
  <2>4. CASE conn'[d] \in {None, Dead}
    BY <2>4, SentinelsAssumption, Zenon DEF LinkRecorded
  <2>5. QED
    BY <2>1, <2>3, <2>4, Zenon
<1>8. restarts' = 0 => scan' = {} /\ orphan' = None
  BY Zenon DEF CleanInv
<1>9. QED
  BY <1>4, <1>5, <1>6, <1>7, <1>8, Zenon DEF CleanInv

\* A target carries no mount, the mount of ZeroFS' export, or that of one
\* device; if the kubelet holds it for published, that of a device.
LEMMA MountsSingle ==
    ASSUME CleanInv, NEW t \in Targets
    PROVE  /\ \/ mounts[t] \in {<<>>, <<NineP>>}
              \/ \E d \in Devices : mounts[t] = <<d>>
           /\ kub[t] = "published" => \E d \in Devices : mounts[t] = <<d>>
           /\ kub[t] = "none" => ~Attended(t)
<1>1. ASSUME Settled(t)
      PROVE  /\ \/ mounts[t] \in {<<>>, <<NineP>>}
                \/ \E d \in Devices : mounts[t] = <<d>>
             /\ kub[t] = "published" => \E d \in Devices : mounts[t] = <<d>>
  <2>1. kub[t] \in {"none", "uncertain", "published"}
    BY Zenon DEF CleanInv, TypeOK
  <2>2. QED
    BY <1>1, <2>1, Zenon DEF Settled, Bare, Begun, Held, Holds
<1>2. ASSUME NEW h \in Handlers, Active(h), tgt[h] = t
      PROVE  /\ \/ mounts[t] \in {<<>>, <<NineP>>}
                \/ \E d \in Devices : mounts[t] = <<d>>
             /\ kub[t] = "published" => \E d \in Devices : mounts[t] = <<d>>
             /\ kub[t] # "none"
  <2>1. HandlerClean(h) /\ pc[h] \in Labels
    BY <1>2, Zenon DEF CleanInv, TypeOK
  <2>2. kub[t] # "none" /\ (kub[t] = "published" => pc[h] = "check")
    BY <1>2, <2>1, Zenon DEF HandlerClean
  <2>3. CASE pc[h] = "check"
    BY <1>1, <1>2, <2>1, <2>2, <2>3, Zenon DEF HandlerClean, PublishClean
  <2>4. CASE pc[h] \in PublishLabels \ {"check"}
    BY <1>2, <2>1, <2>2, <2>4, Zenon
    DEF HandlerClean, PublishClean, PublishLabels, CriticalLabels, Bare, Begun
  <2>5. CASE pc[h] \in UnpublishLabels
    BY <1>2, <2>1, <2>2, <2>5, Zenon
    DEF HandlerClean, UnpublishClean, UnpublishLabels, Bare, Begun, Held,
        Holds, TakenOff
  <2>6. QED
    BY <1>2, <2>1, <2>3, <2>4, <2>5, Zenon DEF Labels, Active
<1>3. CASE Attended(t)
  BY <1>2, <1>3, Zenon DEF Attended
<1>4. CASE ~Attended(t)
  BY <1>1, <1>4, Zenon DEF CleanInv
<1>5. QED
  BY <1>3, <1>4, Zenon

\* The reconciler passes over a device that is mounted: the mount leads to
\* its connection, or a state file does.
LEMMA CleanExamine ==
    ASSUME CleanEnvironment, CleanInv, TypeOK', NEW d \in Devices, Examine(d)
    PROVE  CleanInv'
<1>1. /\ UNCHANGED <<volState, conn, mounts, dirs, pc, locals, caller, pod,
                     restarts>>
      /\ orphan = None /\ d \in scan /\ scan' = scan \ {d}
  BY Zenon DEF Examine, nbdFiles, kernel, zerofs
<1>2. MaxRestarts # 0
  BY <1>1 DEF CleanInv, TypeOK
<1>3. orphan' = d \/ conn[d] = None \/ MountedSomewhere(d)
  BY <1>2, Zenon DEF Examine, CleanEnvironment, Fails, isNBDConnected
<1>4. ASSUME NEW w \in Volumes, NEW e \in Devices, conn'[e] = w
      PROVE  Tied(w, e)'
  <2>1. conn[e] = w /\ Tied(w, e) /\ e # None
    BY <1>1, <1>4, SentinelsAssumption, Zenon DEF CleanInv
  <2>2. CASE volState[w] = e
    BY <1>1, <2>2, Zenon DEF Tied
  <2>3. CASE \E t \in Targets : VolumeOf[t] = w /\ mounts[t] = <<e>>
    BY <1>1, <2>3, Zenon DEF Tied
  <2>4. CASE \E h \in Handlers : /\ pc[h] \in {"recover", "detach"}
                                 /\ Volume(h) = w /\ src[h] = <<e>>
    BY <1>1, <2>4, Zenon DEF Tied, Volume, locals
  <2>5. CASE e \in scan /\ e # d
    BY <1>1, <2>5, Zenon DEF Tied
  <2>6. CASE e = d /\ orphan' = d
    BY <2>6, Zenon DEF Tied
  <2>7. CASE e = d /\ MountedSomewhere(d)
    <3>1. PICK t \in Targets : \E i \in DOMAIN mounts[t] : mounts[t][i] = d
      BY <2>7, Zenon DEF MountedSomewhere
    <3>2. mounts[t] = <<d>>
      <4>1. mounts[t] # <<>> /\ mounts[t] # <<NineP>>
        BY <3>1, SentinelsAssumption
      <4>2. PICK f \in Devices : mounts[t] = <<f>>
        BY <4>1, MountsSingle, Zenon
      <4>3. QED
        BY <3>1, <4>2
    <3>3. conn[d] = VolumeOf[t] \/ LinkRecorded(d)
      BY <1>1, <3>2, Zenon DEF CleanInv
    <3>4. QED
      BY <2>1, <2>2, <2>3, <2>7, <3>2, <3>3, Zenon DEF LinkRecorded
  <2>8. QED
    BY <1>1, <1>3, <2>1, <2>2, <2>3, <2>4, <2>5, <2>6, <2>7,
       SentinelsAssumption, Zenon DEF Tied
<1>5. restarts = 0 => orphan' = None
  BY <1>1, Zenon DEF CleanInv
<1>6. \A e \in Devices : conn'[e] \in {conn[e], None, Dead}
  BY <1>1, Zenon
<1>7. scan' \subseteq scan
  BY <1>1, Zenon
<1>8. QED
  BY <1>1, <1>4, <1>5, <1>6, <1>7, OutsideStep, Zenon

\* The reconciler disconnects an orphan.
LEMMA CleanDetachOrphan ==
    ASSUME CleanEnvironment, CleanInv, TypeOK', DetachOrphan
    PROVE  CleanInv'
<1>1. /\ UNCHANGED <<volState, mounts, dirs, pc, locals, caller, pod, scan,
                     restarts>>
      /\ orphan # None /\ orphan' = None /\ Disconnect(orphan)
  BY Zenon
  DEF DetachOrphan, detachNBDDeviceBestEffort, Disconnect, CleanEnvironment,
      Fails, nbdFiles, zerofs
<1>2. PICK d \in Devices : d = orphan
  BY <1>1, Zenon DEF CleanInv, TypeOK
<1>3. conn'[d] \in {None, Dead} /\ \A e \in Devices \ {d} : conn'[e] = conn[e]
  <2>1. conn \in [Devices -> Volumes \cup {None, Dead}]
    BY Zenon DEF CleanInv, TypeOK, NbdTypeOK
  <2>2. QED
    BY <1>1, <1>2, <2>1, Zenon DEF Disconnect
<1>4. ASSUME NEW w \in Volumes, NEW e \in Devices, conn'[e] = w
      PROVE  Tied(w, e)'
  <2>1. e # d /\ conn[e] = w
    BY <1>3, <1>4, SentinelsAssumption, Zenon
  <2>2. Tied(w, e)
    BY <2>1, Zenon DEF CleanInv
  <2>3. QED
    BY <1>1, <1>2, <2>1, <2>2, Zenon DEF Tied, Volume, locals
<1>5. \A e \in Devices : conn'[e] \in {conn[e], None, Dead}
  BY <1>3, Zenon
<1>6. QED
  BY <1>1, <1>4, <1>5, OutsideStep, Zenon

\* A restart loses the state files; the reconciler is about to examine every
\* device.
LEMMA CleanRestart ==
    ASSUME CleanInv, TypeOK', Restart, MountsLinked
    PROVE  CleanInv'
<1>1. /\ UNCHANGED <<conn, mounts, dirs, pod, kub>>
      /\ scan' = Devices /\ waiting' = {}
      /\ \A w \in Volumes : volState'[w] = None
      /\ \A h \in Handlers : ~Active(h)'
  BY Zenon DEF Restart, NbdFilesLost, HandlersLost, Active, kernel, zerofs
<1>2. restarts' # 0
  BY DEF Restart, CleanInv, TypeOK
<1>3. ASSUME NEW t \in Targets
      PROVE  Settled(t)'
  <2>1. Unrecorded(VolumeOf[t])' /\ volState'[VolumeOf[t]] = None
    BY <1>1, OwnVolume, Zenon DEF Unrecorded
  <2>2. /\ \/ mounts[t] \in {<<>>, <<NineP>>}
           \/ \E d \in Devices : mounts[t] = <<d>>
        /\ kub[t] = "published" => \E d \in Devices : mounts[t] = <<d>>
        /\ kub[t] = "none" => ~Attended(t)
    BY MountsSingle, Zenon
  <2>3. Begun(t)' \/ Held(t)'
    BY <1>1, <2>1, <2>2, Zenon DEF Begun, Held, Holds
  <2>4. kub[t] = "published" => Held(t)'
    BY <1>1, <2>1, <2>2, Zenon DEF Held, Holds
  <2>5. kub[t] = "none" => mounts[t] = <<>> /\ pod[VolumeOf[t]] = "none"
    BY <2>2, Zenon DEF CleanInv, Settled
  <2>6. QED
    BY <1>1, <1>2, <2>1, <2>3, <2>4, <2>5, Zenon DEF Settled
<1>4. ASSUME NEW t \in Targets, NEW d \in scan', mounts'[t] = <<d>>
      PROVE  conn'[d] = VolumeOf[t] \/ LinkRecorded(d)'
  BY <1>1, <1>4, SentinelsAssumption, Zenon DEF MountsLinked, LinkRecorded
<1>5. \A w \in Volumes, d \in Devices : Tied(w, d)'
  BY <1>1, Zenon DEF Tied
<1>6. waiting' = {h \in Handlers : Active(h)'}
  BY <1>1, Zenon
<1>7. QED
  BY <1>1, <1>2, <1>3, <1>4, <1>5, <1>6, Zenon DEF CleanInv

\* Every step keeps the invariant, a restart if every device is mounted
\* where it belongs.
LEMMA NextClean ==
    ASSUME CleanEnvironment, CleanInv, [Next]_vars, Restart => MountsLinked
    PROVE  CleanInv'
<1>1. TypeOK /\ TypeOK'
  BY NextType, Zenon DEF CleanInv
<1>2. ASSUME NEW h \in Handlers, Step(h)
      PROVE  CleanInv'
  BY <1>1, <1>2, CleanFirst, CleanLater, CleanCleanup, CleanUnpublish, Zenon
  DEF Step, Publish
<1>3. ASSUME NEW h \in Handlers, NEW t \in Targets,
             NodePublishVolume(h, t) \/ NodeUnpublishVolume(h, t)
      PROVE  CleanInv'
  BY <1>1, <1>3, CleanCalls, Zenon
<1>4. ASSUME NEW h \in Handlers, Timeout(h)
      PROVE  FALSE
  BY <1>1, <1>4 DEF Timeout, TypeOK, CleanEnvironment
<1>5. CASE reconcileOrphanedNBDDevices
  BY <1>1, <1>5, CleanExamine, CleanDetachOrphan, Zenon
  DEF reconcileOrphanedNBDDevices
<1>6. CASE Restart
  BY <1>1, <1>6, CleanRestart, Zenon
<1>7. ASSUME UNCHANGED <<volState, kernel, pc, locals, reconciler, caller,
                         restarts>>,
             \A w \in Volumes : pod[w] = "none" => pod'[w] = "none"
      PROVE  CleanInv'
  <2>1. UNCHANGED <<conn, mounts, dirs, tgt, src, scan, orphan>>
    BY <1>7, Zenon DEF kernel, locals, reconciler
  <2>2. ASSUME NEW w \in Volumes, NEW d \in Devices, conn'[d] = w
        PROVE  Tied(w, d)'
    <3>1. Tied(w, d)
      BY <2>1, <2>2, Zenon DEF CleanInv
    <3>2. QED
      BY <1>7, <2>1, <3>1, Zenon DEF Tied, Volume
  <2>3. restarts = 0 => orphan' = None
    BY <2>1, Zenon DEF CleanInv
  <2>4. /\ \A d \in Devices : conn'[d] \in {conn[d], None, Dead}
        /\ scan' \subseteq scan
    BY <2>1, Zenon
  <2>5. QED
    BY <1>1, <1>7, <2>1, <2>2, <2>3, <2>4, OutsideStep, Zenon
<1>8. ASSUME NEW d \in Devices, Expire(d)
      PROVE  CleanInv'
  BY <1>7, <1>8, Zenon DEF Expire, zerofs
<1>9. ASSUME NEW v \in Volumes, PodServes(v) \/ PodDies(v)
      PROVE  CleanInv'
  <2>1. PICK state : pod[v] # "none" /\ pod' = [pod EXCEPT ![v] = state]
    BY <1>9, Zenon DEF PodServes, PodDies
  <2>2. pod \in [Volumes -> {"none", "starting", "serving"}]
    BY <1>1, Zenon DEF TypeOK
  <2>3. \A w \in Volumes : pod[w] = "none" => pod'[w] = "none"
    BY <2>1, <2>2
  <2>4. QED
    BY <1>7, <1>9, <2>3, Zenon DEF PodServes, PodDies, nbdFiles
<1>10. CASE UNCHANGED vars
  BY <1>7, <1>10, Zenon DEF vars, nbdFiles, zerofs
<1>11. QED
  BY <1>2, <1>3, <1>4, <1>5, <1>6, <1>8, <1>9, <1>10, Zenon DEF Next

-----------------------------------------------------------------------------
(* What the invariant says of the volumes.                                 *)

\* Initially it holds.
LEMMA InitClean == Init => CleanInv
<1> SUFFICES ASSUME Init PROVE CleanInv
  BY Zenon
<1>1. TypeOK
  BY InitType, Zenon
<1>2. \A t \in Targets : Settled(t)
  BY OwnVolume, Zenon DEF Init, NbdInit, Settled
<1>3. \A h \in Handlers : ~Active(h)
  BY Zenon DEF Init, Active
<1>4. \A v \in Volumes, d \in Devices : conn[d] # v
  BY SentinelsAssumption, Zenon DEF Init, NbdInit
<1>5. QED
  BY <1>1, <1>2, <1>3, <1>4, Zenon DEF Init, NbdInit, CleanInv

\* Nothing is left of a volume that no handler works for, once the
\* reconciler has finished, if its target carries nothing.
LEMMA CleanVolume ==
    ASSUME CleanInv, NEW v \in Volumes, Idle(v), scan = {}, orphan = None,
           \A t \in Targets : VolumeOf[t] = v =>
               mounts[t] = <<>> /\ volState[v] = None /\ pod[v] = "none"
    PROVE  Clean(v)
<1>1. volState[v] = None /\ pod[v] = "none"
  BY Zenon DEF CleanInv
<1>2. ASSUME NEW d \in Devices, conn[d] = v
      PROVE  FALSE
  <2>1. Tied(v, d) /\ d # None
    BY <1>2, SentinelsAssumption, Zenon DEF CleanInv
  <2>2. \A t \in Targets : VolumeOf[t] = v => mounts[t] # <<d>>
    BY <1>2
  <2>3. \A h \in Handlers : pc[h] # "idle" => Volume(h) # v
    BY Zenon DEF Idle
  <2>4. QED
    BY <1>1, <2>1, <2>2, <2>3, Zenon DEF Tied
<1>3. QED
  BY <1>1, <1>2, Zenon DEF Clean

\* The target of such a volume is as the kubelet knows it.
LEMMA IdleSettled ==
    ASSUME CleanInv, NEW t \in Targets, Idle(VolumeOf[t])
    PROVE  Settled(t) /\ kub[t] \in {"none", "uncertain", "published"}
  BY Zenon DEF CleanInv, TypeOK, Attended, Active, Idle, Volume

\* NodeUnpublishVolume leaves nothing behind.
LEMMA UnpublishedClean ==
    ASSUME CleanInv
    PROVE  UnpublishedIsClean
<1> SUFFICES ASSUME NEW v \in Volumes, Idle(v), Reconciled,
                    \A t \in Targets : VolumeOf[t] = v => kub[t] = "none"
             PROVE  Clean(v)
  BY Zenon DEF UnpublishedIsClean
<1>1. ASSUME NEW t \in Targets, VolumeOf[t] = v
      PROVE  mounts[t] = <<>> /\ volState[v] = None /\ pod[v] = "none"
  <2>1. Settled(t) /\ kub[t] = "none"
    BY <1>1, IdleSettled, Zenon
  <2>2. QED
    BY <1>1, <2>1, Zenon DEF Settled
<1>2. QED
  BY <1>1, CleanVolume, Zenon DEF Reconciled

\* Nor does a NodePublishVolume that fails, as long as the plugin is not
\* restarted and state files can be written.
LEMMA FailedClean ==
    ASSUME CleanInv, restarts = 0, "write_state" \notin Faults
    PROVE  FailedPublishIsClean
<1> SUFFICES ASSUME NEW v \in Volumes, Idle(v),
                    \A t \in Targets :
                        VolumeOf[t] = v => kub[t] # "published"
             PROVE  Clean(v)
  BY Zenon DEF FailedPublishIsClean
<1>1. ASSUME NEW t \in Targets, VolumeOf[t] = v
      PROVE  mounts[t] = <<>> /\ volState[v] = None /\ pod[v] = "none"
  <2>1. Settled(t) /\ kub[t] \in {"none", "uncertain"}
    BY <1>1, IdleSettled, Zenon
  <2>2. QED
    BY <1>1, <2>1, Zenon DEF Settled, Bare, Unrecorded, Fails
<1>2. scan = {} /\ orphan = None
  BY Zenon DEF CleanInv
<1>3. QED
  BY <1>1, <1>2, CleanVolume, Zenon

-----------------------------------------------------------------------------
(* Without restarts.                                                       *)

\* CleanInv is an invariant of the node service, for any number of calls at
\* a time, if publishing may fail at every step but cleaning up does not.
THEOREM CleanCorrect ==
    ASSUME CleanEnvironment, MaxRestarts = 0
    PROVE  Spec => []CleanInv
<1>1. Init => CleanInv
  BY InitClean, Zenon
<1>2. TypeOK => ~Restart
  BY DEF TypeOK, Restart
<1>3. CleanInv /\ [Next]_vars => CleanInv'
  BY <1>2, NextClean, Zenon DEF CleanInv
<1>4. QED
  BY <1>1, <1>3, PTL DEF Spec

\* A NodePublishVolume that fails, at whatever step, leaves no mount, no
\* connection, no state file and no pod of its volume.
THEOREM FailedPublishCorrect ==
    ASSUME CleanEnvironment, MaxRestarts = 0, "write_state" \notin Faults
    PROVE  Spec => []FailedPublishIsClean
<1>1. CleanInv => FailedPublishIsClean
  <2>1. CleanInv => restarts = 0
    BY DEF CleanInv, TypeOK
  <2>2. QED
    BY <2>1, FailedClean, Zenon
<1>2. QED
  BY <1>1, CleanCorrect, PTL

-----------------------------------------------------------------------------
(* With one restart.                                                       *)

\* Until then every device is mounted where it belongs.
LEMMA SerialLinked ==
    ASSUME SerialInv
    PROVE  MountsLinked
<1> SUFFICES ASSUME NEW t \in Targets, NEW d \in Devices, mounts[t] = <<d>>
             PROVE  conn[d] = VolumeOf[t]
  BY Zenon DEF MountsLinked
<1>1. mounts[t] # <<>> /\ mounts[t] # <<NineP>>
  BY SentinelsAssumption
<1>2. PICK e \in Devices : mounts[t] = <<e>> /\ conn[e] = VolumeOf[t]
  BY <1>1, MountsOwned, Zenon DEF Served, Linked
<1>3. e = d
  BY <1>2
<1>4. QED
  BY <1>2, <1>3, Zenon

\* CleanInv is an invariant of the node service, for any number of calls at
\* a time, if the plugin restarts once and nothing after the connection of
\* a device fails; after NodeUnpublishVolume and the reconciler nothing of
\* the volume is left.
THEOREM RestartedCorrect ==
    ASSUME CleanEnvironment, SerialFaults, MaxRestarts <= 1
    PROVE  Spec => [](CleanInv /\ UnpublishedIsClean)
<1>1. Init => CleanInv
  BY InitClean, Zenon
<1>2. CleanInv /\ (restarts = 0 => SerialInv) /\ [Next]_vars => CleanInv'
  <2> SUFFICES ASSUME CleanInv, restarts = 0 => SerialInv, [Next]_vars
               PROVE  CleanInv'
    BY Zenon
  <2>1. Restart => restarts = 0
    BY BoundsAssumption DEF Restart, CleanInv, TypeOK
  <2>2. QED
    BY <2>1, NextClean, SerialLinked, Zenon
<1>3. CleanInv => UnpublishedIsClean
  BY UnpublishedClean, Zenon
<1>4. QED
  BY <1>1, <1>2, <1>3, SerialUntilRestart, PTL DEF Spec

-----------------------------------------------------------------------------
(* With any number of restarts, if calls come one at a time.               *)

\* What a handler's step does in the kernel.
LEMMA KernelStep ==
    ASSUME NEW h \in Handlers, Step(h)
    PROVE  \/ UNCHANGED <<conn, mounts>>
           \/ Unmount(tgt[h])
           \/ Mount(tgt[h], NineP)
           \/ /\ Mount(tgt[h], dev[h]) /\ Live(dev[h])
              /\ pc[h] = "mount_fs" /\ UNCHANGED volState
           \/ /\ conn' = [conn EXCEPT ![dev[h]] = Volume(h)]
              /\ conn[dev[h]] = None /\ UNCHANGED mounts
           \/ pc[h] \in DeviceLabels /\ Disconnect(dev[h])
           \/ /\ DeviceArgument(src[h]) # None
              /\ Disconnect(DeviceArgument(src[h]))
<1> USE DEF kernel, nbdFiles, At
<1>1. CASE Publish(h)
  <2>1. CASE Check(h) \/ UnmountLingering(h) \/ LockStale(h) \/ DetachStale(h)
             \/ ClearStale(h) \/ CreatePod(h) \/ AwaitPod(h) \/ WaitSocket(h)
             \/ Mount9P(h)
    BY <2>1, Zenon
    DEF Check, UnmountLingering, LockStale, DetachStale, ClearStale,
        CreatePod, AwaitPod, WaitSocket, Mount9P, Advance, unmountBestEffort,
        UnmountFails, detachNBDDeviceBestEffort, DeviceLabels
  <2>2. CASE CreateDisk(h) \/ Umount9P(h) \/ Reserve(h) \/ Connect(h)
             \/ ClearUnconnected(h) \/ Blkid(h) \/ Mkfs(h) \/ MountFs(h)
             \/ DisconnectFailed(h)
    BY <2>2, Zenon
    DEF CreateDisk, Umount9P, Reserve, Connect, ClearUnconnected, Blkid, Mkfs,
        MountFs, DisconnectFailed, Advance, UnmountFails, DeviceLabels
  <2>3. QED
    BY <1>1, <2>1, <2>2, Zenon DEF Publish
<1>2. CASE Cleanup(h)
  BY <1>2, Zenon
  DEF Cleanup, CleanupUnmount, CleanupRead, CleanupDetach, CleanupState,
      CleanupReservation, CleanupPod, unmountBestEffort, UnmountFails,
      detachNBDDeviceBestEffort, DeviceLabels
<1>3. CASE Unpublish(h)
  BY <1>3, Zenon
  DEF Unpublish, FindSource, UmountFs, Recover, Detach, RemovePodOf, Clear,
      UnmountFails
<1>4. QED
  BY <1>1, <1>2, <1>3, Zenon DEF Step

\* What it does to the state files.
LEMMA FilesStep ==
    ASSUME NEW h \in Handlers, Step(h), pc[h] \notin CriticalLabels
    PROVE  \/ UNCHANGED nbdFiles
           \/ /\ pc[h] = "reserve" /\ UNCHANGED <<conn, mounts>>
              /\ \E unreadable :
                    \/ \E d \in Devices :
                          reserveNBDDevice(Volume(h), d, unreadable)
                    \/ ReserveFails(Volume(h), unreadable)
           \/ /\ pc[h] = "clear_unconnected" /\ UNCHANGED mounts
              /\ clearVolumeNBDState(Volume(h), dev[h])
           \/ /\ pc[h] = "cleanup_state" /\ UNCHANGED mounts
              /\ RemoveVolumeFile(Volume(h)) /\ UNCHANGED <<reservation, expired>>
           \/ /\ pc[h] = "cleanup_reservation" /\ UNCHANGED <<volState, mounts>>
              /\ RemoveReservation(dev[h])
           \/ /\ pc[h] = "clear" /\ UNCHANGED mounts
              /\ clearVolumeNBDState(Volume(h), ReservationArgument(src[h]))
<1> USE DEF kernel, At
<1>1. CASE Publish(h)
  <2>1. CASE Check(h) \/ UnmountLingering(h) \/ LockStale(h) \/ DetachStale(h)
             \/ ClearStale(h) \/ CreatePod(h) \/ AwaitPod(h) \/ WaitSocket(h)
             \/ Mount9P(h)
    BY <2>1, Zenon
    DEF Check, UnmountLingering, LockStale, DetachStale, ClearStale,
        CreatePod, AwaitPod, WaitSocket, Mount9P, Advance, CriticalLabels
  <2>2. CASE CreateDisk(h) \/ Umount9P(h) \/ Reserve(h) \/ Connect(h)
             \/ ClearUnconnected(h) \/ Blkid(h) \/ Mkfs(h) \/ MountFs(h)
             \/ DisconnectFailed(h)
    BY <2>2, Zenon
    DEF CreateDisk, Umount9P, Reserve, Connect, ClearUnconnected, Blkid, Mkfs,
        MountFs, DisconnectFailed, Advance
  <2>3. QED
    BY <1>1, <2>1, <2>2, Zenon DEF Publish
<1>2. CASE Cleanup(h)
  BY <1>2, Zenon
  DEF Cleanup, CleanupUnmount, CleanupRead, CleanupDetach, CleanupState,
      CleanupReservation, CleanupPod
<1>3. CASE Unpublish(h)
  BY <1>3, Zenon
  DEF Unpublish, FindSource, UmountFs, Recover, Detach, RemovePodOf, Clear
<1>4. QED
  BY <1>1, <1>2, <1>3, Zenon DEF Step

\* The labels of a handler that AloneInv speaks of are reached by few steps.
LEMMA Arrivals ==
    ASSUME TypeOK, NEW h \in Handlers, Step(h)
    PROVE  /\ pc'[h] \in {"blkid", "mkfs", "mount_fs"} =>
                 Connect(h) \/ Blkid(h) \/ Mkfs(h)
           /\ pc'[h] = "cleanup_reservation" => CleanupState(h)
           /\ pc'[h] \in UnpublishLabels \ {"find_source"} =>
                 \/ FindSource(h) \/ UmountFs(h) \/ Recover(h) \/ Detach(h)
                 \/ RemovePodOf(h)
<1>1. \A l : Goto(h, l) => pc'[h] = l
  BY Zenon DEF TypeOK, Goto
<1> USE DEF UnpublishLabels
<1>2. CASE Publish(h)
  <2>1. CASE Check(h) \/ UnmountLingering(h) \/ LockStale(h) \/ DetachStale(h)
             \/ ClearStale(h) \/ CreatePod(h)
    <3>1. pc'[h] \in {"idle", "unmount_lingering", "lock_stale", "create_pod",
                      "detach_stale", "clear_stale", "await_pod",
                      "cleanup_unmount"}
      BY <1>1, <2>1, Zenon
      DEF Check, UnmountLingering, LockStale, DetachStale, ClearStale,
          CreatePod, Continue, Return
    <3>2. QED
      BY <3>1, Zenon
  <2>2. CASE AwaitPod(h) \/ WaitSocket(h) \/ Mount9P(h) \/ CreateDisk(h)
             \/ Umount9P(h) \/ Reserve(h)
    <3>1. pc'[h] \in {"wait_socket", "mount_9p", "create_disk", "umount_9p",
                      "reserve", "connect", "cleanup_unmount"}
      BY <1>1, <2>2, Zenon
      DEF AwaitPod, WaitSocket, Mount9P, CreateDisk, Umount9P, Reserve,
          Advance, Continue
    <3>2. QED
      BY <3>1, Zenon
  <2>3. CASE ClearUnconnected(h) \/ MountFs(h) \/ DisconnectFailed(h)
    <3>1. pc'[h] \in {"idle", "disconnect", "cleanup_unmount"}
      BY <1>1, <2>3, Zenon
      DEF ClearUnconnected, MountFs, DisconnectFailed, Continue, Return
    <3>2. QED
      BY <3>1, Zenon
  <2>4. CASE Connect(h) \/ Blkid(h) \/ Mkfs(h)
    <3>1. pc'[h] \in {"blkid", "mkfs", "mount_fs", "disconnect",
                      "clear_unconnected"}
      BY <1>1, <2>4, Zenon DEF Connect, Blkid, Mkfs, Advance, Continue
    <3>2. QED
      BY <2>4, <3>1, Zenon
  <2>5. QED
    BY <1>2, <2>1, <2>2, <2>3, <2>4, Zenon DEF Publish
<1>3. CASE Cleanup(h)
  <2>1. CASE CleanupState(h)
    BY <1>1, <2>1, Zenon DEF CleanupState, Continue
  <2>2. CASE ~CleanupState(h)
    <3>1. pc'[h] \in {"idle", "cleanup_read", "cleanup_pod", "cleanup_detach",
                      "cleanup_state"}
      BY <1>1, <1>3, <2>2, Zenon
      DEF Cleanup, CleanupUnmount, CleanupRead, CleanupDetach,
          CleanupReservation, CleanupPod, Continue, Return
    <3>2. QED
      BY <3>1, Zenon
  <2>3. QED
    BY <2>1, <2>2, Zenon
<1>4. CASE Unpublish(h)
  <2>1. CASE Clear(h)
    BY <1>1, <2>1, Zenon DEF Clear, Return
  <2>2. CASE ~Clear(h)
    <3>1. pc'[h] \in {"umount_fs", "recover", "detach", "remove_pod", "clear"}
      BY <1>1, <1>4, <2>2, Zenon
      DEF Unpublish, FindSource, UmountFs, Recover, Detach, RemovePodOf,
          Continue
    <3>2. QED
      BY <1>4, <2>2, <3>1, Zenon DEF Unpublish
  <2>3. QED
    BY <2>1, <2>2, Zenon
<1>5. QED
  BY <1>2, <1>3, <1>4, Zenon DEF Step

\* A mount changes the target's mounts to those of one device only if that is
\* the device it mounts.
LEMMA MountAdds ==
    ASSUME CleanInv, NEW t \in Targets, NEW s, Mount(t, s),
           NEW u \in Targets, NEW d \in Devices, mounts'[u] = <<d>>
    PROVE  mounts[u] = <<d>> \/ (u = t /\ d = s)
<1>1. mounts' = [mounts EXCEPT ![t] = Append(mounts[t], s)]
  BY Zenon DEF Mount
<1>2. CASE u # t
  BY <1>1, <1>2, Zenon DEF CleanInv, TypeOK, NbdTypeOK
<1>3. CASE u = t
  <2>1. Append(mounts[t], s) = <<d>> /\ mounts[t] \in Seq(MountSources)
    BY <1>1, <1>3, Zenon DEF CleanInv, TypeOK, NbdTypeOK
  <2>2. mounts[t] = <<>>
    <3>1. mounts[t] = <<>> \/ \E e : mounts[t] = <<e>>
      BY MountsSingle, Zenon
    <3>2. \A e : Append(<<e>>, s) # <<d>>
      OBVIOUS
    <3>3. QED
      BY <2>1, <3>1, <3>2, Zenon
  <2>3. Append(<<>>, s) = <<s>> /\ (<<s>> = <<d>> => d = s)
    OBVIOUS
  <2>4. QED
    BY <1>3, <2>1, <2>2, <2>3, Zenon
<1>4. QED
  BY <1>2, <1>3, Zenon

\* umount leaves the mounts of the other targets, and none of a device on its
\* own.
LEMMA UnmountLeaves ==
    ASSUME CleanInv, NEW t \in Targets, Unmount(t),
           NEW u \in Targets, NEW d \in Devices, mounts'[u] = <<d>>
    PROVE  mounts[u] = <<d>> /\ conn'[d] = conn[d]
<1>1. mounts' = [mounts EXCEPT ![t] = SubSeq(mounts[t], 1, Len(mounts[t]) - 1)]
      /\ conn' = Released(mounts') /\ mounts[t] # <<>>
  BY Zenon DEF Unmount
<1>2. mounts'[t] = <<>>
  <2>1. PICK s : mounts[t] = <<s>>
    BY <1>1, MountsSingle, Zenon
  <2>2. SubSeq(<<s>>, 1, Len(<<s>>) - 1) = <<>>
    OBVIOUS
  <2>3. QED
    BY <1>1, <2>1, <2>2, Zenon DEF CleanInv, TypeOK, NbdTypeOK
<1>3. u # t /\ mounts[u] = <<d>>
  <2>1. u # t
    BY <1>2
  <2>2. QED
    BY <1>1, <2>1, Zenon DEF CleanInv, TypeOK, NbdTypeOK
<1>4. \E i \in DOMAIN mounts'[u] : mounts'[u][i] = d
  OBVIOUS
<1>5. QED
  BY <1>1, <1>3, <1>4, Zenon DEF Released

\* A step leaves every device mounted where it belongs.
LEMMA AloneLinked ==
    ASSUME CleanInv, AloneInv, NEW h \in Handlers, NEW t \in Targets,
           tgt[h] = t, Step(h)
    PROVE  /\ MountsLinked'
           /\ \A u \in Targets, d \in Devices : mounts'[u] = <<d>> =>
                 \/ mounts[u] = <<d>>
                 \/ /\ u = t /\ d = dev[h] /\ pc[h] = "mount_fs"
                    /\ UNCHANGED volState
<1> SUFFICES ASSUME NEW u \in Targets, NEW d \in Devices, mounts'[u] = <<d>>
             PROVE  /\ conn'[d] \in {VolumeOf[u], Dead}
                    /\ \/ mounts[u] = <<d>>
                       \/ /\ u = t /\ d = dev[h] /\ pc[h] = "mount_fs"
                          /\ UNCHANGED volState
  BY Zenon DEF MountsLinked
<1>1. conn \in [Devices -> Volumes \cup {None, Dead}]
  BY Zenon DEF CleanInv, TypeOK, NbdTypeOK
<1>2. VolumeOf[u] # None /\ VolumeOf[u] # Dead /\ None # Dead
  BY VolumeOfAssumption, SentinelsAssumption
<1>3. mounts[u] = <<d>> => conn[d] = VolumeOf[u] \/ conn[d] = Dead
  <2>1. MountsLinked
    BY Zenon DEF AloneInv
  <2>2. QED
    BY <2>1, Zenon DEF MountsLinked
<1>4. CASE UNCHANGED <<conn, mounts>>
  BY <1>3, <1>4, Zenon
<1>5. CASE Unmount(t)
  BY <1>3, <1>5, UnmountLeaves, Zenon
<1>6. CASE Mount(t, NineP)
  <2>1. mounts[u] = <<d>>
    BY <1>6, MountAdds, SentinelsAssumption
  <2>2. QED
    BY <1>3, <1>6, <2>1, Zenon DEF Mount
<1>7. CASE /\ Mount(t, dev[h]) /\ Live(dev[h])
           /\ pc[h] = "mount_fs" /\ UNCHANGED volState
  <2>1. mounts[u] = <<d>> \/ (u = t /\ d = dev[h])
    <3>1. Mount(t, dev[h])
      BY <1>7, Zenon
    <3>2. QED
      BY <3>1, MountAdds
  <2>2. conn'[d] = conn[d]
    BY <1>7, Zenon DEF Mount
  <2>3. ASSUME u = t, d = dev[h]
        PROVE  conn[d] = VolumeOf[u]
    <3>1. conn[d] \in {Volume(h), None, Dead}
      BY <1>7, <2>3, Zenon DEF AloneInv
    <3>2. conn[d] \in Volumes
      BY <1>7, <2>3, Zenon DEF Live
    <3>3. QED
      BY <2>3, <3>1, <3>2, SentinelsAssumption DEF Volume
  <2>4. QED
    BY <1>3, <1>7, <2>1, <2>2, <2>3, Zenon
<1>8. CASE /\ conn' = [conn EXCEPT ![dev[h]] = Volume(h)]
           /\ conn[dev[h]] = None /\ UNCHANGED mounts
  <2>1. mounts[u] = <<d>>
    BY <1>8, Zenon
  <2>2. d # dev[h]
    BY <1>2, <1>3, <1>8, <2>1, Zenon
  <2>3. conn'[d] = conn[d]
    BY <1>1, <1>8, <2>2, Zenon
  <2>4. QED
    BY <1>3, <2>1, <2>3, Zenon
<1>9. ASSUME NEW e, Disconnect(e)
      PROVE  mounts[u] = <<d>> /\ conn'[d] \in {VolumeOf[u], Dead}
  <2>1. mounts[u] = <<d>>
    BY <1>9, Zenon DEF Disconnect
  <2>2. CASE d # e
    <3>1. conn'[d] = conn[d]
      BY <1>1, <1>9, <2>2, Zenon DEF Disconnect
    <3>2. QED
      BY <1>3, <2>1, <3>1, Zenon
  <2>3. CASE d = e
    <3>1. MountedSomewhere(d) /\ conn[d] # None
      <4>1. \E i \in DOMAIN mounts[u] : mounts[u][i] = d
        BY <2>1
      <4>2. QED
        BY <1>2, <1>3, <2>1, <4>1, Zenon DEF MountedSomewhere
    <3>2. conn'[d] = Dead
      BY <1>1, <1>9, <2>3, <3>1 DEF Disconnect
    <3>3. QED
      BY <2>1, <3>2, Zenon
  <2>4. QED
    BY <2>2, <2>3, Zenon
<1>10. QED
  BY <1>4, <1>5, <1>6, <1>7, <1>8, <1>9, KernelStep, Zenon

\* A record of the device a volume uses keeps the device reserved, and a
\* device is put on record only if it is mounted nowhere.
LEMMA AloneFiles ==
    ASSUME AloneEnvironment, CleanInv, AloneInv, NEW h \in Handlers,
           NEW t \in Targets, CleanSituation(h, t), Step(h)
    PROVE  /\ \A w \in Volumes, d \in Devices :
                 volState'[w] = d => reservation'[d] = w /\ ~expired'[d]
           /\ \A w \in Volumes, d \in Devices : volState'[w] = d =>
                 volState[w] = d \/ \A u \in Targets : mounts'[u] # <<d>>
<1> DEFINE v == VolumeOf[t]
<1>1. /\ v \in Volumes /\ Volume(h) = v /\ pc[h] \notin CriticalLabels
      /\ PublishClean(h) /\ tgt[h] = t
  BY Zenon DEF CleanSituation, HandlerClean
<1>2. /\ volState \in [Volumes -> Devices \cup {None, Empty}]
      /\ reservation \in [Devices -> Volumes \cup {None, Empty}]
      /\ expired \in [Devices -> BOOLEAN]
  BY Zenon DEF CleanInv, TypeOK, NbdTypeOK
<1>3. \A w \in Volumes, d \in Devices :
         volState[w] = d => reservation[d] = w /\ expired[d] = FALSE
  BY <1>2 DEF AloneInv
<1>4. /\ None \notin Devices /\ Empty \notin Devices /\ None \notin Volumes
      /\ Empty \notin Volumes
  BY SentinelsAssumption
<1>5. ASSUME NEW r, RemoveReservation(r),
             \A w \in Volumes, d \in Devices : volState'[w] = d =>
                 volState[w] = d /\ d # r
      PROVE  /\ \A w \in Volumes, d \in Devices :
                   volState'[w] = d => reservation'[d] = w /\ expired'[d] = FALSE
             /\ \A w \in Volumes, d \in Devices :
                   volState'[w] = d => volState[w] = d
  <2> SUFFICES ASSUME NEW w \in Volumes, NEW d \in Devices, volState'[w] = d
               PROVE  /\ reservation'[d] = w /\ expired'[d] = FALSE
                      /\ volState[w] = d
    BY Zenon
  <2>1. volState[w] = d /\ d # r
    BY <1>5, Zenon
  <2>2. reservation'[d] = reservation[d] /\ expired'[d] = expired[d]
    BY <1>5, <2>1, Zenon DEF RemoveReservation
  <2>3. QED
    BY <1>3, <2>1, <2>2, Zenon
<1>7. RemoveVolumeFile(v) =>
         \A w \in Volumes, d \in Devices :
             volState'[w] = d => volState[w] = d /\ w # v
  BY <1>1, <1>2, <1>4 DEF RemoveVolumeFile
<1>8. ASSUME NEW d \in Devices, NEW unreadable, Reservable(d, unreadable),
             NEW w \in Volumes, volState[w] = d
      PROVE  FALSE
  <2>1. reservation[d] = w /\ expired[d] = FALSE
    BY <1>3, <1>8, Zenon
  <2>2. QED
    BY <1>4, <1>8, <2>1 DEF Reservable, ReservationFree
<1>9. CASE UNCHANGED nbdFiles
  BY <1>3, <1>9, Zenon DEF nbdFiles
<1>10. ASSUME NEW unreadable, pc[h] = "reserve", UNCHANGED <<conn, mounts>>,
              \/ \E d \in Devices : reserveNBDDevice(v, d, unreadable)
              \/ ReserveFails(v, unreadable)
       PROVE  /\ \A w \in Volumes, d \in Devices :
                    volState'[w] = d => reservation'[d] = w /\ expired'[d] = FALSE
              /\ \A w \in Volumes, d \in Devices : volState'[w] = d =>
                    \/ volState[w] = d
                    \/ \A u \in Targets : mounts'[u] # <<d>>
  <2>1. readVolumeNBDState(v) = None
    <3>1. Unrecorded(v)
      BY <1>1, <1>10, Zenon DEF PublishClean, Bare
    <3>2. QED
      BY <3>1, Zenon DEF Unrecorded, readVolumeNBDState
  <2>2. ASSUME NEW d \in Devices, TakeReservation(v, d, unreadable)
        PROVE  /\ \A w \in Volumes, e \in Devices :
                     volState'[w] = e => reservation'[e] = w /\ expired'[e] = FALSE
               /\ \A w \in Volumes, e \in Devices : volState'[w] = e =>
                     \/ volState[w] = e
                     \/ \A u \in Targets : mounts'[u] # <<e>>
    <3>1. /\ Reservable(d, unreadable)
          /\ volState' = [volState EXCEPT ![v] = d]
          /\ reservation' = [reservation EXCEPT ![d] = v]
          /\ expired' = [expired EXCEPT ![d] = FALSE]
      BY <2>2, Zenon
      DEF TakeReservation, FirstReservable, CreateReservation,
          AloneEnvironment, Fails
    <3>2. \A w \in Volumes : volState[w] # d
      BY <1>8, <3>1, Zenon
    <3>3. \A u \in Targets : mounts'[u] # <<d>>
      <4>1. conn[d] = None
        BY <3>1, Zenon DEF Reservable, isNBDConnected
      <4>2. \A u \in Targets : None # VolumeOf[u] /\ None # Dead
        BY VolumeOfAssumption, SentinelsAssumption
      <4>3. QED
        <5> SUFFICES ASSUME NEW u \in Targets, mounts[u] = <<d>>
                     PROVE  FALSE
          BY <1>10, Zenon
        <5>1. conn[d] \in {VolumeOf[u], Dead}
          BY Zenon DEF AloneInv, MountsLinked
        <5>2. QED
          BY <4>1, <4>2, <5>1, Zenon
    <3>4. ASSUME NEW w \in Volumes, NEW e \in Devices, volState'[w] = e
          PROVE  \/ w = v /\ e = d
                 \/ w # v /\ e # d /\ volState[w] = e
      BY <1>1, <1>2, <3>1, <3>2, <3>4, Zenon
    <3>5. reservation'[d] = v /\ expired'[d] = FALSE
      BY <1>2, <3>1, Zenon
    <3>6. \A e \in Devices : e # d =>
             reservation'[e] = reservation[e] /\ expired'[e] = expired[e]
      BY <1>2, <3>1, Zenon
    <3>7. QED
      <4> SUFFICES ASSUME NEW w \in Volumes, NEW e \in Devices, volState'[w] = e
                   PROVE  /\ reservation'[e] = w /\ expired'[e] = FALSE
                          /\ \/ volState[w] = e
                             \/ \A u \in Targets : mounts'[u] # <<e>>
        BY ZenonT(30)
      <4>1. CASE w = v /\ e = d
        BY <3>3, <3>5, <4>1, Zenon
      <4>2. CASE e # d /\ volState[w] = e
        BY <1>3, <3>6, <4>2, Zenon
      <4>3. QED
        BY <3>4, <4>1, <4>2, Zenon
  <2>3. CASE ReserveFails(v, unreadable)
    <3>1. CASE UNCHANGED nbdFiles
      BY <1>3, <3>1, Zenon DEF nbdFiles
    <3>2. ASSUME NEW d \in Devices, FirstReservable(d, unreadable),
                 RemoveReservation(d), NEW content \in {volState[v], Empty},
                 volState' = [volState EXCEPT ![v] = content]
          PROVE  /\ \A w \in Volumes, e \in Devices : volState'[w] = e =>
                       reservation'[e] = w /\ expired'[e] = FALSE
                 /\ \A w \in Volumes, e \in Devices :
                       volState'[w] = e => volState[w] = e
      <4>1. \A w \in Volumes, e \in Devices :
               volState'[w] = e => volState[w] = e
        BY <1>1, <1>2, <1>4, <3>2
      <4>2. \A w \in Volumes, e \in Devices :
               volState'[w] = e => volState[w] = e /\ e # d
        BY <1>8, <3>2, <4>1, Zenon DEF FirstReservable
      <4>3. QED
        BY <1>5, <3>2, <4>2, Zenon
    <3>3. QED
      BY <2>3, <3>1, <3>2, Zenon DEF ReserveFails
  <2>4. ASSUME NEW d \in Devices, reserveNBDDevice(v, d, unreadable)
        PROVE  TakeReservation(v, d, unreadable)
    BY <1>4, <2>1, <2>4, Zenon DEF reserveNBDDevice, ReuseReservation
  <2>5. QED
    BY <1>10, <2>2, <2>3, <2>4, Zenon
<1>11. CASE /\ pc[h] = "clear_unconnected" /\ UNCHANGED mounts
            /\ clearVolumeNBDState(v, dev[h])
  <2>1. volState[v] = dev[h]
    BY <1>1, <1>11, Zenon DEF PublishClean, Recorded
  <2>2. \A w \in Volumes, d \in Devices :
           volState'[w] = d => volState[w] = d /\ d # dev[h]
    <3> SUFFICES ASSUME NEW w \in Volumes, NEW d \in Devices, volState'[w] = d
                 PROVE  volState[w] = d /\ d # dev[h]
      BY Zenon
    <3>1. volState[w] = d /\ w # v
      BY <1>7, <1>11, Zenon DEF clearVolumeNBDState
    <3>2. d = dev[h] => reservation[d] = w /\ reservation[d] = v
      BY <1>1, <1>3, <2>1, <3>1, Zenon
    <3>3. QED
      BY <3>1, <3>2, Zenon
  <2>3. QED
    BY <1>5, <1>11, <2>2, Zenon DEF clearVolumeNBDState
<1>12. CASE /\ pc[h] = "cleanup_state" /\ UNCHANGED mounts
            /\ RemoveVolumeFile(v) /\ UNCHANGED <<reservation, expired>>
  BY <1>3, <1>7, <1>12, Zenon
<1>13. CASE /\ pc[h] = "cleanup_reservation" /\ UNCHANGED <<volState, mounts>>
            /\ RemoveReservation(dev[h])
  <2>1. \A w \in Volumes, d \in Devices :
           volState'[w] = d => volState[w] = d /\ d # dev[h]
    BY <1>4, <1>13, Zenon DEF AloneInv, OnlyFor
  <2>2. QED
    BY <1>5, <1>13, <2>1, Zenon
<1>14. CASE /\ pc[h] = "clear" /\ UNCHANGED mounts
            /\ clearVolumeNBDState(v, ReservationArgument(src[h]))
  <2>1. \A d \in Devices : ReservationArgument(src[h]) = d => OnlyFor(v, d)
    <3>1. pc[h] \in UnpublishLabels \ {"find_source"}
      BY <1>14 DEF UnpublishLabels
    <3>2. \A d \in Devices :
             ReservationArgument(src[h]) = d => OnlyFor(Volume(h), d)
      BY <3>1, Zenon DEF AloneInv
    <3>3. QED
      BY <1>1, <3>2, Zenon
  <2>2. \A w \in Volumes, d \in Devices : volState'[w] = d =>
           volState[w] = d /\ d # ReservationArgument(src[h])
    BY <1>7, <1>14, <2>1, Zenon DEF clearVolumeNBDState, OnlyFor
  <2>3. QED
    BY <1>5, <1>14, <2>2, Zenon DEF clearVolumeNBDState
<1>15. CASE /\ pc[h] = "reserve" /\ UNCHANGED <<conn, mounts>>
            /\ \E unreadable :
                  \/ \E d \in Devices : reserveNBDDevice(v, d, unreadable)
                  \/ ReserveFails(v, unreadable)
  <2>1. PICK unreadable :
           \/ \E d \in Devices : reserveNBDDevice(v, d, unreadable)
           \/ ReserveFails(v, unreadable)
    BY <1>15, Zenon
  <2>2. QED
    BY <1>10, <1>15, <2>1, Zenon
<1>16. QED
  BY <1>1, <1>9, <1>11, <1>12, <1>13, <1>14, <1>15, FilesStep, Zenon

\* What the handler knows of its device where it goes on.
LEMMA AloneLabels ==
    ASSUME AloneEnvironment, CleanInv, AloneInv, NEW h \in Handlers,
           NEW t \in Targets, CleanSituation(h, t), Step(h)
    PROVE  /\ pc'[h] \in {"blkid", "mkfs", "mount_fs"} =>
                 conn'[dev'[h]] \in {VolumeOf[tgt'[h]], None, Dead}
           /\ pc'[h] = "cleanup_reservation" =>
                 \A w \in Volumes : volState'[w] # dev'[h]
           /\ pc'[h] \in UnpublishLabels \ {"find_source"} =>
                 \A w \in Volumes, d \in Devices :
                    ReservationArgument(src'[h]) = d /\ volState'[w] = d =>
                        w = VolumeOf[tgt'[h]]
<1> DEFINE v == VolumeOf[t]
<1>1. /\ v \in Volumes /\ Volume(h) = v /\ tgt[h] = t
      /\ PublishClean(h) /\ UnpublishClean(h)
  BY Zenon DEF CleanSituation, HandlerClean
<1>2. /\ volState \in [Volumes -> Devices \cup {None, Empty}]
      /\ conn \in [Devices -> Volumes \cup {None, Dead}]
      /\ src \in [Handlers -> Seq(MountSources \cup {HostFs})]
      /\ pc \in [Handlers -> Labels]
      /\ pc[h] \in DeviceLabels => dev[h] \in Devices
  BY Zenon DEF CleanInv, TypeOK, NbdTypeOK
<1>3. \A l : Continue(h, l) => tgt' = tgt /\ pc'[h] = l
  BY <1>2, Zenon DEF Continue, Goto
<1>4. ASSUME pc'[h] \in {"blkid", "mkfs", "mount_fs"}
      PROVE  conn'[dev'[h]] \in {VolumeOf[tgt'[h]], None, Dead}
  <2>1. CASE Connect(h)
    <3>1. /\ dev' = dev /\ tgt' = tgt /\ conn' = [conn EXCEPT ![dev[h]] = v]
          /\ pc[h] = "connect"
      <4>1. pc'[h] # "clear_unconnected"
        BY <1>4
      <4>2. QED
        BY <1>1, <1>3, <2>1, <4>1, Zenon DEF Connect, At
    <3>2. dev[h] \in Devices
      BY <1>2, <3>1, Zenon DEF DeviceLabels
    <3>3. conn'[dev[h]] = v
      BY <1>2, <3>1, <3>2, Zenon
    <3>4. QED
      BY <1>1, <3>1, <3>3, Zenon
  <2>2. CASE Blkid(h) \/ Mkfs(h)
    <3>1. UNCHANGED <<conn, dev, tgt>> /\ pc[h] \in {"blkid", "mkfs"}
      BY <1>3, <2>2, Zenon DEF Blkid, Mkfs, Advance, At, kernel
    <3>2. conn[dev[h]] \in {Volume(h), None, Dead}
      BY <3>1, Zenon DEF AloneInv
    <3>3. QED
      BY <3>1, <3>2, Zenon DEF Volume
  <2>3. QED
    BY <1>4, <2>1, <2>2, Arrivals, Zenon DEF CleanInv
<1>5. ASSUME pc'[h] = "cleanup_reservation", NEW w \in Volumes,
             volState'[w] = dev'[h]
      PROVE  FALSE
  <2>1. CleanupState(h)
    BY <1>5, Arrivals, Zenon DEF CleanInv
  <2>2. /\ pc[h] = "cleanup_state" /\ dev' = dev
        /\ volState' = [volState EXCEPT ![v] = None]
    BY <1>1, <2>1, Zenon DEF CleanupState, RemoveVolumeFile, At
  <2>3. PICK d \in Devices : d = dev[h]
    BY <1>2, <2>2, Zenon DEF DeviceLabels
  <2>4. volState[v] = d /\ d # None
    BY <1>1, <2>2, <2>3, SentinelsAssumption, Zenon DEF PublishClean, Recorded
  <2>5. w # v /\ volState[w] = d
    BY <1>1, <1>2, <1>5, <2>2, <2>3, <2>4, Zenon
  <2>6. reservation[d] = w /\ reservation[d] = v
    BY <1>1, <2>4, <2>5, Zenon DEF AloneInv
  <2>7. QED
    BY <2>5, <2>6, Zenon
<1>6. ASSUME pc'[h] \in UnpublishLabels \ {"find_source"},
             NEW w \in Volumes, NEW d \in Devices,
             ReservationArgument(src'[h]) = d, volState'[w] = d
      PROVE  w = VolumeOf[tgt'[h]]
  <2>1. CASE FindSource(h)
    <3>1. /\ UNCHANGED <<volState, tgt>>
          /\ src' = [src EXCEPT ![h] = findMountSource(t)]
      BY <1>1, <1>3, <2>1, Zenon
      DEF FindSource, FoundSources, Fails, AloneEnvironment, CleanEnvironment,
          nbdFiles
    <3>2. ReservationArgument(findMountSource(t)) = d
      BY <1>2, <1>6, <3>1, Zenon
    <3>3. mounts[t] = <<d>>
      <4>1. \/ findMountSource(t) \in {<<>>, <<HostFs>>, <<NineP>>}
            \/ \E e \in Devices : mounts[t] = <<e>> /\ findMountSource(t) = <<e>>
        BY MountsSingle, Zenon DEF findMountSource
      <4>2. /\ ReservationArgument(<<>>) # d /\ ReservationArgument(<<HostFs>>) # d
            /\ ReservationArgument(<<NineP>>) # d
            /\ \A e \in Devices : ReservationArgument(<<e>>) = e
        BY SentinelsAssumption DEF ReservationArgument
      <4>3. QED
        BY <3>2, <4>1, <4>2, Zenon
    <3>4. OnlyFor(VolumeOf[t], d)
      BY <3>3, Zenon DEF AloneInv
    <3>5. QED
      BY <1>1, <1>6, <3>1, <3>4, Zenon DEF OnlyFor
  <2>2. CASE UmountFs(h) \/ Recover(h) \/ Detach(h) \/ RemovePodOf(h)
    <3>1. /\ UNCHANGED <<volState, tgt>>
          /\ pc[h] \in UnpublishLabels \ {"find_source"}
      BY <1>3, <2>2, Zenon
      DEF UmountFs, Recover, Detach, RemovePodOf, nbdFiles, At,
          UnpublishLabels
    <3>2. src'[h] = src[h]
      <4>1. CASE Recover(h)
        <5>1. src[h] = <<>> => readVolumeNBDState(v) = None
          <6>1. \A e : <<e>> # <<>>
            OBVIOUS
          <6>2. src[h] = <<>> => Bare(t)
            BY <1>1, <4>1, <6>1, Zenon DEF UnpublishClean, Recover, At
          <6>3. QED
            BY <6>2, Zenon DEF Bare, Unrecorded, readVolumeNBDState
        <5>2. src' = [src EXCEPT ![h] =
                        IF src[h] = <<>> /\ readVolumeNBDState(v) # None
                        THEN <<readVolumeNBDState(v)>> ELSE src[h]]
          BY <1>1, <4>1, Zenon DEF Recover
        <5>3. QED
          BY <1>2, <5>1, <5>2
      <4>2. CASE ~Recover(h)
        BY <2>2, <4>2, Zenon DEF UmountFs, Detach, RemovePodOf
      <4>3. QED
        BY <4>1, <4>2, Zenon
    <3>3. OnlyFor(Volume(h), d)
      BY <1>6, <3>1, <3>2, Zenon DEF AloneInv
    <3>4. QED
      BY <1>6, <3>1, <3>3, Zenon DEF OnlyFor, Volume
  <2>3. QED
    BY <1>6, <2>1, <2>2, Arrivals, Zenon DEF CleanInv
<1>7. QED
  BY <1>4, <1>5, <1>6, Zenon

\* Only a handler at work takes steps.
LEMMA StepActive ==
    ASSUME NEW h \in Handlers, Step(h)
    PROVE  Active(h)
<1> USE DEF At, Active
<1>1. Publish(h) => Active(h)
  BY Zenon
  DEF Publish, Check, UnmountLingering, LockStale, DetachStale, ClearStale,
      CreatePod, AwaitPod, WaitSocket, Mount9P, CreateDisk, Umount9P, Reserve,
      Connect, ClearUnconnected, Blkid, Mkfs, MountFs, DisconnectFailed
<1>2. Cleanup(h) => Active(h)
  BY Zenon
  DEF Cleanup, CleanupUnmount, CleanupRead, CleanupDetach, CleanupState,
      CleanupReservation, CleanupPod
<1>3. Unpublish(h) => Active(h)
  BY Zenon
  DEF Unpublish, FindSource, UmountFs, Recover, Detach, RemovePodOf, Clear
<1>4. QED
  BY <1>1, <1>2, <1>3, Zenon DEF Step

\* A handler's step keeps AloneInv.
LEMMA AloneStep ==
    ASSUME AloneEnvironment, CleanInv, AloneInv, TypeOK', NEW h \in Handlers,
           Step(h)
    PROVE  AloneInv'
<1>1. CleanEnvironment /\ (\A k \in Handlers : k = h) /\ Active(h)
  BY StepActive, Zenon DEF AloneEnvironment
<1>2. PICK t \in Targets : CleanSituation(h, t) /\ tgt[h] = t
  BY <1>1, CleanFacts, Zenon DEF CleanSituation
<1>3. /\ MountsLinked'
      /\ \A u \in Targets, d \in Devices : mounts'[u] = <<d>> =>
            \/ mounts[u] = <<d>>
            \/ /\ u = t /\ d = dev[h] /\ pc[h] = "mount_fs"
               /\ UNCHANGED volState
  BY <1>2, AloneLinked, Zenon
<1>4. /\ \A w \in Volumes, d \in Devices :
            volState'[w] = d => reservation'[d] = w /\ ~expired'[d]
      /\ \A w \in Volumes, d \in Devices : volState'[w] = d =>
            volState[w] = d \/ \A u \in Targets : mounts'[u] # <<d>>
  BY <1>2, AloneFiles, Zenon
<1>5. ASSUME NEW u \in Targets, NEW d \in Devices, mounts'[u] = <<d>>,
             NEW w \in Volumes, volState'[w] = d
      PROVE  w = VolumeOf[u]
  <2>1. volState[w] = d
    BY <1>4, <1>5, Zenon
  <2>2. CASE mounts[u] = <<d>>
    BY <2>1, <2>2, Zenon DEF AloneInv, OnlyFor
  <2>3. CASE u = t /\ d = dev[h] /\ pc[h] = "mount_fs"
    <3>1. volState[VolumeOf[t]] = d /\ VolumeOf[t] \in Volumes
      BY <1>2, <2>3, Zenon
      DEF CleanSituation, HandlerClean, PublishClean, Recorded
    <3>2. reservation[d] = w /\ reservation[d] = VolumeOf[t]
      BY <2>1, <3>1, Zenon DEF AloneInv
    <3>3. QED
      BY <2>3, <3>2, Zenon
  <2>4. QED
    BY <1>3, <1>5, <2>2, <2>3, Zenon
<1>6. /\ pc'[h] \in {"blkid", "mkfs", "mount_fs"} =>
            conn'[dev'[h]] \in {VolumeOf[tgt'[h]], None, Dead}
      /\ pc'[h] = "cleanup_reservation" =>
            \A w \in Volumes : volState'[w] # dev'[h]
      /\ pc'[h] \in UnpublishLabels \ {"find_source"} =>
            \A w \in Volumes, d \in Devices :
               ReservationArgument(src'[h]) = d /\ volState'[w] = d =>
                   w = VolumeOf[tgt'[h]]
  BY <1>2, AloneLabels, Zenon
<1>7. (/\ pc[h] \in {"blkid", "mkfs", "mount_fs"} =>
             conn[dev[h]] \in {Volume(h), None, Dead}
       /\ pc[h] = "cleanup_reservation" => OnlyFor(None, dev[h])
       /\ pc[h] \in UnpublishLabels \ {"find_source"} =>
             \A d \in Devices : ReservationArgument(src[h]) = d =>
                                    OnlyFor(Volume(h), d))'
  BY <1>6, Zenon DEF OnlyFor, Volume
<1>8. \A u \in Targets, d \in Devices :
         mounts'[u] = <<d>> => OnlyFor(VolumeOf[u], d)'
  BY <1>5, Zenon DEF OnlyFor
<1>9. QED
  BY <1>1, <1>3, <1>4, <1>7, <1>8, Zenon DEF AloneInv

\* So does a step that leaves the state files, the mounts and the handlers'
\* variables, and at most disconnects devices that are mounted nowhere.
LEMMA AloneOutside ==
    ASSUME TypeOK, AloneInv,
           UNCHANGED <<volState, reservation, expired, mounts>>,
           \A h \in Handlers :
               /\ pc'[h] = pc[h] /\ tgt'[h] = tgt[h]
               /\ dev'[h] = dev[h] /\ src'[h] = src[h]
               \/ pc'[h] \in {"idle", "check", "find_source"},
           \A d \in Devices : conn'[d] \in {conn[d], None, Dead},
           \A d \in Devices : conn'[d] = None =>
               conn[d] = None \/ \A t \in Targets : mounts[t] # <<d>>
    PROVE  AloneInv'
<1>1. MountsLinked'
  <2> SUFFICES ASSUME NEW t \in Targets, NEW d \in Devices, mounts[t] = <<d>>
               PROVE  conn'[d] \in {VolumeOf[t], Dead}
    BY Zenon DEF MountsLinked
  <2>1. conn[d] \in {VolumeOf[t], Dead} /\ conn'[d] \in {conn[d], None, Dead}
    BY Zenon DEF AloneInv, MountsLinked
  <2>2. conn'[d] # None
    <3>1. VolumeOf[t] # None /\ Dead # None
      BY VolumeOfAssumption, SentinelsAssumption
    <3>2. QED
      BY <2>1, <3>1, Zenon
  <2>3. QED
    BY <2>1, <2>2, Zenon
<1>2. /\ \A v \in Volumes, d \in Devices :
            volState'[v] = d => reservation'[d] = v /\ ~expired'[d]
      /\ \A t \in Targets, d \in Devices :
            mounts'[t] = <<d>> => OnlyFor(VolumeOf[t], d)'
      /\ \A v \in Volumes, d \in Devices : OnlyFor(v, d) => OnlyFor(v, d)'
  BY Zenon DEF AloneInv, OnlyFor
<1>3. ASSUME NEW h \in Handlers
      PROVE  (/\ pc[h] \in {"blkid", "mkfs", "mount_fs"} =>
                    conn[dev[h]] \in {Volume(h), None, Dead}
              /\ pc[h] = "cleanup_reservation" => OnlyFor(None, dev[h])
              /\ pc[h] \in UnpublishLabels \ {"find_source"} =>
                    \A d \in Devices : ReservationArgument(src[h]) = d =>
                                           OnlyFor(Volume(h), d))'
  <2>1. CASE pc'[h] \in {"idle", "check", "find_source"}
    BY <2>1 DEF UnpublishLabels
  <2>2. CASE /\ pc'[h] = pc[h] /\ tgt'[h] = tgt[h]
             /\ dev'[h] = dev[h] /\ src'[h] = src[h]
    <3>1. Volume(h)' = Volume(h)
      BY <2>2, Zenon DEF Volume
    <3>2. pc[h] \in {"blkid", "mkfs", "mount_fs"} =>
             conn'[dev[h]] \in {Volume(h), None, Dead}
      <4>1. pc[h] \in {"blkid", "mkfs", "mount_fs"} =>
               conn[dev[h]] \in {Volume(h), None, Dead}
        BY Zenon DEF AloneInv
      <4>2. pc[h] \in {"blkid", "mkfs", "mount_fs"} =>
               conn'[dev[h]] \in {conn[dev[h]], None, Dead}
        BY Zenon DEF TypeOK, DeviceLabels
      <4>3. QED
        BY <4>1, <4>2, Zenon
    <3>3. pc[h] = "cleanup_reservation" =>
             \A w \in Volumes : volState[w] = dev[h] => w = None
      BY Zenon DEF AloneInv, OnlyFor
    <3>4. pc[h] \in UnpublishLabels \ {"find_source"} =>
             \A d \in Devices, w \in Volumes :
                 ReservationArgument(src[h]) = d /\ volState[w] = d =>
                     w = Volume(h)
      <4>1. pc[h] \in UnpublishLabels \ {"find_source"} =>
               \A d \in Devices :
                   ReservationArgument(src[h]) = d => OnlyFor(Volume(h), d)
        BY Zenon DEF AloneInv
      <4>2. QED
        BY <4>1, Zenon DEF OnlyFor
    <3>5. QED
      BY <2>2, <3>1, <3>2, <3>3, <3>4, Zenon DEF OnlyFor
  <2>3. QED
    BY <2>1, <2>2, Zenon
<1>4. QED
  BY <1>1, <1>2, <1>3, Zenon DEF AloneInv

\* Every step of the node service keeps AloneInv.
LEMMA NextAlone ==
    ASSUME AloneEnvironment, CleanInv, AloneInv, [Next]_vars
    PROVE  AloneInv'
<1>1. TypeOK /\ TypeOK' /\ CleanEnvironment
  BY NextType, Zenon DEF CleanInv, AloneEnvironment
<1>2. ASSUME UNCHANGED <<nbdFiles, conn, mounts>>,
             \A h \in Handlers :
                 /\ pc'[h] = pc[h] /\ tgt'[h] = tgt[h]
                 /\ dev'[h] = dev[h] /\ src'[h] = src[h]
                 \/ pc'[h] \in {"idle", "check", "find_source"}
      PROVE  AloneInv'
  BY <1>1, <1>2, AloneOutside, Zenon DEF nbdFiles
<1>3. ASSUME NEW h \in Handlers, Step(h)
      PROVE  AloneInv'
  BY <1>1, <1>3, AloneStep, Zenon
<1>4. ASSUME NEW h \in Handlers, NEW t \in Targets,
             NodePublishVolume(h, t) \/ NodeUnpublishVolume(h, t)
      PROVE  AloneInv'
  <2>1. PICK l \in {"check", "find_source"} : StartCall(h, t, l)
    BY <1>4, Zenon DEF NodePublishVolume, NodeUnpublishVolume
  <2>2. pc'[h] = l
    BY <1>1, <2>1, Zenon DEF StartCall, Goto, TypeOK
  <2>3. \A k \in Handlers : k = h
    BY Zenon DEF AloneEnvironment
  <2>4. UNCHANGED <<nbdFiles, conn, mounts>>
    BY <2>1, Zenon DEF StartCall, nbdFiles, kernel
  <2>5. QED
    BY <1>2, <2>2, <2>3, <2>4, Zenon
<1>5. ASSUME NEW h \in Handlers, Timeout(h)
      PROVE  FALSE
  BY <1>1, <1>5 DEF Timeout, TypeOK, CleanEnvironment
<1>6. ASSUME UNCHANGED <<nbdFiles, conn, mounts, pc, locals>>
      PROVE  AloneInv'
  BY <1>2, <1>6, Zenon DEF locals
<1>7. ASSUME NEW d \in Devices, Examine(d)
      PROVE  AloneInv'
  BY <1>6, <1>7, Zenon DEF Examine, kernel
<1>8. CASE DetachOrphan
  <2>1. /\ UNCHANGED <<volState, reservation, expired, mounts, pc, locals>>
        /\ Disconnect(orphan) /\ orphan # None
    BY <1>1, <1>8, Zenon
    DEF DetachOrphan, detachNBDDeviceBestEffort, Disconnect,
        CleanEnvironment, Fails, nbdFiles
  <2>2. PICK d \in Devices : d = orphan
    BY <1>1, <2>1, Zenon DEF TypeOK
  <2>3. conn \in [Devices -> Volumes \cup {None, Dead}]
    BY <1>1, Zenon DEF TypeOK, NbdTypeOK
  <2>4. /\ conn'[d] = IF conn[d] # None /\ MountedSomewhere(d)
                      THEN Dead ELSE None
        /\ \A e \in Devices \ {d} : conn'[e] = conn[e]
    BY <2>1, <2>2, <2>3 DEF Disconnect
  <2>5. ASSUME NEW e \in Devices, conn'[e] = None
        PROVE  conn[e] = None \/ \A t \in Targets : mounts[t] # <<e>>
    <3>1. ASSUME NEW t \in Targets, mounts[t] = <<e>>
          PROVE  MountedSomewhere(e)
      <4>1. \E i \in DOMAIN mounts[t] : mounts[t][i] = e
        BY <3>1
      <4>2. QED
        BY <4>1, Zenon DEF MountedSomewhere
    <3>2. Dead # None
      BY SentinelsAssumption
    <3>3. QED
      BY <2>4, <2>5, <3>1, <3>2, Zenon
  <2>6. \A e \in Devices : conn'[e] \in {conn[e], None, Dead}
    BY <2>4, Zenon
  <2>7. QED
    BY <1>1, <2>1, <2>5, <2>6, AloneOutside, Zenon DEF locals
<1>9. CASE Restart
  <2>1. /\ UNCHANGED <<conn, mounts>>
        /\ \A v \in Volumes : volState'[v] = None
        /\ \A h \in Handlers : pc'[h] = "idle"
    BY <1>9, Zenon DEF Restart, NbdFilesLost, HandlersLost, kernel
  <2>2. None \notin Devices
    BY SentinelsAssumption
  <2>3. \A v \in Volumes, d \in Devices : volState'[v] # d
    BY <2>1, <2>2, Zenon
  <2>4. \A h \in Handlers :
           /\ pc'[h] \notin {"blkid", "mkfs", "mount_fs"}
           /\ pc'[h] # "cleanup_reservation" /\ pc'[h] \notin UnpublishLabels
    BY <2>1 DEF UnpublishLabels
  <2>5. MountsLinked'
    BY <2>1, Zenon DEF AloneInv, MountsLinked
  <2>6. QED
    BY <2>3, <2>4, <2>5, Zenon DEF AloneInv, OnlyFor
<1>10. ASSUME NEW d \in Devices, Expire(d)
       PROVE  FALSE
  BY <1>10, Zenon DEF Expire, Fails, AloneEnvironment
<1>11. ASSUME NEW v \in Volumes, PodServes(v) \/ PodDies(v)
       PROVE  AloneInv'
  BY <1>6, <1>11, Zenon DEF PodServes, PodDies, kernel
<1>12. CASE UNCHANGED vars
  BY <1>6, <1>12, Zenon DEF vars, kernel
<1>13. QED
  BY <1>3, <1>4, <1>5, <1>7, <1>8, <1>9, <1>10, <1>11, <1>12, Zenon
  DEF Next, reconcileOrphanedNBDDevices

\* The invariants hold when the plugin starts.
LEMMA InitAlone ==
    ASSUME Init
    PROVE  AloneInv
<1>1. /\ \A v \in Volumes, d \in Devices : volState[v] # d
      /\ \A t \in Targets, d \in Devices : mounts[t] # <<d>>
      /\ \A h \in Handlers :
            /\ pc[h] \notin {"blkid", "mkfs", "mount_fs"}
            /\ pc[h] # "cleanup_reservation" /\ pc[h] \notin UnpublishLabels
  BY SentinelsAssumption DEF Init, NbdInit, UnpublishLabels
<1>2. QED
  BY <1>1, Zenon DEF AloneInv, MountsLinked, OnlyFor

\* However often the plugin restarts and whatever fails before the clean-up
\* does, if the node's calls are served one at a time then a device is
\* mounted where it belongs, is reserved for the volume that has it on
\* record, and a volume that was unpublished leaves nothing behind once the
\* reconciler has run.
THEOREM AloneCorrect ==
    ASSUME AloneEnvironment
    PROVE  Spec => [](CleanInv /\ AloneInv /\ UnpublishedIsClean)
<1>1. Init => CleanInv /\ AloneInv
  BY InitClean, InitAlone, Zenon
<1>2. CleanInv /\ AloneInv /\ [Next]_vars => (CleanInv /\ AloneInv)'
  <2> SUFFICES ASSUME CleanInv, AloneInv, [Next]_vars
               PROVE  CleanInv' /\ AloneInv'
    BY Zenon
  <2>1. CleanEnvironment /\ MountsLinked
    BY Zenon DEF AloneEnvironment, AloneInv
  <2>2. QED
    BY <2>1, NextClean, NextAlone, Zenon
<1>3. CleanInv => UnpublishedIsClean
  BY UnpublishedClean, Zenon
<1>4. QED
  BY <1>1, <1>2, <1>3, PTL DEF Spec

=============================================================================
