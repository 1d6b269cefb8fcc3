------------------------- MODULE NodeHandlerProofs --------------------------
(***************************************************************************)
(* The steps of NodePublishVolume and NodeUnpublishVolume keep CleanInv.   *)
(*                                                                         *)
(* As in NodeSerialProofs, a handler's step is shown to disturb nothing of *)
(* another target than its own; what it does to its own is shown action by *)
(* action.                                                                 *)
(***************************************************************************)
EXTENDS NodeClean, NodeSerialProofs

\* The step changes nothing but what is target t's, and of the connections
\* none but to disconnect a device or to connect it to t's volume.
FrameOK(t) ==
    /\ \A u \in Targets \ {t} : mounts'[u] = mounts[u]
    /\ \A u \in Targets : mounts'[u] # <<>> => u \in dirs'
    /\ \A d \in Devices : conn'[d] \in {conn[d], None, Dead, VolumeOf[t]}
    /\ \A w \in Volumes \ {VolumeOf[t]} :
          /\ volState'[w] = volState[w]
          /\ pod[w] = "none" => pod'[w] = "none"
    /\ restarts' = restarts

\* A connection that the step makes is on record; one that is on record
\* stays so.
LinksOK(t) ==
    \A d \in Devices :
        conn'[d] = VolumeOf[t] =>
            /\ conn[d] = VolumeOf[t] \/ volState'[VolumeOf[t]] = d
            /\ volState[VolumeOf[t]] = d => volState'[VolumeOf[t]] = d

\* A connection to which the target's mount led is led to by what findmnt
\* printed once the mount is gone, until the device is disconnected.
TiesOK(h, t) ==
    \A d \in Devices :
        conn'[d] = VolumeOf[t] =>
            /\ mounts[t] = <<d>> => \/ mounts'[t] = <<d>>
                                    \/ pc'[h] = "recover" /\ src'[h] = <<d>>
            /\ pc[h] \in {"recover", "detach"} /\ src[h] = <<d>> =>
                  pc'[h] = "detach" /\ src'[h] = <<d>>

\* A device is mounted only while its connection is on record.
MountsOK(t) ==
    \A d \in Devices :
        mounts'[t] = <<d>> => mounts[t] = <<d>> \/ LinkRecorded(d)

EffectsOK(h, t) == FrameOK(t) /\ LinksOK(t) /\ TiesOK(h, t) /\ MountsOK(t)

\* The volume of a target is one.
LEMMA OwnVolume ==
    ASSUME NEW t \in Targets
    PROVE  VolumeOf[t] \in Volumes /\ VolumeOf[t] # None /\ VolumeOf[t] # Dead
<1>1. VolumeOf[t] \in Volumes
  BY VolumeOfAssumption, Zenon
<1>2. QED
  BY <1>1, SentinelsAssumption, Zenon

\* One target for each volume.
LEMMA OtherVolume ==
    ASSUME CleanEnvironment, NEW t \in Targets, NEW u \in Targets, u # t
    PROVE  VolumeOf[u] \in Volumes \ {VolumeOf[t]}
  BY VolumeOfAssumption, Zenon DEF CleanEnvironment

\* A connection that is on record stays on record.
LEMMA LinkKept ==
    ASSUME NEW t \in Targets, FrameOK(t), LinksOK(t),
           NEW d \in Devices, LinkRecorded(d)
    PROVE  LinkRecorded(d)'
<1> SUFFICES ASSUME NEW w \in Volumes, conn'[d] = w
             PROVE  volState'[w] = d
  BY Zenon DEF LinkRecorded
<1>1. CASE w = VolumeOf[t]
  BY <1>1, Zenon DEF LinksOK, LinkRecorded
<1>2. CASE w # VolumeOf[t]
  <2>1. conn[d] = w
    BY <1>2, SentinelsAssumption, Zenon DEF FrameOK
  <2>2. QED
    BY <1>2, <2>1, Zenon DEF FrameOK, LinkRecorded
<1>3. QED
  BY <1>1, <1>2, Zenon

\* What is known of another target stays true.
LEMMA OtherTarget ==
    ASSUME CleanEnvironment, NEW t \in Targets, FrameOK(t),
           NEW u \in Targets, u # t
    PROVE  /\ mounts'[u] = mounts[u]
           /\ volState'[VolumeOf[u]] = volState[VolumeOf[u]]
           /\ pod[VolumeOf[u]] = "none" => pod'[VolumeOf[u]] = "none"
           /\ Unrecorded(VolumeOf[u]) => Unrecorded(VolumeOf[u])'
           /\ Bare(u) => Bare(u)'
           /\ Begun(u) => Begun(u)'
           /\ Held(u) => Held(u)'
           /\ kub'[u] = kub[u] /\ Settled(u) => Settled(u)'
           /\ \A d \in Devices :
                 /\ conn[d] # VolumeOf[u] => conn'[d] # VolumeOf[u]
                 /\ Recorded(u, d) => Recorded(u, d)'
                 /\ Holds(u, d) => Holds(u, d)'
                 /\ TakenOff(u, d) => TakenOff(u, d)'
<1>1. VolumeOf[u] \in Volumes \ {VolumeOf[t]}
  BY OtherVolume, Zenon
<1>2. /\ mounts'[u] = mounts[u]
      /\ volState'[VolumeOf[u]] = volState[VolumeOf[u]]
      /\ pod[VolumeOf[u]] = "none" => pod'[VolumeOf[u]] = "none"
      /\ restarts' = restarts
  BY <1>1, Zenon DEF FrameOK
<1>3. \A d \in Devices : conn[d] # VolumeOf[u] => conn'[d] # VolumeOf[u]
  BY <1>1, SentinelsAssumption, Zenon DEF FrameOK
<1>4. /\ Unrecorded(VolumeOf[u]) => Unrecorded(VolumeOf[u])'
      /\ \A d \in Devices : Recorded(u, d) => Recorded(u, d)'
  BY <1>2, Zenon DEF Unrecorded, Recorded
<1>5. /\ Bare(u) => Bare(u)'
      /\ Begun(u) => Begun(u)'
      /\ \A d \in Devices : (Holds(u, d) => Holds(u, d)')
                            /\ (TakenOff(u, d) => TakenOff(u, d)')
  BY <1>2, <1>4, Zenon DEF Bare, Begun, Holds, TakenOff
<1>6. Held(u) => Held(u)'
  BY <1>5, Zenon DEF Held
<1>7. kub'[u] = kub[u] /\ Settled(u) => Settled(u)'
  BY <1>2, <1>5, <1>6, Zenon DEF Settled
<1>8. QED
  BY <1>2, <1>3, <1>4, <1>5, <1>6, <1>7, Zenon

\* Nor does a handler of another target notice the step.
LEMMA OtherHandler ==
    ASSUME CleanEnvironment, CleanInv, NEW h \in Handlers, NEW t \in Targets,
           FrameOK(t), LinksOK(t), ControlOK(h, t),
           NEW k \in Handlers, k # h, Active(k), tgt[k] # t
    PROVE  HandlerClean(k)'
<1>1. PICK u \in Targets : u = tgt[k]
  BY Zenon DEF CleanInv, TypeOK, Active
<1>2. /\ pc'[k] = pc[k] /\ tgt'[k] = u /\ dev'[k] = dev[k] /\ src'[k] = src[k]
      /\ kub'[u] = kub[u] /\ u # t
  BY <1>1, Zenon DEF ControlOK
<1>3. HandlerClean(k) /\ (pc[k] \in DeviceLabels => dev[k] \in Devices)
  BY Zenon DEF CleanInv, TypeOK
<1>4. /\ mounts'[u] = mounts[u]
      /\ volState'[VolumeOf[u]] = volState[VolumeOf[u]]
      /\ pod[VolumeOf[u]] = "none" => pod'[VolumeOf[u]] = "none"
      /\ Bare(u) => Bare(u)'
      /\ Begun(u) => Begun(u)'
      /\ Held(u) => Held(u)'
      /\ Settled(u) => Settled(u)'
      /\ \A d \in Devices :
            /\ conn[d] # VolumeOf[u] => conn'[d] # VolumeOf[u]
            /\ Recorded(u, d) => Recorded(u, d)'
            /\ Holds(u, d) => Holds(u, d)'
            /\ TakenOff(u, d) => TakenOff(u, d)'
  BY <1>2, OtherTarget, Zenon
<1>5. PublishClean(k)'
  <2>1. PublishClean(k)
    BY <1>3, Zenon DEF HandlerClean
  <2>2. ASSUME dev[k] \in Devices, LinkRecorded(dev[k])
        PROVE  LinkRecorded(dev[k])'
    <3>1. PICK d \in Devices : d = dev[k]
      BY <2>2, Zenon
    <3>2. LinkRecorded(d)'
      BY <2>2, <3>1, LinkKept, Zenon
    <3>3. QED
      BY <1>2, <3>1, <3>2, Zenon DEF LinkRecorded
  <2>3. QED
    BY <1>1, <1>2, <1>3, <1>4, <2>1, <2>2, Zenon
    DEF PublishClean, DeviceLabels
<1>6. UnpublishClean(k)'
  <2>1. UnpublishClean(k)
    BY <1>3, Zenon DEF HandlerClean
  <2>2. QED
    BY <1>1, <1>2, <1>4, <2>1, Zenon DEF UnpublishClean
<1>7. QED
  BY <1>1, <1>2, <1>3, <1>5, <1>6, Zenon DEF HandlerClean

\* A step that does its own part keeps the invariant.
LEMMA CleanAssemble ==
    ASSUME CleanEnvironment, CleanInv, TypeOK',
           NEW h \in Handlers, NEW t \in Targets,
           \A k \in Handlers \ {h} : Active(k) => tgt[k] # t,
           EffectsOK(h, t), ControlOK(h, t),
           Active(h) => tgt[h] = t,
           pc'[h] = "idle" => Settled(t)',
           pc'[h] # "idle" => HandlerClean(h)'
    PROVE  CleanInv'
<1> DEFINE v == VolumeOf[t]
<1>0. FrameOK(t) /\ LinksOK(t) /\ TiesOK(h, t) /\ MountsOK(t)
  BY Zenon DEF EffectsOK
<1>1. \A k \in Handlers \ {h} : Active(k)' <=> Active(k)
  BY Zenon DEF ControlOK, Active
<1>2. waiting' = {k \in Handlers : Active(k)'}
  BY Zenon DEF ControlOK, Active
<1>3. ASSUME NEW k \in Handlers, NEW l \in Handlers, Active(k)', Active(l)',
             tgt'[k] = tgt'[l]
      PROVE  k = l
  BY <1>1, <1>3 DEF ControlOK, Active, CleanInv
<1>4. ASSUME NEW k \in Handlers, Active(k)'
      PROVE  HandlerClean(k)'
  <2>1. CASE k = h
    BY <1>4, <2>1, Zenon DEF Active
  <2>2. CASE k # h
    BY <1>0, <1>1, <1>4, <2>2, OtherHandler, Zenon
  <2>3. QED
    BY <2>1, <2>2, Zenon
<1>5. ASSUME NEW u \in Targets, ~Attended(u)'
      PROVE  Settled(u)'
  <2>1. CASE u = t
    BY <1>5, <2>1, Zenon DEF Attended, Active, ControlOK
  <2>2. CASE u # t
    <3>1. ~Attended(u)
      BY <1>1, <1>5, <2>2, Zenon DEF Attended, ControlOK
    <3>2. Settled(u) /\ kub'[u] = kub[u]
      BY <3>1, <2>2, Zenon DEF CleanInv, ControlOK
    <3>3. QED
      BY <1>0, <2>2, <3>2, OtherTarget, Zenon
  <2>3. QED
    BY <2>1, <2>2, Zenon
<1>6. scan' = scan /\ orphan' = orphan /\ restarts' = restarts
  BY <1>0, Zenon DEF FrameOK, ControlOK
<1>7. ASSUME NEW w \in Volumes, \A u \in Targets : VolumeOf[u] # w
      PROVE  volState'[w] = None /\ pod'[w] = "none"
  BY <1>0, <1>7, Zenon DEF CleanInv, FrameOK
<1>8. ASSUME NEW w \in Volumes, NEW d \in Devices, conn'[d] = w
      PROVE  Tied(w, d)'
  <2>1. CASE w = v /\ conn[d] # v
    BY <1>0, <1>8, <2>1, Zenon DEF LinksOK, Tied
  <2>2. CASE w # v \/ conn[d] = v
    <3>1. conn[d] = w
      BY <1>0, <1>8, <2>2, SentinelsAssumption, Zenon DEF FrameOK
    <3>2. Tied(w, d)
      BY <3>1, Zenon DEF CleanInv
    <3>3. CASE volState[w] = d
      BY <1>0, <1>8, <3>3, Zenon DEF FrameOK, LinksOK, Tied
    <3>4. CASE d \in scan \/ d = orphan
      BY <1>6, <3>4, Zenon DEF Tied
    <3>5. ASSUME NEW u \in Targets, VolumeOf[u] = w, mounts[u] = <<d>>
          PROVE  Tied(w, d)'
      <4>1. CASE u # t
        BY <1>0, <3>5, <4>1, Zenon DEF FrameOK, Tied
      <4>2. CASE u = t /\ mounts'[t] = <<d>>
        BY <3>5, <4>2, Zenon DEF Tied
      <4>3. CASE u = t /\ pc'[h] = "recover" /\ src'[h] = <<d>>
        BY <3>5, <4>3, Zenon DEF Tied, Volume, ControlOK
      <4>4. QED
        BY <1>0, <1>8, <3>5, <4>1, <4>2, <4>3, Zenon DEF TiesOK
    <3>6. ASSUME NEW k \in Handlers, pc[k] \in {"recover", "detach"},
                 Volume(k) = w, src[k] = <<d>>
          PROVE  Tied(w, d)'
      <4>1. CASE k # h
        BY <3>6, <4>1, Zenon DEF ControlOK, Tied, Volume
      <4>2. CASE k = h
        <5>1. w = v
          BY <3>6, <4>2, Zenon DEF Active, Volume
        <5>2. pc'[h] = "detach" /\ src'[h] = <<d>>
          BY <1>0, <1>8, <3>6, <4>2, <5>1, Zenon DEF TiesOK
        <5>3. QED
          BY <5>1, <5>2, Zenon DEF Tied, Volume, ControlOK
      <4>3. QED
        BY <4>1, <4>2, Zenon
    <3>7. QED
      BY <3>2, <3>3, <3>4, <3>5, <3>6, Zenon DEF Tied
  <2>3. QED
    BY <2>1, <2>2, Zenon
<1>9. ASSUME NEW u \in Targets, NEW d \in scan', mounts'[u] = <<d>>
      PROVE  conn'[d] = VolumeOf[u] \/ LinkRecorded(d)'
  <2>1. d \in scan /\ d \in Devices
    BY <1>6, Zenon DEF CleanInv, TypeOK
  <2>2. \/ mounts[u] = <<d>> /\ conn[d] = VolumeOf[u]
        \/ LinkRecorded(d)
    BY <1>0, <1>9, <2>1, Zenon DEF FrameOK, MountsOK, CleanInv
  <2>3. CASE LinkRecorded(d)
    BY <1>0, <2>1, <2>3, LinkKept, Zenon
  <2>4. CASE conn[d] = VolumeOf[u] /\ conn'[d] # VolumeOf[u]
    <3>1. conn'[d] \notin Volumes \/ (conn'[d] = v /\ volState'[v] = d)
      BY <1>0, <2>1, <2>4, SentinelsAssumption, Zenon DEF FrameOK, LinksOK
    <3>2. QED
      BY <3>1, Zenon DEF LinkRecorded
  <2>5. QED
    BY <2>2, <2>3, <2>4, Zenon
<1>10. \A u \in Targets : mounts'[u] # <<>> => u \in dirs'
  BY <1>0, Zenon DEF FrameOK
<1>11. restarts' = 0 => scan' = {} /\ orphan' = None
  BY <1>6, Zenon DEF CleanInv
<1>12. QED
  BY <1>2, <1>3, <1>4, <1>5, <1>7, <1>8, <1>9, <1>10, <1>11, Zenon
  DEF CleanInv

-----------------------------------------------------------------------------
(* What the steps do to the kernel's state and to the state files.         *)

Searching(h) == pc[h] \in {"recover", "detach"}

\* Steps that leave connections, mounts and state files alone.
LEMMA QuietEffects ==
    ASSUME CleanInv, NEW h \in Handlers, NEW t \in Targets,
           UNCHANGED <<conn, mounts, volState, restarts>>, dirs \subseteq dirs',
           \A w \in Volumes \ {VolumeOf[t]} : pod[w] = "none" => pod'[w] = "none",
           Searching(h) => \A d \in Devices : src[h] = <<d>> =>
                               pc'[h] = "detach" /\ src'[h] = <<d>>
    PROVE  EffectsOK(h, t)
<1>1. FrameOK(t)
  BY Zenon DEF FrameOK, CleanInv
<1>2. LinksOK(t) /\ MountsOK(t)
  BY Zenon DEF LinksOK, MountsOK
<1>3. TiesOK(h, t)
  BY Zenon DEF TiesOK, Searching
<1>4. QED
  BY <1>1, <1>2, <1>3, Zenon DEF EffectsOK

\* umount of the only mount of the target.
LEMMA UnmountEffects ==
    ASSUME CleanInv, NEW h \in Handlers, NEW t \in Targets, ~Searching(h),
           UNCHANGED <<volState, pod, restarts>>,
           NEW s, mounts[t] = <<s>>, Unmount(t),
           s \in Devices => pc'[h] = "recover" /\ src'[h] = <<s>>
    PROVE  /\ EffectsOK(h, t) /\ mounts'[t] = <<>> /\ dirs' = dirs
           /\ \A d \in Devices : conn'[d] \in {conn[d], None}
<1>1. SubSeq(<<s>>, 1, Len(<<s>>) - 1) = <<>>
  OBVIOUS
<1>2. mounts' = [mounts EXCEPT ![t] = <<>>] /\ dirs' = dirs
  BY <1>1, Zenon DEF Unmount
<1>3. mounts'[t] = <<>> /\ \A u \in Targets \ {t} : mounts'[u] = mounts[u]
  BY <1>2, Zenon DEF CleanInv, TypeOK, NbdTypeOK
<1>4. \A d \in Devices : conn'[d] \in {conn[d], None}
  BY Zenon DEF Unmount, Released
<1>5. FrameOK(t)
  BY <1>2, <1>3, <1>4, Zenon DEF FrameOK, CleanInv
<1>6. LinksOK(t)
  BY <1>4, OwnVolume, Zenon DEF LinksOK
<1>7. MountsOK(t)
  BY <1>3 DEF MountsOK
<1>8. TiesOK(h, t)
  <2> SUFFICES ASSUME NEW d \in Devices, mounts[t] = <<d>>
               PROVE  pc'[h] = "recover" /\ src'[h] = <<d>>
    BY Zenon DEF TiesOK, Searching
  <2>1. d = s
    OBVIOUS
  <2>2. QED
    BY <2>1, Zenon
<1>9. QED
  BY <1>2, <1>3, <1>4, <1>5, <1>6, <1>7, <1>8, Zenon DEF EffectsOK

\* mount on a target without a mount.
LEMMA MountEffects ==
    ASSUME CleanInv, NEW h \in Handlers, NEW t \in Targets, ~Searching(h),
           UNCHANGED <<volState, pod, restarts>>,
           NEW s, mounts[t] = <<>>, Mount(t, s),
           s = NineP \/ (s \in Devices /\ LinkRecorded(s))
    PROVE  EffectsOK(h, t) /\ mounts'[t] = <<s>>
<1>1. mounts' = [mounts EXCEPT ![t] = <<s>>] /\ conn' = conn /\ dirs' = dirs
      /\ t \in dirs
  <2>1. Append(<<>>, s) = <<s>>
    OBVIOUS
  <2>2. QED
    BY <2>1, Zenon DEF Mount
<1>2. mounts'[t] = <<s>> /\ \A u \in Targets \ {t} : mounts'[u] = mounts[u]
  BY <1>1, Zenon DEF CleanInv, TypeOK, NbdTypeOK
<1>3. FrameOK(t)
  BY <1>1, <1>2, Zenon DEF FrameOK, CleanInv
<1>4. LinksOK(t)
  BY <1>1, Zenon DEF LinksOK
<1>5. MountsOK(t)
  <2> SUFFICES ASSUME NEW d \in Devices, mounts'[t] = <<d>>
               PROVE  LinkRecorded(d)
    BY Zenon DEF MountsOK
  <2>1. d = s
    BY <1>2
  <2>2. QED
    BY <2>1, SentinelsAssumption, Zenon
<1>6. TiesOK(h, t)
  <2>1. \A d : <<d>> # <<>>
    OBVIOUS
  <2>2. QED
    BY <2>1, Zenon DEF TiesOK, Searching
<1>7. QED
  BY <1>2, <1>3, <1>4, <1>5, <1>6, Zenon DEF EffectsOK

\* Writing or removing a state file that names no device connected to its
\* volume.
LEMMA FileEffects ==
    ASSUME CleanInv, NEW h \in Handlers, NEW t \in Targets, ~Searching(h),
           UNCHANGED <<conn, mounts, pod, restarts>>,
           dirs \subseteq dirs' \cup {t}, mounts[t] = <<>>,
           NEW x, volState' = [volState EXCEPT ![VolumeOf[t]] = x],
           \A d \in Devices : Recorded(t, d) => conn[d] # VolumeOf[t]
    PROVE  EffectsOK(h, t) /\ volState'[VolumeOf[t]] = x
<1>1. /\ volState'[VolumeOf[t]] = x
      /\ \A w \in Volumes \ {VolumeOf[t]} : volState'[w] = volState[w]
  BY VolumeOfAssumption, Zenon DEF CleanInv, TypeOK, NbdTypeOK
<1>2. FrameOK(t)
  BY <1>1, Zenon DEF FrameOK, CleanInv
<1>3. LinksOK(t)
  BY Zenon DEF LinksOK, Recorded
<1>4. MountsOK(t) /\ TiesOK(h, t)
  BY Zenon DEF MountsOK, TiesOK, Searching
<1>5. QED
  BY <1>1, <1>2, <1>3, <1>4, Zenon DEF EffectsOK

\* nbd-client on the device of the state file.
LEMMA ConnectEffects ==
    ASSUME CleanInv, NEW h \in Handlers, NEW t \in Targets, ~Searching(h),
           UNCHANGED <<mounts, dirs, volState, pod, restarts>>,
           NEW d \in Devices, Recorded(t, d),
           conn' = [conn EXCEPT ![d] = VolumeOf[t]]
    PROVE  EffectsOK(h, t) /\ conn'[d] = VolumeOf[t]
<1>1. /\ conn'[d] = VolumeOf[t]
      /\ \A e \in Devices \ {d} : conn'[e] = conn[e]
  BY Zenon DEF CleanInv, TypeOK, NbdTypeOK
<1>2. FrameOK(t)
  BY <1>1, Zenon DEF FrameOK, CleanInv
<1>3. LinksOK(t)
  BY <1>1, Zenon DEF LinksOK, Recorded
<1>4. MountsOK(t) /\ TiesOK(h, t)
  BY Zenon DEF MountsOK, TiesOK, Searching
<1>5. QED
  BY <1>1, <1>2, <1>3, <1>4, Zenon DEF EffectsOK

\* nbd-client -d.
LEMMA DisconnectEffects ==
    ASSUME CleanInv, NEW h \in Handlers, NEW t \in Targets,
           UNCHANGED <<volState, pod, restarts>>,
           NEW d \in Devices, Disconnect(d), Searching(h) => src[h] = <<d>>
    PROVE  /\ EffectsOK(h, t) /\ UNCHANGED mounts /\ conn'[d] # VolumeOf[t]
           /\ \A e \in Devices : conn'[e] \in {conn[e], None, Dead}
<1>1. /\ conn'[d] \in {None, Dead} /\ UNCHANGED <<mounts, dirs>>
      /\ \A e \in Devices \ {d} : conn'[e] = conn[e]
  BY Zenon DEF Disconnect, CleanInv, TypeOK, NbdTypeOK
<1>2. conn'[d] # VolumeOf[t]
  BY <1>1, OwnVolume, Zenon
<1>3. FrameOK(t)
  BY <1>1, Zenon DEF FrameOK, CleanInv
<1>4. LinksOK(t) /\ MountsOK(t)
  BY <1>1, <1>2, Zenon DEF LinksOK, MountsOK
<1>5. TiesOK(h, t)
  <2>1. \A e \in Devices : Searching(h) /\ src[h] = <<e>> => e = d
    OBVIOUS
  <2>2. QED
    BY <1>1, <1>2, <2>1, Zenon DEF TiesOK, Searching
<1>6. QED
  BY <1>1, <1>2, <1>3, <1>4, <1>5, Zenon DEF EffectsOK

\* umount where at most ZeroFS' export is mounted.
LEMMA UnmountExport ==
    ASSUME CleanInv, NEW h \in Handlers, NEW t \in Targets, ~Searching(h),
           UNCHANGED <<volState, pod, restarts>>,
           mounts[t] \in {<<>>, <<NineP>>},
           Unmount(t) \/ (mounts[t] = <<>> /\ UNCHANGED kernel)
    PROVE  EffectsOK(h, t) /\ mounts'[t] = <<>>
<1>1. CASE Unmount(t)
  <2>1. mounts[t] = <<NineP>> /\ NineP \notin Devices
    BY <1>1, SentinelsAssumption, Zenon DEF Unmount
  <2>2. QED
    BY <1>1, <2>1, UnmountEffects, Zenon
<1>2. CASE mounts[t] = <<>> /\ UNCHANGED kernel
  <2>1. UNCHANGED <<conn, mounts, dirs>>
    BY <1>2, Zenon DEF kernel
  <2>2. QED
    BY <1>2, <2>1, QuietEffects, Zenon
<1>3. QED
  BY <1>1, <1>2, Zenon

-----------------------------------------------------------------------------
(* The handlers' steps.                                                    *)

\* What is known of a handler at work ...
CleanSituation(h, t) ==
    /\ tgt[h] = t /\ Volume(h) = VolumeOf[t] /\ VolumeOf[t] \in Volumes
    /\ dev \in [Handlers -> Devices \cup {None}]
    /\ src \in [Handlers -> Seq(MountSources \cup {HostFs})]
    /\ HandlerClean(h) /\ h \in waiting
    /\ kub[t] = "uncertain" \/ (kub[t] = "published" /\ pc[h] = "check")

\* ... and what remains to be shown of its step.
CleanMoves(h, t) ==
    /\ \A l \in Labels :
          /\ Continue(h, l) /\ l # "idle"
          /\ \A k \in Handlers \ {h} : dev'[k] = dev[k] /\ src'[k] = src[k]
          => /\ ControlOK(h, t) /\ pc'[h] = l /\ tgt'[h] = t
             /\ kub'[t] = kub[t] /\ restarts' = restarts
    /\ \A status \in {"none", "uncertain", "published"} :
          Return(h, status) =>
             /\ ControlOK(h, t) /\ pc'[h] = "idle" /\ kub'[t] = status
             /\ restarts' = restarts
    /\ /\ EffectsOK(h, t) /\ ControlOK(h, t)
       /\ pc'[h] = "idle" => Settled(t)'
       /\ pc'[h] # "idle" => HandlerClean(h)'
       => CleanInv'

\* A handler at work has that context.
LEMMA CleanFacts ==
    ASSUME CleanEnvironment, CleanInv, TypeOK', NEW h \in Handlers, Active(h)
    PROVE  \E t \in Targets : CleanSituation(h, t) /\ CleanMoves(h, t)
<1>0. PICK t \in Targets : tgt[h] = t
  BY Zenon DEF CleanInv, TypeOK, Active
<1>1. Volume(h) = VolumeOf[t] /\ VolumeOf[t] \in Volumes
  BY <1>0, VolumeOfAssumption, Zenon DEF Volume
<1>2. HandlerClean(h) /\ h \in waiting
  BY <1>0, Zenon DEF CleanInv
<1>3. kub[t] = "uncertain" \/ (kub[t] = "published" /\ pc[h] = "check")
  <2>1. kub[t] \in {"none", "uncertain", "published"}
    BY Zenon DEF CleanInv, TypeOK
  <2>2. QED
    BY <1>0, <1>2, <2>1, Zenon DEF HandlerClean
<1>4. ASSUME NEW l \in Labels, Continue(h, l), l # "idle",
             \A k \in Handlers \ {h} : dev'[k] = dev[k] /\ src'[k] = src[k]
      PROVE  /\ ControlOK(h, t) /\ pc'[h] = l /\ tgt'[h] = t
             /\ kub'[t] = kub[t] /\ restarts' = restarts
  <2>1. TypeOK /\ waiting = {k \in Handlers : Active(k)}
    BY Zenon DEF CleanInv
  <2>2. restarts' = restarts
    BY <1>4, Zenon DEF Continue
  <2>3. QED
    BY <1>0, <1>4, <2>1, <2>2, ContinueControl, Zenon
<1>5. ASSUME NEW status, Return(h, status)
      PROVE  /\ ControlOK(h, t) /\ pc'[h] = "idle" /\ kub'[t] = status
             /\ restarts' = restarts
  <2>1. TypeOK /\ waiting = {k \in Handlers : Active(k)}
    BY Zenon DEF CleanInv
  <2>2. restarts' = restarts
    BY <1>5, Zenon DEF Return
  <2>3. QED
    BY <1>0, <1>5, <2>1, <2>2, ReturnControl, Zenon
<1>6. \A k \in Handlers \ {h} : Active(k) => tgt[k] # t
  BY <1>0, Zenon DEF CleanInv
<1>7. /\ dev \in [Handlers -> Devices \cup {None}]
      /\ src \in [Handlers -> Seq(MountSources \cup {HostFs})]
  BY Zenon DEF CleanInv, TypeOK
<1>8. /\ EffectsOK(h, t) /\ ControlOK(h, t)
      /\ pc'[h] = "idle" => Settled(t)'
      /\ pc'[h] # "idle" => HandlerClean(h)'
      => CleanInv'
  BY <1>0, <1>6, CleanAssemble, Zenon
<1>9. CleanSituation(h, t)
  BY <1>0, <1>1, <1>2, <1>3, <1>7, Zenon DEF CleanSituation
<1>10. CleanMoves(h, t)
  BY <1>4, <1>5, <1>8, Zenon DEF CleanMoves
<1>11. QED
  BY <1>9, <1>10, Zenon

\* What a step leaves true of its target if it changes neither the mounts
\* nor the state file.
LEMMA SameTarget ==
    ASSUME NEW t \in Targets, mounts'[t] = mounts[t],
           volState'[VolumeOf[t]] = volState[VolumeOf[t]]
    PROVE  /\ Bare(t)' <=> Bare(t)
           /\ Begun(t)' <=> Begun(t)
           /\ Held(t)' <=> Held(t)
           /\ Unrecorded(VolumeOf[t])' <=> Unrecorded(VolumeOf[t])
           /\ \A d \in Devices : /\ Recorded(t, d)' <=> Recorded(t, d)
                                 /\ Holds(t, d)' <=> Holds(t, d)
                                 /\ TakenOff(t, d)' <=> TakenOff(t, d)
  BY Zenon DEF Bare, Begun, Held, Unrecorded, Recorded, Holds, TakenOff

\* Arriving at a label where nothing is on the target.
LEMMA ArriveBare ==
    ASSUME NEW h \in Handlers, NEW t \in Targets, tgt'[h] = t,
           kub'[t] = "uncertain", Bare(t)',
           pc'[h] \in {"unmount_lingering", "lock_stale", "create_pod",
                       "await_pod", "wait_socket", "mount_9p", "create_disk",
                       "umount_9p", "reserve", "cleanup_unmount",
                       "cleanup_read", "cleanup_reservation", "cleanup_pod"}
    PROVE  HandlerClean(h)'
<1>1. Begun(t)'
  BY Zenon DEF Bare, Begun
<1>2. PublishClean(h)'
  BY <1>1, Zenon DEF PublishClean
<1>3. UnpublishClean(h)'
  BY Zenon DEF UnpublishClean
<1>4. QED
  BY <1>2, <1>3, Zenon DEF HandlerClean, CriticalLabels

\* Arriving at a label where ZeroFS' export may be mounted on the target.
LEMMA ArriveBegun ==
    ASSUME NEW h \in Handlers, NEW t \in Targets, tgt'[h] = t,
           kub'[t] = "uncertain", Begun(t)',
           pc'[h] \in {"unmount_lingering", "create_disk", "umount_9p",
                       "cleanup_unmount"}
    PROVE  HandlerClean(h)'
<1>1. PublishClean(h)' /\ UnpublishClean(h)'
  BY Zenon DEF PublishClean, UnpublishClean
<1>2. QED
  BY <1>1, Zenon DEF HandlerClean, CriticalLabels

\* Arriving at a label where the state file names the handler's device.
LEMMA ArriveRecorded ==
    ASSUME NEW h \in Handlers, NEW t \in Targets, tgt'[h] = t,
           kub'[t] = "uncertain", mounts'[t] = <<>>,
           NEW d \in Devices, dev'[h] = d, Recorded(t, d)',
           pc'[h] \in {"connect", "clear_unconnected", "blkid", "mkfs",
                       "mount_fs", "disconnect", "cleanup_unmount",
                       "cleanup_read", "cleanup_detach", "cleanup_state"},
           pc'[h] \in {"connect", "clear_unconnected", "cleanup_state"} =>
              conn'[d] # VolumeOf[t],
           pc'[h] \in {"connect", "blkid", "mkfs", "mount_fs"} =>
              LinkRecorded(d)'
    PROVE  HandlerClean(h)'
<1>1. /\ pc'[h] \in {"connect", "blkid", "mkfs", "mount_fs"} =>
             LinkRecorded(dev[h])'
      /\ Recorded(t, dev[h])' /\ volState'[VolumeOf[t]] \in Devices
  BY Zenon DEF LinkRecorded, Recorded
<1>2. PublishClean(h)'
  BY <1>1, Zenon DEF PublishClean
<1>3. UnpublishClean(h)'
  BY Zenon DEF UnpublishClean
<1>4. QED
  BY <1>2, <1>3, Zenon DEF HandlerClean, CriticalLabels

\* Nothing is read from the state file of a volume without a device.
LEMMA UnrecordedReads ==
    ASSUME NEW v \in Volumes, Unrecorded(v)
    PROVE  readVolumeNBDState(v) = None /\ volState[v] \notin Devices
<1>1. volState[v] \in {None, Empty}
  BY Zenon DEF Unrecorded
<1>2. QED
  BY <1>1, SentinelsAssumption, Zenon DEF readVolumeNBDState

\* A step that leaves connections, mounts and state files alone, to a label
\* where nothing is on the target.
LEMMA StayBare ==
    ASSUME CleanInv, NEW h \in Handlers, NEW t \in Targets, ~Searching(h),
           CleanMoves(h, t), Bare(t), kub[t] = "uncertain",
           UNCHANGED <<conn, mounts, volState>>, dirs \subseteq dirs',
           \A w \in Volumes \ {VolumeOf[t]} : pod[w] = "none" => pod'[w] = "none",
           \A k \in Handlers \ {h} : dev'[k] = dev[k] /\ src'[k] = src[k],
           NEW l \in {"lock_stale", "create_pod", "await_pod", "wait_socket",
                      "mount_9p", "create_disk", "cleanup_unmount",
                      "cleanup_read", "cleanup_pod"},
           Continue(h, l)
    PROVE  CleanInv'
<1>1. /\ ControlOK(h, t) /\ pc'[h] = l /\ tgt'[h] = t
      /\ kub'[t] = kub[t] /\ restarts' = restarts
  BY Zenon DEF CleanMoves, Labels, PublishLabels
<1>2. EffectsOK(h, t)
  BY <1>1, QuietEffects, Zenon
<1>3. Bare(t)'
  BY SameTarget, Zenon
<1>4. HandlerClean(h)'
  BY <1>1, <1>3, ArriveBare, Zenon
<1>5. QED
  BY <1>1, <1>2, <1>4, Zenon DEF CleanMoves

\* The steps of NodePublishVolume up to the mount of ZeroFS' export.
LEMMA CleanFirst ==
    ASSUME CleanEnvironment, CleanInv, TypeOK', NEW h \in Handlers,
           \/ Check(h) \/ UnmountLingering(h) \/ LockStale(h) \/ DetachStale(h)
           \/ ClearStale(h) \/ CreatePod(h) \/ AwaitPod(h) \/ WaitSocket(h)
           \/ Mount9P(h)
    PROVE  CleanInv'
<1> USE DEF At, Advance, Labels, PublishLabels
<1>1. Active(h) /\ pc[h] \notin CriticalLabels /\ ~Searching(h)
  <2>1. Active(h) /\ ~Searching(h)
    BY Zenon DEF Active, Searching, Check, UnmountLingering, LockStale,
       DetachStale, ClearStale, CreatePod, AwaitPod, WaitSocket, Mount9P
  <2>2. QED
    BY <2>1, Zenon DEF CleanInv, HandlerClean
<1>2. PICK t \in Targets : CleanSituation(h, t) /\ CleanMoves(h, t)
  BY <1>1, CleanFacts, Zenon
<1> DEFINE v == VolumeOf[t]
<1> USE DEF CleanSituation, CleanMoves
<1>3. CleanSituation(h, t)
  BY <1>2, Zenon
<1>4. CleanMoves(h, t)
  BY <1>2, Zenon
<1>5. FoundSources(t) = {findMountSource(t)}
  BY Zenon DEF CleanEnvironment, FoundSources, Fails
<1>6. mounts[t] # <<>> => t \in dirs
  BY Zenon DEF CleanInv
<1>7. CASE Check(h)
  <2>1. /\ UNCHANGED <<volState, kernel, zerofs>> /\ Settled(t)
        /\ pc[h] = "check"
    BY <1>3, <1>7, Zenon DEF Check, HandlerClean, PublishClean, nbdFiles
  <2>2. UNCHANGED <<conn, mounts, dirs, volState, pod>>
    BY <2>1, Zenon DEF kernel, zerofs
  <2>3. /\ Bare(t)' <=> Bare(t)
        /\ Begun(t)' <=> Begun(t)
        /\ Held(t)' <=> Held(t)
    BY <2>2, SameTarget, Zenon
  <2>4. restarts' = restarts => EffectsOK(h, t)
    BY <1>1, <2>2, QuietEffects, Zenon
  <2>5. ASSUME NEW d \in Devices, Holds(t, d)
        PROVE  CleanInv'
    <3>1. findMountSource(t) = <<d>>
      BY <1>6, <2>5 DEF findMountSource, Holds
    <3>2. Return(h, "published")
      <4>1. FoundSources(tgt[h]) = {<<d>>}
        BY <1>3, <1>5, <3>1, Zenon
      <4>2. <<d>> # <<>> /\ <<d>>[1] \in Devices
        BY Zenon
      <4>3. QED
        BY <1>7, <4>1, <4>2, Zenon DEF Check
    <3>3. ControlOK(h, t) /\ pc'[h] = "idle" /\ kub'[t] = "published"
          /\ restarts' = restarts
      BY <1>4, <3>2, Zenon
    <3>4. Settled(t)'
      BY <2>3, <2>5, <3>3, Zenon DEF Settled, Held
    <3>5. QED
      BY <1>4, <2>4, <3>3, <3>4, Zenon
  <2>6. CASE Begun(t) /\ kub[t] = "uncertain"
    <3>1. PICK found : found = findMountSource(t)
      BY Zenon
    <3>2. ~(found # <<>> /\ found[1] \in Devices)
          /\ (found = <<>> => mounts[t] = <<>>)
      BY <1>6, <2>6, <3>1, SentinelsAssumption DEF findMountSource, Begun
    <3>3. /\ Continue(h, IF found # <<>> THEN "unmount_lingering"
                         ELSE "lock_stale")
          /\ UNCHANGED <<dev, src>>
      BY <1>3, <1>5, <1>7, <3>1, <3>2, Zenon DEF Check
    <3>4. PICK l \in {"unmount_lingering", "lock_stale"} :
            Continue(h, l) /\ (l = "lock_stale" => mounts[t] = <<>>)
      BY <3>2, <3>3, Zenon
    <3>5. /\ ControlOK(h, t) /\ pc'[h] = l /\ tgt'[h] = t
          /\ kub'[t] = kub[t] /\ restarts' = restarts
      BY <1>4, <3>3, <3>4, Zenon
    <3>6. HandlerClean(h)'
      <4>1. CASE l = "unmount_lingering"
        BY <2>3, <2>6, <3>5, <4>1, ArriveBegun, Zenon
      <4>2. CASE l = "lock_stale"
        <5>1. Bare(t)'
          BY <2>3, <2>6, <3>4, <4>2, Zenon DEF Bare, Begun
        <5>2. QED
          BY <2>6, <3>5, <4>2, <5>1, ArriveBare, Zenon
      <4>3. QED
        BY <4>1, <4>2, Zenon
    <3>7. QED
      BY <1>4, <2>4, <3>5, <3>6, Zenon
  <2>7. QED
    BY <1>3, <2>1, <2>5, <2>6, Zenon DEF Settled, Held, Bare, Begun
<1>8. CASE UnmountLingering(h)
  <2>1. /\ UNCHANGED <<volState, pod, dev, src>> /\ Continue(h, "lock_stale")
        /\ unmountBestEffort(t) /\ pc[h] = "unmount_lingering"
    BY <1>3, <1>8, Zenon DEF UnmountLingering, nbdFiles, zerofs
  <2>2. /\ ControlOK(h, t) /\ pc'[h] = "lock_stale" /\ tgt'[h] = t
        /\ kub'[t] = kub[t] /\ restarts' = restarts
    BY <1>4, <2>1, Zenon
  <2>3. Begun(t) /\ kub[t] = "uncertain"
    BY <1>3, <2>1, Zenon DEF HandlerClean, PublishClean
  <2>4. Unmount(t) \/ (mounts[t] = <<>> /\ UNCHANGED kernel)
    BY <2>1, Zenon
    DEF unmountBestEffort, UnmountFails, CleanEnvironment, Fails
  <2>5. EffectsOK(h, t) /\ mounts'[t] = <<>>
    BY <1>1, <2>1, <2>2, <2>3, <2>4, UnmountExport, Zenon DEF Begun
  <2>6. Bare(t)'
    BY <2>1, <2>3, <2>5, Zenon DEF Begun, Bare, Unrecorded
  <2>7. HandlerClean(h)'
    BY <2>2, <2>3, <2>6, ArriveBare, Zenon
  <2>8. QED
    BY <1>4, <2>2, <2>5, <2>7, Zenon
<1>9. CASE LockStale(h)
  <2>1. Bare(t) /\ kub[t] = "uncertain"
    BY <1>3, <1>9, Zenon DEF LockStale, HandlerClean, PublishClean
  <2>2. readVolumeNBDState(v) = None
    BY <2>1, OwnVolume, UnrecordedReads, Zenon DEF Bare
  <2>3. /\ UNCHANGED <<volState, kernel, pod, dev, src>>
        /\ Continue(h, "create_pod")
    BY <1>3, <1>9, <2>2, Zenon DEF LockStale, nbdFiles, zerofs
  <2>4. QED
    BY <1>1, <1>4, <2>1, <2>3, StayBare, Zenon DEF kernel
<1>10. CASE CreatePod(h)
  <2>1. Bare(t) /\ kub[t] = "uncertain"
    BY <1>3, <1>10, Zenon DEF CreatePod, HandlerClean, PublishClean
  <2>2. PICK l \in {"await_pod", "cleanup_unmount"} :
          /\ UNCHANGED <<conn, mounts, volState, dev, src>>
          /\ dirs \subseteq dirs' /\ Continue(h, l)
    BY <1>10, Zenon DEF CreatePod, nbdFiles
  <2>3. pod' \in {pod, [pod EXCEPT ![v] = IF pod[v] = "none" THEN "starting"
                                          ELSE pod[v]]}
    BY <1>3, <1>10, Zenon DEF CreatePod
  <2>4. pod \in [Volumes -> {"none", "starting", "serving"}]
    BY Zenon DEF CleanInv, TypeOK
  <2>5. \A w \in Volumes \ {v} : pod'[w] = pod[w]
    BY <2>3, <2>4
  <2>6. QED
    BY <1>1, <1>4, <2>1, <2>2, <2>5, StayBare, Zenon
<1>11. CASE AwaitPod(h) \/ WaitSocket(h)
  <2>1. Bare(t) /\ kub[t] = "uncertain"
    BY <1>3, <1>11, Zenon DEF AwaitPod, WaitSocket, HandlerClean, PublishClean
  <2>2. PICK l \in {"wait_socket", "mount_9p", "cleanup_unmount"} :
          UNCHANGED <<volState, kernel, pod, dev, src>> /\ Continue(h, l)
    BY <1>11, Zenon DEF AwaitPod, WaitSocket, nbdFiles, zerofs
  <2>3. QED
    BY <1>1, <1>4, <2>1, <2>2, StayBare, Zenon DEF kernel
<1>12. CASE Mount9P(h)
  <2>1. Bare(t) /\ kub[t] = "uncertain"
    BY <1>3, <1>12, Zenon DEF Mount9P, HandlerClean, PublishClean
  <2>2. UNCHANGED <<volState, pod, dev, src>>
    BY <1>12, Zenon DEF Mount9P, nbdFiles, zerofs
  <2>3. CASE Mount(t, NineP) /\ Continue(h, "create_disk")
    <3>1. /\ ControlOK(h, t) /\ pc'[h] = "create_disk" /\ tgt'[h] = t
          /\ kub'[t] = kub[t] /\ restarts' = restarts
      BY <1>4, <2>2, <2>3, Zenon
    <3>2. EffectsOK(h, t) /\ mounts'[t] = <<NineP>>
      BY <1>1, <2>1, <2>2, <2>3, <3>1, MountEffects, Zenon DEF Bare
    <3>3. Begun(t)'
      BY <2>1, <2>2, <3>2, Zenon DEF Bare, Begun, Unrecorded
    <3>4. HandlerClean(h)'
      BY <2>1, <3>1, <3>3, ArriveBegun, Zenon
    <3>5. QED
      BY <1>4, <3>1, <3>2, <3>4, Zenon
  <2>4. ASSUME NEW l \in {"create_disk", "cleanup_unmount"},
               UNCHANGED kernel, Continue(h, l)
        PROVE  CleanInv'
    BY <1>1, <1>4, <2>1, <2>2, <2>4, StayBare, Zenon DEF kernel
  <2>5. QED
    BY <1>3, <1>12, <2>3, <2>4, Zenon DEF Mount9P
<1>13. QED
  BY <1>1, <1>7, <1>8, <1>9, <1>10, <1>11, <1>12, Zenon
  DEF DetachStale, ClearStale, CriticalLabels

\* The same where the state file names the handler's device.
LEMMA StayRecorded ==
    ASSUME CleanInv, NEW h \in Handlers, NEW t \in Targets, ~Searching(h),
           CleanMoves(h, t), mounts[t] = <<>>, kub[t] = "uncertain",
           NEW d \in Devices, dev[h] = d, Recorded(t, d),
           UNCHANGED <<conn, mounts, dirs, volState, pod, dev, src>>,
           NEW l \in {"clear_unconnected", "mkfs", "mount_fs", "disconnect"},
           l = "clear_unconnected" => conn[d] # VolumeOf[t],
           l \in {"mkfs", "mount_fs"} => LinkRecorded(d),
           Continue(h, l)
    PROVE  CleanInv'
<1>1. /\ ControlOK(h, t) /\ pc'[h] = l /\ tgt'[h] = t
      /\ kub'[t] = kub[t] /\ restarts' = restarts
  BY Zenon DEF CleanMoves, Labels, PublishLabels
<1>2. EffectsOK(h, t)
  BY <1>1, QuietEffects, Zenon
<1>3. Recorded(t, d)' /\ (LinkRecorded(d) => LinkRecorded(d)')
      /\ mounts'[t] = <<>> /\ dev'[h] = d /\ conn'[d] = conn[d]
  BY Zenon DEF Recorded, LinkRecorded
<1>4. HandlerClean(h)'
  BY <1>1, <1>3, ArriveRecorded, Zenon
<1>5. QED
  BY <1>1, <1>2, <1>4, Zenon DEF CleanMoves

\* The steps of NodePublishVolume from the creation of the disk image on.
LEMMA CleanLater ==
    ASSUME CleanEnvironment, CleanInv, TypeOK', NEW h \in Handlers,
           \/ CreateDisk(h) \/ Umount9P(h) \/ Reserve(h) \/ Connect(h)
           \/ ClearUnconnected(h) \/ Blkid(h) \/ Mkfs(h) \/ MountFs(h)
           \/ DisconnectFailed(h)
    PROVE  CleanInv'
<1> USE DEF At, Advance, Labels, PublishLabels
<1>1. Active(h) /\ ~Searching(h)
  BY Zenon DEF Active, Searching, CreateDisk, Umount9P, Reserve, Connect,
     ClearUnconnected, Blkid, Mkfs, MountFs, DisconnectFailed
<1>2. PICK t \in Targets : CleanSituation(h, t) /\ CleanMoves(h, t)
  BY <1>1, CleanFacts, Zenon
<1> DEFINE v == VolumeOf[t]
<1> USE DEF CleanSituation, CleanMoves
<1>3. CleanSituation(h, t)
  BY <1>2, Zenon
<1>4. CleanMoves(h, t)
  BY <1>2, Zenon
<1>5. CASE CreateDisk(h)
  <2>1. Begun(t) /\ kub[t] = "uncertain"
    BY <1>3, <1>5, Zenon DEF CreateDisk, HandlerClean, PublishClean
  <2>2. PICK l \in {"umount_9p", "cleanup_unmount"} :
          UNCHANGED <<volState, kernel, pod, dev, src>> /\ Continue(h, l)
    BY <1>5, Zenon DEF CreateDisk, nbdFiles
  <2>3. /\ ControlOK(h, t) /\ pc'[h] = l /\ tgt'[h] = t
        /\ kub'[t] = kub[t] /\ restarts' = restarts
    BY <1>4, <2>2, Zenon
  <2>4. EffectsOK(h, t)
    BY <1>1, <2>2, <2>3, QuietEffects, Zenon DEF kernel
  <2>5. Begun(t)'
    BY <2>1, <2>2, SameTarget, Zenon DEF kernel
  <2>6. HandlerClean(h)'
    BY <2>1, <2>3, <2>5, ArriveBegun, Zenon
  <2>7. QED
    BY <1>4, <2>3, <2>4, <2>6, Zenon
<1>6. CASE Umount9P(h)
  <2>1. Begun(t) /\ kub[t] = "uncertain"
    BY <1>3, <1>6, Zenon DEF Umount9P, HandlerClean, PublishClean
  <2>2. UNCHANGED <<volState, pod, dev, src>>
    BY <1>6, Zenon DEF Umount9P, nbdFiles, zerofs
  <2>3. CASE Unmount(t) /\ Continue(h, "reserve")
    <3>1. /\ ControlOK(h, t) /\ pc'[h] = "reserve" /\ tgt'[h] = t
          /\ kub'[t] = kub[t] /\ restarts' = restarts
      BY <1>4, <2>2, <2>3, Zenon
    <3>2. EffectsOK(h, t) /\ mounts'[t] = <<>>
      BY <1>1, <2>1, <2>2, <2>3, <3>1, UnmountExport, Zenon DEF Begun
    <3>3. Bare(t)'
      BY <2>1, <2>2, <3>2, Zenon DEF Begun, Bare, Unrecorded
    <3>4. HandlerClean(h)'
      BY <2>1, <3>1, <3>3, ArriveBare, Zenon
    <3>5. QED
      BY <1>4, <3>1, <3>2, <3>4, Zenon
  <2>4. CASE UNCHANGED kernel /\ Continue(h, "cleanup_unmount")
    <3>1. /\ ControlOK(h, t) /\ pc'[h] = "cleanup_unmount" /\ tgt'[h] = t
          /\ kub'[t] = kub[t] /\ restarts' = restarts
      BY <1>4, <2>2, <2>4, Zenon
    <3>2. EffectsOK(h, t)
      BY <1>1, <2>2, <2>4, <3>1, QuietEffects, Zenon DEF kernel
    <3>3. Begun(t)'
      BY <2>1, <2>2, <2>4, SameTarget, Zenon DEF kernel
    <3>4. HandlerClean(h)'
      BY <2>1, <3>1, <3>3, ArriveBegun, Zenon
    <3>5. QED
      BY <1>4, <3>1, <3>2, <3>4, Zenon
  <2>5. QED
    BY <1>3, <1>6, <2>3, <2>4, Zenon DEF Umount9P, UnmountFails
<1>7. CASE Reserve(h)
  <2>1. Bare(t) /\ kub[t] = "uncertain"
    BY <1>3, <1>7, Zenon DEF Reserve, HandlerClean, PublishClean
  <2>2. readVolumeNBDState(v) = None /\ volState[v] \notin Devices
    BY <2>1, OwnVolume, UnrecordedReads, Zenon DEF Bare
  <2>3. UNCHANGED <<conn, mounts, dirs, pod, src>>
    BY <1>7, Zenon DEF Reserve, kernel, zerofs
  <2>4. \A d \in Devices : Recorded(t, d) => conn[d] # v
    BY <2>2, Zenon DEF Recorded
  <2>5. ASSUME NEW d \in Devices, NEW unreadable,
               reserveNBDDevice(v, d, unreadable),
               dev' = [dev EXCEPT ![h] = d], Continue(h, "connect")
        PROVE  CleanInv'
    <3>1. TakeReservation(v, d, unreadable)
      BY <2>2, <2>5, SentinelsAssumption, Zenon
      DEF reserveNBDDevice, ReuseReservation
    <3>2. volState' = [volState EXCEPT ![v] = d] /\ conn[d] = None
      BY <3>1, Zenon
      DEF TakeReservation, FirstReservable, Reservable, isNBDConnected
    <3>3. dev'[h] = d /\ \A k \in Handlers \ {h} : dev'[k] = dev[k]
      BY <1>3, <2>5, Zenon
    <3>4. /\ ControlOK(h, t) /\ pc'[h] = "connect" /\ tgt'[h] = t
          /\ kub'[t] = kub[t] /\ restarts' = restarts
      BY <1>4, <2>3, <2>5, <3>3, Zenon
    <3>5. EffectsOK(h, t) /\ volState'[v] = d
      BY <1>1, <2>1, <2>3, <2>4, <3>2, <3>4, FileEffects, Zenon DEF Bare
    <3>6. /\ mounts'[t] = <<>> /\ Recorded(t, d)' /\ conn'[d] # v
          /\ LinkRecorded(d)'
      BY <2>1, <2>3, <3>2, <3>5, OwnVolume, SentinelsAssumption, Zenon
      DEF Bare, Recorded, LinkRecorded
    <3>7. HandlerClean(h)'
      BY <2>1, <3>3, <3>4, <3>6, ArriveRecorded, Zenon
    <3>8. QED
      BY <1>4, <3>4, <3>5, <3>7, Zenon
  <2>6. ASSUME NEW unreadable, ReserveFails(v, unreadable), dev' = dev,
               Continue(h, "cleanup_unmount")
        PROVE  CleanInv'
    <3>1. PICK x : volState' = [volState EXCEPT ![v] = x]
                   /\ (x = volState[v] \/ (x = Empty /\ Fails("write_state")))
      <4>1. volState = [volState EXCEPT ![v] = volState[v]]
        BY Zenon DEF CleanInv, TypeOK, NbdTypeOK
      <4>2. QED
        BY <2>6, <4>1, Zenon DEF ReserveFails, nbdFiles
    <3>2. /\ ControlOK(h, t) /\ pc'[h] = "cleanup_unmount" /\ tgt'[h] = t
          /\ kub'[t] = kub[t] /\ restarts' = restarts
      BY <1>4, <2>3, <2>6, Zenon
    <3>3. EffectsOK(h, t) /\ volState'[v] = x
      BY <1>1, <2>1, <2>3, <2>4, <3>1, <3>2, FileEffects, Zenon DEF Bare
    <3>4. Bare(t)'
      BY <2>1, <2>3, <3>1, <3>3, Zenon DEF Bare, Unrecorded
    <3>5. HandlerClean(h)'
      BY <2>1, <3>2, <3>4, ArriveBare, Zenon
    <3>6. QED
      BY <1>4, <3>2, <3>3, <3>5, Zenon
  <2>7. QED
    BY <1>3, <1>7, <2>5, <2>6, Zenon DEF Reserve
<1>8. ASSUME pc[h] \in {"connect", "clear_unconnected", "blkid", "mkfs",
                        "mount_fs", "disconnect"}
      PROVE  CleanInv'
  <2>1. PICK d \in Devices : d = dev[h]
    BY <1>8, Zenon DEF CleanInv, TypeOK, DeviceLabels
  <2>2. /\ mounts[t] = <<>> /\ Recorded(t, d) /\ kub[t] = "uncertain"
        /\ pc[h] \in {"connect", "clear_unconnected"} => conn[d] # v
        /\ pc[h] \in {"connect", "blkid", "mkfs", "mount_fs"} =>
              LinkRecorded(d)
    BY <1>3, <1>8, <2>1, Zenon DEF HandlerClean, PublishClean
  <2>3. ASSUME NEW l \in {"clear_unconnected", "mkfs", "mount_fs",
                          "disconnect"},
               UNCHANGED <<nbdFiles, kernel, pod, dev, src>>, Continue(h, l),
               l = "clear_unconnected" => conn[d] # v,
               l \in {"mkfs", "mount_fs"} => LinkRecorded(d)
        PROVE  CleanInv'
    BY <1>1, <1>4, <2>1, <2>2, <2>3, StayRecorded, Zenon DEF nbdFiles, kernel
  <2>4. CASE /\ Connect(h) /\ Continue(h, "blkid")
             /\ conn' = [conn EXCEPT ![d] = v]
    <3>1. UNCHANGED <<mounts, dirs, volState, pod, dev, src>>
      BY <2>4, Zenon DEF Connect, nbdFiles, zerofs
    <3>2. /\ ControlOK(h, t) /\ pc'[h] = "blkid" /\ tgt'[h] = t
          /\ kub'[t] = kub[t] /\ restarts' = restarts
      BY <1>4, <2>4, <3>1, Zenon
    <3>3. EffectsOK(h, t) /\ conn'[d] = v
      BY <1>1, <2>2, <2>4, <3>1, <3>2, ConnectEffects, Zenon
    <3>4. Recorded(t, d)' /\ LinkRecorded(d)' /\ mounts'[t] = <<>>
          /\ dev'[h] = d
      BY <2>1, <2>2, <3>1, <3>3, Zenon DEF Recorded, LinkRecorded
    <3>5. HandlerClean(h)'
      BY <2>2, <3>2, <3>4, ArriveRecorded, Zenon
    <3>6. QED
      BY <1>4, <3>2, <3>3, <3>5, Zenon
  <2>5. CASE ClearUnconnected(h)
    <3>1. /\ UNCHANGED <<conn, mounts, dirs, pod, dev, src>>
          /\ volState' = [volState EXCEPT ![v] = None]
          /\ Continue(h, "cleanup_unmount") /\ conn[d] # v
      BY <1>3, <2>2, <2>5, Zenon
      DEF ClearUnconnected, clearVolumeNBDState, RemoveVolumeFile, kernel,
          zerofs
    <3>2. /\ ControlOK(h, t) /\ pc'[h] = "cleanup_unmount" /\ tgt'[h] = t
          /\ kub'[t] = kub[t] /\ restarts' = restarts
      BY <1>4, <3>1, Zenon
    <3>3. EffectsOK(h, t) /\ volState'[v] = None
      BY <1>1, <2>2, <3>1, <3>2, FileEffects, Zenon DEF Recorded
    <3>4. Bare(t)'
      BY <2>2, <3>1, <3>3, Zenon DEF Bare, Unrecorded
    <3>5. HandlerClean(h)'
      BY <2>2, <3>2, <3>4, ArriveBare, Zenon
    <3>6. QED
      BY <1>4, <3>2, <3>3, <3>5, Zenon
  <2>6. CASE MountFs(h) /\ Mount(t, d) /\ Return(h, "published")
    <3>1. UNCHANGED <<volState, pod>> /\ pc[h] = "mount_fs"
      BY <2>6, Zenon DEF MountFs, nbdFiles, zerofs
    <3>2. /\ ControlOK(h, t) /\ pc'[h] = "idle" /\ kub'[t] = "published"
          /\ restarts' = restarts
      BY <1>4, <2>6, Zenon
    <3>3. EffectsOK(h, t) /\ mounts'[t] = <<d>>
      BY <1>1, <2>2, <2>6, <3>1, <3>2, MountEffects, Zenon
    <3>4. Settled(t)'
      BY <2>2, <3>1, <3>2, <3>3, Zenon DEF Settled, Held, Holds, Recorded
    <3>5. QED
      BY <1>4, <3>2, <3>3, <3>4, Zenon
  <2>7. CASE DisconnectFailed(h)
    <3>1. /\ UNCHANGED <<volState, pod, dev, src>> /\ Disconnect(d)
          /\ Continue(h, "cleanup_unmount")
      BY <2>1, <2>7, Zenon
      DEF DisconnectFailed, CleanEnvironment, Fails, nbdFiles, zerofs
    <3>2. /\ ControlOK(h, t) /\ pc'[h] = "cleanup_unmount" /\ tgt'[h] = t
          /\ kub'[t] = kub[t] /\ restarts' = restarts
      BY <1>4, <3>1, Zenon
    <3>3. EffectsOK(h, t) /\ UNCHANGED mounts
      BY <1>1, <3>1, <3>2, DisconnectEffects, Zenon
    <3>4. Recorded(t, d)' /\ mounts'[t] = <<>> /\ dev'[h] = d
      BY <2>1, <2>2, <3>1, <3>3, Zenon DEF Recorded
    <3>5. HandlerClean(h)'
      BY <2>2, <3>2, <3>4, ArriveRecorded, Zenon
    <3>6. QED
      BY <1>4, <3>2, <3>3, <3>5, Zenon
  <2>8. CASE Connect(h)
    BY <1>3, <2>1, <2>2, <2>3, <2>4, <2>8, Zenon DEF Connect, kernel, zerofs
  <2>9. CASE Blkid(h) \/ Mkfs(h)
    BY <2>2, <2>3, <2>9, Zenon DEF Blkid, Mkfs, zerofs
  <2>10. CASE MountFs(h)
    BY <1>3, <2>1, <2>3, <2>6, <2>10, Zenon DEF MountFs, zerofs
  <2>11. QED
    BY <1>8, <2>5, <2>7, <2>8, <2>9, <2>10, Zenon
    DEF CreateDisk, Umount9P, Reserve
<1>9. QED
  BY <1>5, <1>6, <1>7, <1>8, Zenon
  DEF Connect, ClearUnconnected, Blkid, Mkfs, MountFs, DisconnectFailed

\* A handler removes the pod of its own volume.
LEMMA PodRemoved ==
    ASSUME CleanEnvironment, CleanInv, NEW h \in Handlers, NEW t \in Targets,
           CleanSituation(h, t), RemovePod(h)
    PROVE  /\ pod'[VolumeOf[t]] = "none"
           /\ \A w \in Volumes : pod[w] = "none" => pod'[w] = "none"
<1>1. pod' = [pod EXCEPT ![VolumeOf[t]] = "none"]
  BY Zenon DEF RemovePod, CleanSituation, CleanEnvironment, Fails
<1>2. QED
  BY <1>1, VolumeOfAssumption, Zenon DEF CleanInv, TypeOK

\* The deferred cleanup.
LEMMA CleanCleanup ==
    ASSUME CleanEnvironment, CleanInv, TypeOK', NEW h \in Handlers, Cleanup(h)
    PROVE  CleanInv'
<1> USE DEF At, Labels, PublishLabels
<1>1. Active(h) /\ ~Searching(h)
  BY Zenon DEF Active, Searching, Cleanup, CleanupUnmount, CleanupRead,
     CleanupDetach, CleanupState, CleanupReservation, CleanupPod
<1>2. PICK t \in Targets : CleanSituation(h, t) /\ CleanMoves(h, t)
  BY <1>1, CleanFacts, Zenon
<1> DEFINE v == VolumeOf[t]
<1> USE DEF CleanSituation, CleanMoves
<1>3. CleanSituation(h, t)
  BY <1>2, Zenon
<1>4. CleanMoves(h, t)
  BY <1>2, Zenon
<1>5. kub[t] = "uncertain"
  BY <1>3, Zenon
  DEF Cleanup, CleanupUnmount, CleanupRead, CleanupDetach, CleanupState,
      CleanupReservation, CleanupPod
<1>6. CASE CleanupUnmount(h)
  <2>1. /\ UNCHANGED <<volState, pod, dev, src>>
        /\ Continue(h, "cleanup_read") /\ unmountBestEffort(t)
    BY <1>3, <1>6, Zenon DEF CleanupUnmount, nbdFiles, zerofs
  <2>2. /\ ControlOK(h, t) /\ pc'[h] = "cleanup_read" /\ tgt'[h] = t
        /\ kub'[t] = kub[t] /\ restarts' = restarts
    BY <1>4, <2>1, Zenon
  <2>3. Begun(t) \/ (mounts[t] = <<>> /\ volState[v] \in Devices)
    BY <1>3, <1>6, Zenon DEF CleanupUnmount, HandlerClean, PublishClean
  <2>4. Unmount(t) \/ (mounts[t] = <<>> /\ UNCHANGED kernel)
    BY <2>1, Zenon
    DEF unmountBestEffort, UnmountFails, CleanEnvironment, Fails
  <2>5. EffectsOK(h, t) /\ mounts'[t] = <<>>
    BY <1>1, <2>1, <2>2, <2>3, <2>4, UnmountExport, Zenon DEF Begun
  <2>6. Bare(t)' \/ (mounts'[t] = <<>> /\ volState'[v] \in Devices)
    BY <2>1, <2>3, <2>5, Zenon DEF Begun, Bare, Unrecorded
  <2>7. HandlerClean(h)'
    BY <1>5, <2>2, <2>6, Zenon
    DEF HandlerClean, PublishClean, UnpublishClean, CriticalLabels
  <2>8. QED
    BY <1>4, <2>2, <2>5, <2>7, Zenon
<1>7. CASE CleanupRead(h)
  <2>1. UNCHANGED <<conn, mounts, dirs, volState, pod, src>>
    BY <1>7, Zenon DEF CleanupRead, nbdFiles, kernel, zerofs
  <2>2. \A k \in Handlers \ {h} : dev'[k] = dev[k] /\ src'[k] = src[k]
    BY <1>3, <1>7, <2>1, Zenon DEF CleanupRead
  <2>3. CASE Bare(t)
    <3>1. readVolumeNBDState(v) = None
      BY <2>3, OwnVolume, UnrecordedReads, Zenon DEF Bare
    <3>2. Continue(h, "cleanup_pod")
      BY <1>3, <1>7, <3>1, Zenon DEF CleanupRead
    <3>3. QED
      BY <1>1, <1>4, <1>5, <2>1, <2>2, <2>3, <3>2, StayBare, Zenon
  <2>4. ASSUME mounts[t] = <<>>, NEW d \in Devices, volState[v] = d
        PROVE  CleanInv'
    <3>1. readVolumeNBDState(v) = d /\ d # None
      BY <2>4, SentinelsAssumption, Zenon DEF readVolumeNBDState
    <3>2. Continue(h, "cleanup_detach") /\ dev'[h] = d
      BY <1>3, <1>7, <3>1, Zenon DEF CleanupRead
    <3>3. /\ ControlOK(h, t) /\ pc'[h] = "cleanup_detach" /\ tgt'[h] = t
          /\ kub'[t] = kub[t] /\ restarts' = restarts
      BY <1>4, <2>2, <3>2, Zenon
    <3>4. EffectsOK(h, t)
      BY <1>1, <2>1, <3>3, QuietEffects, Zenon
    <3>5. Recorded(t, d)' /\ mounts'[t] = <<>>
      BY <2>1, <2>4, Zenon DEF Recorded
    <3>6. HandlerClean(h)'
      BY <1>5, <3>2, <3>3, <3>5, ArriveRecorded, Zenon
    <3>7. QED
      BY <1>4, <3>3, <3>4, <3>6, Zenon
  <2>5. QED
    BY <1>3, <1>7, <2>3, <2>4, Zenon
    DEF CleanupRead, HandlerClean, PublishClean
<1>8. CASE CleanupDetach(h)
  <2>1. PICK d \in Devices : d = dev[h]
    BY <1>8, Zenon DEF CleanInv, TypeOK, DeviceLabels, CleanupDetach
  <2>2. mounts[t] = <<>> /\ Recorded(t, d)
    BY <1>3, <1>8, <2>1, Zenon DEF CleanupDetach, HandlerClean, PublishClean
  <2>3. /\ UNCHANGED <<volState, pod, dev, src>> /\ Disconnect(d)
        /\ Continue(h, "cleanup_state")
    BY <1>8, <2>1, Zenon
    DEF CleanupDetach, detachNBDDeviceBestEffort, CleanEnvironment, Fails,
        nbdFiles, zerofs
  <2>4. /\ ControlOK(h, t) /\ pc'[h] = "cleanup_state" /\ tgt'[h] = t
        /\ kub'[t] = kub[t] /\ restarts' = restarts
    BY <1>4, <2>3, Zenon
  <2>5. EffectsOK(h, t) /\ UNCHANGED mounts /\ conn'[d] # v
    BY <1>1, <2>3, <2>4, DisconnectEffects, Zenon
  <2>6. Recorded(t, d)' /\ mounts'[t] = <<>> /\ dev'[h] = d
    BY <2>1, <2>2, <2>3, <2>5, Zenon DEF Recorded
  <2>7. HandlerClean(h)'
    BY <1>5, <2>4, <2>5, <2>6, ArriveRecorded, Zenon
  <2>8. QED
    BY <1>4, <2>4, <2>5, <2>7, Zenon
<1>9. CASE CleanupState(h)
  <2>1. PICK d \in Devices : d = dev[h]
    BY <1>9, Zenon DEF CleanInv, TypeOK, DeviceLabels, CleanupState
  <2>2. mounts[t] = <<>> /\ Recorded(t, d) /\ conn[d] # v
    BY <1>3, <1>9, <2>1, Zenon DEF CleanupState, HandlerClean, PublishClean
  <2>3. /\ UNCHANGED <<conn, mounts, dirs, pod, dev, src>>
        /\ volState' = [volState EXCEPT ![v] = None]
        /\ Continue(h, "cleanup_reservation")
    BY <1>3, <1>9, Zenon DEF CleanupState, RemoveVolumeFile, kernel, zerofs
  <2>4. /\ ControlOK(h, t) /\ pc'[h] = "cleanup_reservation" /\ tgt'[h] = t
        /\ kub'[t] = kub[t] /\ restarts' = restarts
    BY <1>4, <2>3, Zenon
  <2>5. EffectsOK(h, t) /\ volState'[v] = None
    <3>1. \A e \in Devices : Recorded(t, e) => conn[e] # v
      BY <2>2, Zenon DEF Recorded
    <3>2. QED
      BY <1>1, <2>2, <2>3, <2>4, <3>1, FileEffects, Zenon
  <2>6. Bare(t)'
    BY <2>2, <2>3, <2>5, Zenon DEF Bare, Unrecorded
  <2>7. HandlerClean(h)'
    BY <1>5, <2>4, <2>6, ArriveBare, Zenon
  <2>8. QED
    BY <1>4, <2>4, <2>5, <2>7, Zenon
<1>10. CASE CleanupReservation(h)
  <2>1. Bare(t)
    BY <1>3, <1>10, Zenon DEF CleanupReservation, HandlerClean, PublishClean
  <2>2. /\ UNCHANGED <<conn, mounts, dirs, volState, pod, dev, src>>
        /\ Continue(h, "cleanup_pod")
    BY <1>10, Zenon DEF CleanupReservation, kernel, zerofs
  <2>3. QED
    BY <1>1, <1>4, <1>5, <2>1, <2>2, StayBare, Zenon
<1>11. CASE CleanupPod(h)
  <2>1. Bare(t)
    BY <1>3, <1>11, Zenon DEF CleanupPod, HandlerClean, PublishClean
  <2>2. /\ UNCHANGED <<conn, mounts, dirs, volState>> /\ RemovePod(h)
        /\ Return(h, "uncertain")
    BY <1>11, Zenon DEF CleanupPod, nbdFiles, kernel
  <2>3. /\ ControlOK(h, t) /\ pc'[h] = "idle" /\ kub'[t] = "uncertain"
        /\ restarts' = restarts
    BY <1>4, <2>2, Zenon
  <2>4. /\ pod'[v] = "none"
        /\ \A w \in Volumes : pod[w] = "none" => pod'[w] = "none"
    BY <1>3, <2>2, PodRemoved, Zenon
  <2>5. EffectsOK(h, t)
    BY <1>1, <2>2, <2>3, <2>4, QuietEffects, Zenon
  <2>6. Bare(t)'
    BY <2>1, <2>2, SameTarget, Zenon
  <2>7. Settled(t)'
    BY <2>3, <2>4, <2>6, Zenon DEF Settled
  <2>8. QED
    BY <1>4, <2>3, <2>5, <2>7, Zenon
<1>12. QED
  BY <1>6, <1>7, <1>8, <1>9, <1>10, <1>11, Zenon DEF Cleanup

\* NodeUnpublishVolume.
LEMMA CleanUnpublish ==
    ASSUME CleanEnvironment, CleanInv, TypeOK', NEW h \in Handlers,
           Unpublish(h)
    PROVE  CleanInv'
<1> USE DEF At, Labels, UnpublishLabels
<1>1. Active(h) /\ (Searching(h) <=> Recover(h) \/ Detach(h))
  BY Zenon DEF Active, Searching, Unpublish, FindSource, UmountFs, Recover,
     Detach, RemovePodOf, Clear
<1>2. PICK t \in Targets : CleanSituation(h, t) /\ CleanMoves(h, t)
  BY <1>1, CleanFacts, Zenon
<1> DEFINE v == VolumeOf[t]
<1> USE DEF CleanSituation, CleanMoves
<1>3. CleanSituation(h, t)
  BY <1>2, Zenon
<1>4. CleanMoves(h, t)
  BY <1>2, Zenon
<1>5. kub[t] = "uncertain"
  BY <1>3, Zenon
  DEF Unpublish, FindSource, UmountFs, Recover, Detach, RemovePodOf, Clear
<1>6. \A d \in Devices : DeviceArgument(<<d>>) = d /\ d # None
  BY SentinelsAssumption DEF DeviceArgument
<1>7. CASE FindSource(h)
  <2>1. /\ UNCHANGED <<conn, mounts, dirs, volState, pod, dev>>
        /\ Continue(h, "umount_fs")
    BY <1>7, Zenon DEF FindSource, nbdFiles, kernel, zerofs
  <2>2. FoundSources(t) = {findMountSource(t)}
    BY Zenon DEF CleanEnvironment, FoundSources, Fails
  <2>3. /\ src'[h] = findMountSource(t)
        /\ \A k \in Handlers \ {h} : src'[k] = src[k]
    BY <1>3, <1>7, <2>2, Zenon DEF FindSource
  <2>4. /\ ControlOK(h, t) /\ pc'[h] = "umount_fs" /\ tgt'[h] = t
        /\ kub'[t] = kub[t] /\ restarts' = restarts
    BY <1>4, <2>1, <2>3, Zenon
  <2>5. EffectsOK(h, t)
    BY <1>1, <1>7, <2>1, <2>4, QuietEffects, Zenon
       DEF Searching, FindSource
  <2>6. mounts[t] # <<>> => t \in dirs
    BY Zenon DEF CleanInv
  <2>7. \/ DeviceArgument(src'[h]) = None /\ src'[h] # <<>> /\ Begun(t)
        \/ src'[h] = <<>> /\ Bare(t)
        \/ \E d \in Devices : src'[h] = <<d>> /\ Holds(t, d)
    <3>1. CASE Begun(t) /\ t \in dirs
      <4>1. src'[h] \in {<<HostFs>>, <<NineP>>}
        BY <2>3, <3>1, Zenon DEF findMountSource, Begun
      <4>2. DeviceArgument(src'[h]) = None /\ src'[h] # <<>>
        BY <4>1, SentinelsAssumption DEF DeviceArgument
      <4>3. QED
        BY <3>1, <4>2, Zenon
    <3>2. CASE Begun(t) /\ t \notin dirs
      BY <2>3, <2>6, <3>2, Zenon DEF findMountSource, Begun, Bare
    <3>3. ASSUME NEW d \in Devices, Holds(t, d)
          PROVE  src'[h] = <<d>>
      BY <2>3, <2>6, <3>3 DEF findMountSource, Holds
    <3>4. QED
      BY <1>3, <1>7, <3>1, <3>2, <3>3, Zenon
      DEF FindSource, HandlerClean, UnpublishClean, Held
  <2>8. \/ DeviceArgument(src[h])' = None /\ src'[h] # <<>> /\ Begun(t)'
        \/ src'[h] = <<>> /\ Bare(t)'
        \/ \E d \in Devices : src'[h] = <<d>> /\ Holds(t, d)'
    BY <2>1, <2>7, SameTarget, Zenon DEF DeviceArgument
  <2>9. HandlerClean(h)'
    BY <1>5, <2>4, <2>8, Zenon
    DEF HandlerClean, PublishClean, UnpublishClean, CriticalLabels
  <2>10. QED
    BY <1>4, <2>4, <2>5, <2>9, Zenon
<1>8. CASE UmountFs(h)
  <2>1. /\ UNCHANGED <<volState, pod, dev, src>> /\ Continue(h, "recover")
        /\ Unmount(t) \/ (mounts[t] = <<>> /\ UNCHANGED kernel)
        /\ ~Searching(h)
    BY <1>3, <1>8, Zenon
    DEF UmountFs, UnmountFails, CleanEnvironment, Fails, nbdFiles, zerofs,
        Searching
  <2>2. /\ ControlOK(h, t) /\ pc'[h] = "recover" /\ tgt'[h] = t
        /\ kub'[t] = kub[t] /\ restarts' = restarts /\ src'[h] = src[h]
    BY <1>4, <2>1, Zenon
  <2>3. CASE DeviceArgument(src[h]) = None /\ Begun(t)
    <3>1. EffectsOK(h, t) /\ mounts'[t] = <<>>
      BY <2>1, <2>2, <2>3, UnmountExport, Zenon DEF Begun
    <3>2. Bare(t)'
      BY <2>1, <2>3, <3>1, Zenon DEF Begun, Bare, Unrecorded
    <3>3. DeviceArgument(src[h])' = None
      BY <2>2, <2>3, Zenon DEF DeviceArgument
    <3>4. HandlerClean(h)'
      BY <1>5, <2>2, <3>2, <3>3, Zenon
      DEF HandlerClean, PublishClean, UnpublishClean, CriticalLabels
    <3>5. QED
      BY <1>4, <2>2, <3>1, <3>4, Zenon
  <2>4. ASSUME NEW d \in Devices, src[h] = <<d>>, Holds(t, d)
        PROVE  CleanInv'
    <3>1. mounts[t] = <<d>> /\ Unmount(t)
      BY <2>1, <2>4 DEF Holds
    <3>2. EffectsOK(h, t) /\ mounts'[t] = <<>>
      BY <2>1, <2>2, <2>4, <3>1, UnmountEffects, Zenon
    <3>3. TakenOff(t, d)'
      BY <2>1, <2>4, <3>2, Zenon DEF Holds, TakenOff, Recorded, Unrecorded
    <3>4. HandlerClean(h)'
      BY <1>5, <2>2, <2>4, <3>3, Zenon
      DEF HandlerClean, PublishClean, UnpublishClean, CriticalLabels
    <3>5. QED
      BY <1>4, <2>2, <3>2, <3>4, Zenon
  <2>5. DeviceArgument(<<>>) = None /\ (Bare(t) => Begun(t))
    BY DEF DeviceArgument, Bare, Begun
  <2>6. QED
    BY <1>3, <1>8, <2>3, <2>4, <2>5, Zenon
    DEF UmountFs, HandlerClean, UnpublishClean
<1>9. CASE Recover(h)
  <2>1. /\ UNCHANGED <<conn, mounts, dirs, volState, pod, dev>>
        /\ Continue(h, "detach")
    BY <1>9, Zenon DEF Recover, nbdFiles, kernel, zerofs
  <2>2. \/ DeviceArgument(src[h]) = None /\ Bare(t)
        \/ \E d \in Devices : src[h] = <<d>> /\ TakenOff(t, d)
    BY <1>3, <1>9, Zenon DEF Recover, HandlerClean, UnpublishClean
  <2>3. src' = src
    <3>1. src[h] = <<>> => readVolumeNBDState(v) = None
      <4>1. \A d : <<d>> # <<>>
        OBVIOUS
      <4>2. QED
        BY <2>2, <4>1, OwnVolume, UnrecordedReads, Zenon DEF Bare
    <3>2. src' = [src EXCEPT ![h] = src[h]]
      BY <1>3, <1>9, <3>1, Zenon DEF Recover
    <3>3. QED
      BY <1>3, <3>2, Zenon
  <2>4. /\ ControlOK(h, t) /\ pc'[h] = "detach" /\ tgt'[h] = t
        /\ kub'[t] = kub[t] /\ restarts' = restarts /\ src'[h] = src[h]
    BY <1>4, <2>1, <2>3, Zenon
  <2>5. EffectsOK(h, t)
    BY <2>1, <2>4, QuietEffects, Zenon
  <2>6. \/ DeviceArgument(src[h])' = None /\ Bare(t)'
        \/ \E d \in Devices : src'[h] = <<d>> /\ TakenOff(t, d)'
    BY <2>1, <2>2, <2>4, SameTarget, Zenon DEF DeviceArgument
  <2>7. HandlerClean(h)'
    BY <1>5, <2>4, <2>6, Zenon
    DEF HandlerClean, PublishClean, UnpublishClean, CriticalLabels
  <2>8. QED
    BY <1>4, <2>4, <2>5, <2>7, Zenon
<1>10. CASE Detach(h)
  <2>1. /\ UNCHANGED <<volState, pod, dev, src>> /\ Continue(h, "remove_pod")
    BY <1>10, Zenon DEF Detach, nbdFiles, zerofs
  <2>2. /\ ControlOK(h, t) /\ pc'[h] = "remove_pod" /\ tgt'[h] = t
        /\ kub'[t] = kub[t] /\ restarts' = restarts
    BY <1>4, <2>1, Zenon
  <2>3. ASSUME EffectsOK(h, t), mounts'[t] = <<>>,
               \A d \in Devices : volState[v] = d => conn'[d] # v
        PROVE  CleanInv'
    <3>1. HandlerClean(h)'
      BY <1>5, <2>1, <2>2, <2>3, Zenon
      DEF HandlerClean, PublishClean, UnpublishClean, CriticalLabels
    <3>2. QED
      BY <1>4, <2>2, <2>3, <3>1, Zenon
  <2>4. CASE DeviceArgument(src[h]) = None /\ Bare(t)
    <3>1. UNCHANGED <<conn, mounts, dirs>>
      BY <1>10, <2>4, Zenon DEF Detach, kernel
    <3>2. EffectsOK(h, t)
      BY <1>6, <2>1, <2>2, <2>4, <3>1, QuietEffects, Zenon
    <3>3. volState[v] \notin Devices /\ mounts'[t] = <<>>
      BY <2>4, <3>1, OwnVolume, UnrecordedReads, Zenon DEF Bare
    <3>4. QED
      BY <2>3, <3>2, <3>3, Zenon
  <2>5. ASSUME NEW d \in Devices, src[h] = <<d>>, TakenOff(t, d)
        PROVE  CleanInv'
    <3>1. Disconnect(d)
      BY <1>6, <1>10, <2>5, Zenon DEF Detach, CleanEnvironment, Fails
    <3>2. EffectsOK(h, t) /\ UNCHANGED mounts /\ conn'[d] # v
      BY <2>1, <2>2, <2>5, <3>1, DisconnectEffects, Zenon
    <3>3. volState[v] = d \/ volState[v] \notin Devices
      BY <2>5, OwnVolume, UnrecordedReads, Zenon DEF TakenOff, Recorded
    <3>4. QED
      BY <2>3, <2>5, <3>2, <3>3, Zenon DEF TakenOff
  <2>6. QED
    BY <1>3, <1>10, <2>4, <2>5, Zenon DEF Detach, HandlerClean, UnpublishClean
<1>11. CASE RemovePodOf(h)
  <2>1. /\ UNCHANGED <<conn, mounts, dirs, volState, dev, src>>
        /\ RemovePod(h) /\ Continue(h, "clear") /\ ~Searching(h)
    BY <1>11, Zenon DEF RemovePodOf, nbdFiles, kernel, Searching
  <2>2. /\ ControlOK(h, t) /\ pc'[h] = "clear" /\ tgt'[h] = t
        /\ kub'[t] = kub[t] /\ restarts' = restarts
    BY <1>4, <2>1, Zenon
  <2>3. /\ pod'[v] = "none"
        /\ \A w \in Volumes : pod[w] = "none" => pod'[w] = "none"
    BY <1>3, <2>1, PodRemoved, Zenon
  <2>4. EffectsOK(h, t)
    BY <2>1, <2>2, <2>3, QuietEffects, Zenon
  <2>5. mounts[t] = <<>> /\ \A d \in Devices : volState[v] = d => conn[d] # v
    BY <1>3, <1>11, Zenon DEF RemovePodOf, HandlerClean, UnpublishClean
  <2>6. HandlerClean(h)'
    BY <1>5, <2>1, <2>2, <2>3, <2>5, Zenon
    DEF HandlerClean, PublishClean, UnpublishClean, CriticalLabels
  <2>7. QED
    BY <1>4, <2>2, <2>4, <2>6, Zenon
<1>12. CASE Clear(h)
  <2>1. /\ UNCHANGED <<conn, mounts, pod>> /\ Return(h, "none")
        /\ volState' = [volState EXCEPT ![v] = None] /\ ~Searching(h)
        /\ dirs \subseteq dirs' \cup {t}
    BY <1>3, <1>12
    DEF Clear, clearVolumeNBDState, RemoveVolumeFile, zerofs, Searching
  <2>2. /\ ControlOK(h, t) /\ pc'[h] = "idle" /\ kub'[t] = "none"
        /\ restarts' = restarts
    BY <1>4, <2>1, Zenon
  <2>3. /\ mounts[t] = <<>> /\ pod[v] = "none"
        /\ \A d \in Devices : Recorded(t, d) => conn[d] # v
    BY <1>3, <1>12, Zenon
    DEF Clear, HandlerClean, UnpublishClean, Recorded
  <2>4. EffectsOK(h, t) /\ volState'[v] = None
    BY <2>1, <2>2, <2>3, FileEffects, Zenon
  <2>5. Settled(t)'
    BY <2>1, <2>2, <2>3, <2>4, Zenon DEF Settled
  <2>6. QED
    BY <1>4, <2>2, <2>4, <2>5, Zenon
<1>13. QED
  BY <1>7, <1>8, <1>9, <1>10, <1>11, <1>12, Zenon DEF Unpublish

=============================================================================
