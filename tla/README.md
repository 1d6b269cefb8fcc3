# Specifications of the ZeroFS CSI driver

TLA+ models of the ZeroFS CSI driver, their model-checking configurations for
TLC, and proofs for TLAPS. Paths such as `pkg/csi/node.go` are relative to the
repository. `PROJECT.json` holds, for every definition, the lines it models,
and the list of components, hazards, findings and theorems.

## The system

The driver is one Go program with three gRPC services. A volume is a prefix of
an S3 bucket, a *ZeroFS pod* that serves it as 9P and NBD over Unix sockets on
the node where it is used, and on that node an NBD device with a file system
that is mounted on the kubelet's target path.

| Part | Code | Keeps state in | Modelled by |
|---|---|---|---|
| NBD bookkeeping | `pkg/csi/nbd.go` | `/run/zerofs-csi`, kernel devices, mounts | `Nbd` |
| publish, unpublish | `pkg/csi/node.go` 105-492 | goroutine locals, `nbdMu` | `NodeService` |
| startup reconciler | `pkg/csi/node.go` 32-70 | its loop | `NodeService` |
| per-volume pods and Secrets | `pkg/csi/zerofs.go` | API server, informer caches | `ZeroFSPods` |
| shutdown and restart | `pkg/csi/driver.go`, `cmd/driver/main.go` | the process | `NodeService`, `ZeroFSPods` |
| DeleteVolume | `pkg/csi/controller.go`, `controller_delete.go`, `s3_cleanup.go` | the bucket | `VolumeDeletion` |
| the other controller calls, identity, stats, capabilities, staging | `controller.go`, `driver.go`, `node.go` | nothing | not modelled |
| metrics, manifests, scripts | `metrics.go`, `deploy/`, `validation/`, `hack/` | - | not modelled |

What runs concurrently: a goroutine for each gRPC call; the reconciler beside
them; the node plugins and the controller with each other, on API objects whose
names depend only on the volume's id; ZeroFS servers that write to the bucket
while a deletion lists it. What may go wrong: every external command, file
operation and API request may fail; a caller may give up on a call that goes
on; a plugin may be shut down or killed at any point; informers lag behind; pods
may die, hang when they start, be slow to stop or never stop.

## Modules

| Module | Contents |
|---|---|
| `Nbd` | state files, devices, mount table, and the functions of `nbd.go` as operators |
| `NodeService` | handlers, reconciler, kubelet, pods as the node sees them, restarts |
| `NodeProperties` | properties and fairness of `NodeService` |
| `DeviceLease` | abstract specification: what device reservations promise |
| `NodeSerial` | the environment in which the guarantees hold, and the inductive invariant |
| `NodeClean` | what the node service leaves behind: environments and inductive invariants |
| `NodeTypeProofs`, `NodeSerialProofs`, `NodeHandlerProofs`, `NodeCleanProofs` | proofs |
| `ZeroFSPods` | `CreatePod` and `RemovePod`, API server, informers, kubelets, attaching |
| `VolumeDeletion` | extends `ZeroFSPods` by `DeleteVolume` and the bucket; properties of both |
| `VolumeStore` | abstract specification: what the driver promises of the data of volumes |
| `VolumeSerial` | the environments in which the guarantees of volumes hold, the invariants of the proofs, and the mapping to `VolumeStore` |
| `VolumeCallProofs`, `VolumeSerialProofs`, `VolumeDataProofs`, `VolumeServedProofs` | proofs |
| `MCNodeService`, `MCVolumes` | constants for TLC |

### The node

A *handler* is the goroutine of a call, `pc[h]` says where it is. A step is one
external command (`findmnt`, `umount`, `nbd-client`, `blkid`, `mkfs`, `mount`),
one access to the state files, or one critical section of `nbdMu`. The section
at the start of a publish detaches a device while it holds the mutex, and is
three steps. The deferred cleanup of `NodePublishVolume` is a chain of steps
(`cleanup_...`), without the mutex, as in the code; the two removals of
`clearVolumeNBDState` are separate steps there and one step under the mutex.

Details that matter and are easily lost:

- `findmnt --target` answers for an existing directory with the file system
  that holds it. `findMountSource` therefore returns `HostFs` for a target that
  exists and is not mounted, and an unpublish of such a target does not consult
  the state file.
- `nbd-client -d` of a mounted device succeeds; the device is `Dead`, still
  counts as connected, and is released with the last mount.
- mounts are stacked, and `umount` removes the topmost one; several sources
  found by `findmnt` are several lines, which `nbd-client -d` does not take and
  of which `filepath.Base` keeps the last.
- `/run/zerofs-csi` is not a volume of the DaemonSet: a restart loses it, and
  the goroutines, but neither connections nor mounts.
- A call whose caller gave up goes on with a cancelled context. Only requests
  to the API server look at it.

`Faults` is the set of operations that may fail, `MaxTimeouts` and
`MaxRestarts` bound the calls given up and the restarts, `MaxMounts` the
stacked mounts of a target. So every property can be asked for the environment
it needs.

Abstracted: device nodes do not disappear; the reconciler's two looks at a
device (is it connected, is it mounted) are one step, which loses no behaviour,
because detaching is another; the scan of `reserveNBDDevice` is one step, so
that an unlocked removal of a file falls before or after it and never inside;
the pod is `none`, `starting` or `serving` here, and its objects are the
business of `ZeroFSPods`; disk contents are absent, blank or formatted.

### Pods and deletion

A step of a call is one request to the API server or the end of a wait. Reads
of pods go to the cache of the plugin (`cache[p]`), which `Sync` brings up to
date; writes go to the API server. A pod is its node, whether it is ready, and
whether it is terminating; `running` holds the servers that really run, which
outlive the pod object after a forced deletion, as pairs of volume and node: two
servers of one volume on the same node are not told apart, which matters only
after a forced deletion. Attaching and detaching are steps of the cluster, in
which the driver has nothing to do; that a volume is attached only when the
informer of the node knows the present pod of the volume is an assumption.

*Time.* `Tick` lets 15 seconds pass, of which all limits of the code are
multiples: 30 s for a pod that is replaced, 45 s for one that is removed, 30 s
behind a forced deletion, 30 s more in `NodeUnpublishVolume`, the configured
`podReadyTimeoutSeconds` (120 s if it is absent or not positive), and the grace
period of 60 s that `CreatePod` gives a pod. `waited[c]` is the time a call has
spent in its wait, `dying[v]` the time since the deletion of the pod was
requested. A tick brings all caches up to date, and is not taken while a wait
is over or its pod is as it should be: informers lag by less than 15 seconds,
and the waits poll every second. A server takes up to `StopTime` seconds to stop;
with the fault `stuck` it may take for ever.

*The process.* Waits use the context of the driver. `Shutdown` (SIGTERM) ends
it, so that every wait of the plugin is over at once, while `GracefulStop` lets
calls in flight go on; `Restart` ends the process, after a shutdown or without
one (fault `crash`), and with it its calls and its cache. `MaxBreaks` bounds the
calls given up (fault `deadline`), shutdowns and crashes together.

*The bucket* is a set of ordered keys, listed in pages after a cursor. A running
server may store any key of its volume at any time. `Path` says where a key is:
its bucket and the parts of its name. `PodLocation` is where `CreatePod` tells
the server to store, with the default URL if there is none; `DeleteLocation` is
where `DeleteVolume` looks, after `parseS3Location`, which knows no default, and
`joinS3Prefix`, which drops empty and dot parts of a path as `path.Join` does
(`Join`; white space around names is not modelled). The deletion prefix has no
trailing slash: `StartsWith` is the relation "one id is a proper prefix of
another name". It is empty in the runs, as for ids `pvc-<uuid>`.

The fault `read` (errors of cached reads other than "not found") is described
and not enabled: the cache is in memory. With it a plugin takes a pod it cannot
read for a missing one.

`VolumeStore` is the promise: at most one server writes the data of a volume;
data are erased only for a volume whose claim is deleted and whose class says
so; and a confirmation is given when no server runs and, if the data go with
the volume, nothing is left, after which no server is started. `DataPromised`
says that `VolumeDeletion` implements it, by the mapping at the end of
`VolumeSerial`: servers, objects, claims and confirmations are the same, and the
calls, pods, Secrets, caches and clocks are hidden.

## Runs

| Run | Environment | Checks |
|---|---|---|
| `NodeServed` | 2 volumes, 2 devices, 2 handlers; failures up to the connection | `PublishedIsServed`, `NothingFormattedOver`, `DeviceExclusive`, `SerialInv`, `LeasesImplemented` |
| `NodeFailedPublish` | the same with a failure of any command of a publish, pods that die | `TypeOK`, `FailedPublishIsClean`, `CleanInv` |
| `NodeRestart` | 2 volumes, 2 devices, 1 handler, 2 restarts, fair | `UnpublishedIsClean`, `CleanInv`, `AloneInv`, `OrphansDetached` |
| `NodeProgress` | 1 volume, 1 device, 2 overlapping calls, 1 call given up, fair | `MutexDiscipline`, `CallsReturn` |
| `VolumeLifecycle` | 2 nodes and the controller, 2 calls, 7 keys in pages of 1, 4 configurations; failing requests and mounts, 1 crash, `StopTime` 15 | `DataPromised`, `DataDeleted`, `OthersKeepData`, `PublishedHasPod`, `PodFollowsVolume`, `SingleServer`, `CallsAdvance`, `TypeOK`, `VolumeInv`, `ServedInv` |
| `VolumeProgress` | 1 node, 2 calls, 1 call given up or 1 shutdown, pods that are slow or stuck, failing forced deletions and lookups, fair | `ForcedAfterWait`, `PodLostByForce`, `CallsAdvance`, `CallsReturn`, `DeletionSucceeds` |

All pass. Two volumes, two devices and two handlers are the smallest instance in
which calls compete for a device and the scan has a choice; a third volume adds
no new kind of conflict, since a conflict is between two. The handlers are
symmetric, and so are the nodes; symmetry is not used where liveness is checked.
In `VolumeLifecycle` two keys are the volume's, so that pages of one need a
second page, behind a cursor that has passed the first (that a page is longer, or
the last one short, is left to the proofs, which hold for every page size). The
other five are beside it: in a sibling directory, under the id at the top of the
bucket, under the id below another directory, in another bucket, and directly in
the directory of the URL. In `VolumeProgress` a volume has one key and one page:
with two, checking its liveness properties takes too long. That a listing of
several pages goes forward is `CallsAdvance` in `VolumeLifecycle` and the theorem
`CallsGoForward`. The four configurations
are: data that go with the volume, data that are kept, an endpoint that is
missing, and no URL. One crash loses a call in any place and has it repeated;
the theorems below hold for any number of crashes. A scan that cannot read sysfs
happens in `NodeServed`; in the environment of `NodeFailedPublish` it is covered
by `FailedPublishCorrect` alone. One volume is enough in the volume runs because
calls for different volumes share no object but the bucket, where the foreign
keys stand for the others. The volume runs do not check for deadlock: a deleted
volume leaves nothing to do.

Where the environment of a run is narrower than the world, it is because the
property is false beyond it:

- `PublishedIsServed`, `DeviceExclusive` and `NothingFormattedOver` fail if
  `mkfs` or the mount fails (unlocked cleanup), if `umount` or `findmnt` fails,
  or if pods die. `DeviceExclusive` fails also when a reservation grows older
  than two hours or cannot be written, `NothingFormattedOver` if `blkid` fails.
- `FailedPublishIsClean` fails if cleaning up itself fails (detach, umount,
  findmnt, removing the pod, writing the state file).
- `UnpublishedIsClean` fails with two concurrent calls and two restarts, even if
  no command fails. The first restart loses the state files of a volume v2 that
  is mounted. Its unpublish detaches the device, a publish of v1 reserves and
  connects it, the unpublish removes that reservation by the name of the device,
  and the reconciler, which had found the device unmounted, disconnects it. A
  new publish of v2 reserves and connects the same device, and v1 mounts what is
  v2's. The second restart loses the state files; the unpublish of v2 finds
  neither file nor mount, the reconciler passes over the device because v1 has
  it mounted, and it stays connected to v2.
- `SingleServer`, `DataDeleted` and `DataPromised` fail if a pod is deleted by
  force while its server runs on, which happens if a server needs 45 seconds to
  stop, if a plugin is shut down, or if a caller gives up and the call it left
  behind meets the pod of the next one. The last two also fail if the controller
  may not delete pods, or if the lookup of PersistentVolume or StorageClass fails.
- `ForcedOnlyIfStuck` fails from `StopTime` 45 on (run `VolumeForcedEarly`);
  below that no pod is deleted by force at all, and the property says nothing.
  What holds with slow and stuck servers is `ForcedAfterWait`: a call that is
  waited for deletes by force only a pod whose deletion was requested, and not
  before the 45 seconds of `RemovePod` are over, unless its plugin shuts down. A
  call whose caller gave up is not covered: it names the pod and not the object
  it has waited for, and may meet the pod of the call that came after it.
- `PodLostByForce` does not say that forced deletion is harmless, only that
  nothing else leaves a server without its pod.
- `DeletionSucceeds` is about the answer of `DeleteVolume`, not about data: a
  lookup that fails counts as "keep the data" in the code, too. The data are the
  subject of `DataDeleted`, where lookups do not fail.
- `OthersKeepData` is checked for ids none of which starts another name.
- `PublishedHasPod` fails with `StopTime` 30: a pod that is replaced may outlast
  the wait of 30 seconds, and is then found by name and taken for the new one.
  It also fails once a plugin has crashed: the pod a lost call was about to
  remove is reused while it terminates. The property says `breaks = 0` for that.

### Disagreements between code and documentation

These runs end with a violation of what a comment or a document says.

- `NodeUnlockedCleanup`: a publish of v1 fails in `mkfs`. Its cleanup removes
  the state file; a publish of v2 finds a reservation without a state file and
  takes the device; the cleanup removes that reservation; the retry for v1 takes
  the device, too.
- `NodeSecondTarget`: a second pod of the node publishes the same volume. The
  state file of the first one is taken for a stale one.
- `NodeReconcilerRace`: the reconciler finds a device unmounted, a call mounts
  it, the reconciler detaches it.
- `NodeFormatOnError`: the pod restarts while `blkid` runs. No output counts as
  no file system, and `mkfs` runs when the pod is back.
- `VolumeObjectErrors`: `DeleteObjects` reports keys it could not delete, and
  `DeleteVolume` succeeds.
- `VolumeForcedEarly`: nothing fails, but a server takes its grace period of 60
  seconds to stop. After 45 seconds `RemovePod` deletes the pod by force as one
  that is stuck.

## Fairness

Node: weak fairness of each handler's step and of the reconciler (goroutines
run, and commands end), strong fairness of the steps that take `nbdMu`, because
`sync.Mutex` gives the lock to a goroutine that has waited for a millisecond.
Nothing is assumed of the kubelet, of pods or of failures.

Volumes: weak fairness of the steps of a call, of informers, of the end of a
plugin that shuts down, and of the provisioner, which repeats `DeleteVolume`
until it succeeds; strong fairness of `Tick`, because time passes whatever else
happens. Nothing is assumed of the kubelets, whose servers may never start or
stop, of writers, of workloads or of failures.

## Proofs

### The node

For all sets of volumes, targets, devices and handlers, and all bounds that the
assumptions leave open:

| Theorem | Assumes | Shows |
|---|---|---|
| `TypeCorrect` | - | `TypeOK` |
| `MutexCorrect` | - | `MutexDiscipline`: no path returns with the mutex locked |
| `SerialCorrect` | `SerialEnvironment` | `SerialInv` |
| `ServedCorrect` | `SerialEnvironment` | `PublishedIsServed` |
| `FormatCorrect` | the same, `blkid` does not fail | `NothingFormattedOver` |
| `ExclusiveCorrect` | the same, reservations are written and do not expire | `DeviceExclusive` |
| `LeasesCorrect` | `LeaseEnvironment` (both) | `LeasesImplemented`: `Spec` implements `DeviceLease!Spec` |
| `SerialUntilRestart` | `SerialFaults` | `SerialInv`, until the first restart |
| `CleanCorrect` | `CleanEnvironment`, no restarts | `CleanInv` |
| `FailedPublishCorrect` | the same, the state file can be written | `FailedPublishIsClean` |
| `RestartedCorrect` | `CleanEnvironment`, `SerialFaults`, at most one restart | `UnpublishedIsClean`, `CleanInv` |
| `AloneCorrect` | `AloneEnvironment`, any number of restarts | `UnpublishedIsClean`, `CleanInv`, `AloneInv` |

`SerialEnvironment`: one target for each volume, no calls given up, no
restarts, and no failure of `mkfs`, mount, `umount`, `findmnt` or a running pod.
All other failures may happen. `SerialFaults` is the same with restarts.
`CleanEnvironment`: one target for each volume, no calls given up, and no
failure of `umount`, `findmnt`, detaching or removing a pod, which are the
commands that clean up (nor, if the plugin restarts, of reading sysfs, on which
the reconciler depends). Every step of a publish may fail, pods may die,
reservations may expire or not be written. `AloneEnvironment` adds that calls
come one at a time and that reservations are written and do not expire.

`PublishedIsServed` is not inductive: that a call for another volume does not
disturb a published target depends on who owns the device the call works on.
`SerialInv` says of each target either that it is published and linked to the
device its state file names, or that it is vacant, or that exactly one handler
attends to it; and of that handler, by its label, what it has achieved so far
(`PublishOK`) or found (`UnpublishOK`). Ownership runs through connections: a
device that is connected is not reserved by a scan, and a state file that names
a connected device is of the volume it is connected to. Only exclusiveness of
state files needs reservations as well (`RecordsReserved`).

The preservation proof is in two halves. First, each step is shown to change
only what belongs to the target of its handler (`KernelOK`, `FilesOK`,
`PodsOK`, `ControlOK`), from which everything the invariant says of other
targets follows once and for all. Second, action by action, what it says of the
handler's own target. `NodeHandlerProofs` is built in the same way
(`EffectsOK`, `CleanMoves`). The refinement proof maps each step that touches a
state file or a connection to one of the four lease actions, and the others to
stuttering.

That nothing is left behind is a statement about devices that nobody remembers.
`CleanInv` says that there are none: a device connected to a volume is *tied* to
it by the volume's state file, by a mount on its target, by the lines of
`findmnt` that an unpublishing handler keeps, or by the scan of the reconciler
(`Tied`); and it says, label by label, what a handler has mounted and recorded
(`HandlerClean`) and what a target looks like that no handler attends to
(`Settled`). It does not need devices to be exclusive, because what is cleaned
up is found by the volume. That makes it hold where `SerialInv` does not, after
a failed `mkfs`, for example.

Restarts are different. They lose the state files, and the reconciler passes
over a device that is mounted. Its connection stays tied only if it is mounted
on the target of the volume it is connected to (`MountsLinked`), and for that
devices must be exclusive when the restart happens. `SerialInv` provides it for
the first restart (`SerialUntilRestart`, `RestartedCorrect`), for any number of
concurrent calls. After that, state files and connections do not agree any more,
and with concurrent calls exclusiveness is lost, as described above. With one
call at a time it is not: `AloneInv` says that a device on record is reserved
for that volume, that a mounted device is on record for no other volume, and
that a handler which is about to remove a reservation removes its own. It holds
for any number of restarts.

### Volumes

For all sets of volumes, nodes, calls and keys, all configurations, page sizes
and bounds:

| Theorem | Assumes | Shows |
|---|---|---|
| `CallInvariant`, `TypeCorrect` | - | `CallInv`, `TypeOK` |
| `PodsLostByForce` | - | `PodLostByForce` |
| `CallsGoForward` | - | `CallsAdvance` |
| `OthersSafe` | `LayoutsAgree` | `OthersKeepData` |
| `PodsInvariant` | `SerialEnvironment` | `VolumeInv` without `PassedIsDeleted` |
| `OneServer` | `SerialEnvironment` | `SingleServer` |
| `ForcedLate` | cached reads do not fail | `ForcedAfterWait` |
| `PodsFollow` | `SerialEnvironment` | `PodFollowsVolume` |
| `ServedInvariant` | the same, `ServersStopSoon` | `ServedInv` |
| `PublishedIsServedByPod` | the same, `ServersStopSoon` | `PublishedHasPod` |
| `PlainNamesSuffice` | `PlainNames` | `LayoutsAgree`, `LocationsDisjoint` |
| `VolumeInvariant` | `SerialEnvironment`, `DeletionEnvironment`, `LayoutsAgree`, `LocationsDisjoint` | `VolumeInv` |
| `DeletionComplete` | the same | `DataDeleted` |
| `PromiseKept` | the same | `DataPromised`: `Spec` implements `VolumeStore!Spec` |

`SerialEnvironment` (of `VolumeSerial`): callers wait, plugins are not shut down
gracefully, cached reads do not fail, and servers stop within 30 seconds.
Plugins may crash as often as they like, and every other request may fail.
`ServersStopSoon` makes that 15 seconds. `DeletionEnvironment`: the controller
may delete pods, lookups of the class do not fail, and S3 deletes the objects it
is asked to delete. `LayoutsAgree`: what `DeleteVolume` lists for a volume is
what its pod stores; `LocationsDisjoint`: no object belongs to two volumes. Both
follow from `PlainNames`, which is about names alone: no part of the path of a
storage URL is empty, `.`, `..` or the id of a volume, no object is named after a
volume, and no name starts with an id. TLC evaluates all three on the instances
(`MCVolumes`).

`PlainNamesSuffice` rests on two facts. `Join` does not change a path without dot
parts: `Join` is a recursive function, and the numbers up to which it agrees with
the path are all of them, because there is no least one that is missing (`UpTo`,
from the theorem `WFMin` of the library). And of two locations with which a key
starts, neither can be the shorter one, because its last part, an id, would be a
part of the other's URL.

`CallsAdvance` is the safety part of `CallsReturn`: a call passes its labels in
one order (`Position`), goes back only from a page to a listing that starts
behind it, and has a budget of seconds (`TimeLeft`), the sum of the limits of the
waits ahead of it, that never grows and never becomes negative. So a call that
did not return would have to stop taking steps, time would have to stop, or its
volume would have to have infinitely many keys. The proof needs that no wait is
overdue and that a call which does not wait has not waited (`InTime`), and that
only an unpublish comes to the last wait (`CallInv`).

`ForcedLate` holds for servers of any speed, with calls given up, shutdowns and
crashes. Its invariant `RemovalsTimed` says of a call that waits for a deletion
that the pod of its volume, if there is one, is terminating for at least as long
as the call has waited. Both clocks start no earlier than the request and advance
together, and no other call can put a new pod in the place of the old one: a
volume has one call that is waited for, and of the others every request but the
forced deletion is refused.

None of the other guarantees is inductive. That deletion is complete needs the
pod to be gone when the listing starts; that needs the controller's cache to
know of any pod when the volume is in use nowhere, which in turn depends on what
the node's unpublish has waited for; and that wait must not run out before the
pod is gone. The invariant is built in that order:

1. `CallInv`: a call works for its own volume, plugin and operation, and its
   page holds keys with its own prefix. No environment is needed.
2. `OneCallAtATime`: a volume has one call at a time, of the node it is attached
   to or, when it is released, of the controller.
3. `NothingForced`: a wait for a deletion is never older than the deletion, so
   that the pod goes first; no pod is forced, and a server always has its pod.
4. `RemoversInformed`: who has to remove a pod has it in the cache, except for
   the pod it has just created and waits for.
5. `PassedIsDeleted`: when `DeleteVolume` lists, the pod is gone, what it has
   passed is deleted or on its page, and nothing is behind the last page.

`PublishedHasPod` needs more (`ServedInv`): pods are on the node that waits for
them or where that node's cache says (`PodsPlaced`); a ready pod has its server
and a pod that is waited for its Secret (`PodsBacked`); and, before any crash, a
pod that terminates is waited for by the call that deletes it, so that no other
call finds it (`PodsStay`). Steps are sorted by what they can disturb: those of
a call touch only its own volume, those of a kubelet one pod, and the others
none; each group is treated once.

The refinement proof needs little besides: `DeleteVolume` takes objects only of
its volume and only while the deletion is open (`CallInv`), it confirms when
nothing is left (`PassedIsDeleted`), and a server that is started is the only
one of a volume that is not deleted (`NothingForced`, `PassedIsDeleted`).

### Only model-checked

Every invariant, action property and refinement of the passing runs is proved.
Model-checked only are the liveness properties (`CallsReturn` of both halves,
`OrphansDetached`, `DeletionSucceeds`), which are out of the prover's reach, and,
as an assumption of `MCVolumes`, what `Join` makes of paths with dots
(`JoinNormalises`).

## Not modelled

Requests that only validate and answer (staging, capabilities, statistics,
identity, `CreateVolume`, snapshots, listing) and metrics change no state. The
contents of `config.toml` and of the pod are abstracted to the node, the grace
period, the location of the data and "can start"; resource requirements and
`mkfs` arguments are left out. Sockets, flags and the manager of the process are
plain I/O. Nodes that share the devices of one host (k3d) are outside the models:
the mutex and the files are per plugin, and nothing in the code coordinates two
of them. The configuration of a volume does not change: `DeleteVolume` reads the
ConfigMap anew, and if its URL was changed it deletes below the new one. A
storage URL with a trailing slash gives pods another prefix (`dir//id`) than the
deletion (`dir/id`): `LayoutsAgree` is false of it, and the runs have no such URL.
An absent URL is modelled (`AnyConfig`): its deletion fails for ever.

The two halves are not composed: in `NodeService` a pod is `none`, `starting` or
`serving`, in `ZeroFSPods` the mount behind `CreatePod` succeeds or fails in one
step. Their product is out of TLC's reach, and the only state they share is the
pod.
