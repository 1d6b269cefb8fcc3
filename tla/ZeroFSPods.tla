----------------------------- MODULE ZeroFSPods -----------------------------
(***************************************************************************)
(* The pod that serves a volume and the Secret with its configuration      *)
(* (pkg/csi/zerofs.go), at the granularity of requests to the API server.  *)
(* A node plugin creates them when a volume is published on its node and   *)
(* removes them when publishing fails or the volume is unpublished; the    *)
(* controller removes what is left when the volume is deleted.  Names are  *)
(* derived from the volume's id, so that all plugins work on the same      *)
(* objects.  A plugin reads pods from its informer cache, which lags       *)
(* behind the API server, and writes to the API server itself.             *)
(* Time passes in steps of 15 seconds, of which the code's limits are      *)
(* multiples.                                                              *)
(***************************************************************************)
EXTENDS Integers, FiniteSets

CONSTANTS
    Volumes,      \* CSI volume ids
    Nodes,        \* nodes, each with its plugin
    Controller,   \* the controller plugin
    Calls,        \* goroutines that serve calls
    Faults,       \* the names of the operations that may fail
    ReadyConfig,  \* podReadyTimeoutSeconds as configured, 0 if it is no number
    StopTime,     \* the seconds a server takes to stop at the most
    MaxBreaks,    \* bound on the calls given up, shutdowns and crashes
    None          \* no object, no node, no call

Plugins == Nodes \cup {Controller}

ASSUME PluginsAssumption == Controller \notin Nodes
ASSUME BoundsAssumption == MaxBreaks \in Nat

VARIABLES
    pods,      \* the pod object zerofs-volume-<volume>, or None
    secrets,   \* the volumes whose Secret zerofs-config-<volume> exists
    cache,     \* the pods as the informer of a plugin has them
    running,   \* the ZeroFS servers that run: pairs of volume and node, so that
               \* two servers of a volume on one node are not told apart
    pc,        \* where a call is
    at,        \* the plugin that serves it
    vol,       \* its volume
    op,        \* its operation: publish, unpublish or delete
    waiting,   \* the calls whose reply is still waited for
    waited,    \* the seconds a call has spent in the wait it is in
    dying,     \* the seconds since the deletion of a pod was requested
    stopping,  \* the plugins that shut down
    breaks,    \* the number of calls given up, shutdowns and crashes
    attached,  \* the node a volume is attached to, or None
    kub        \* what that node's kubelet knows of the volume

api == <<pods, secrets, dying>>
call == <<at, vol, op>>
calls == <<pc, call, waiting, waited>>
lifetime == <<stopping, breaks>>
orchestrator == <<attached, kub>>
podVars == <<api, cache, running, calls, lifetime, orchestrator>>

\* The time limits in seconds, the pod's grace period first.
GracePeriod == 60

\* Mutant: there is no time to wait.
NoWait == 0

ReplaceWait == 30

RemoveWait == 45

ForceWait == 30

GoneWait == 30

podReadyTimeout(seconds) == IF seconds > 0 THEN seconds ELSE 120

ReadyWait == podReadyTimeout(ReadyConfig)

ASSUME TimeAssumption == ReadyConfig \in Int /\ StopTime \in 0..GracePeriod

WaitLimit ==
    [await_replaced |-> ReplaceWait, await_ready |-> ReadyWait,
     await_removed |-> RemoveWait, await_forced |-> ForceWait,
     await_gone |-> GoneWait]

PodObjects == [node : Nodes, ready : BOOLEAN, terminating : BOOLEAN]

Operations == {"publish", "unpublish", "delete"}

ASSUME NoneAssumption ==
    None \notin Plugins \cup Volumes \cup PodObjects \cup Operations

CreateLabels ==
    {"write_secret", "get_pod", "create_pod", "replace_pod", "await_replaced",
     "await_ready"}

RemoveLabels ==
    {"remove_get", "remove_pod", "await_removed", "force_pod",
     "await_forced", "remove_secret", "await_gone"}

PodTypeOK ==
    /\ pods \in [Volumes -> PodObjects \cup {None}]
    /\ secrets \subseteq Volumes
    /\ cache \in [Plugins -> [Volumes -> PodObjects \cup {None}]]
    /\ running \subseteq Volumes \X Nodes
    /\ at \in [Calls -> Plugins \cup {None}]
    /\ vol \in [Calls -> Volumes \cup {None}]
    /\ op \in [Calls -> Operations \cup {None}]
    /\ waiting \subseteq Calls
    /\ waited \in [Calls -> Nat]
    /\ dying \in [Volumes -> {0, 15, 30, 45, GracePeriod}]
    /\ stopping \subseteq Plugins
    /\ breaks \in 0..MaxBreaks
    /\ attached \in [Volumes -> Nodes \cup {None}]
    /\ kub \in [Volumes -> {"none", "uncertain", "published"}]

PodInit ==
    /\ pods = [v \in Volumes |-> None]
    /\ secrets = {}
    /\ cache = [p \in Plugins |-> pods]
    /\ running = {}
    /\ pc = [c \in Calls |-> "idle"]
    /\ at = [c \in Calls |-> None]
    /\ vol = [c \in Calls |-> None]
    /\ op = [c \in Calls |-> None]
    /\ waiting = {}
    /\ waited = [c \in Calls |-> 0]
    /\ dying = [v \in Volumes |-> 0]
    /\ stopping = {}
    /\ breaks = 0
    /\ attached = [v \in Volumes |-> None]
    /\ kub = [v \in Volumes |-> "none"]

Fails(operation) == operation \in Faults

Breaks(operation) ==
    Fails(operation) /\ breaks < MaxBreaks /\ breaks' = breaks + 1

At(c, label) == pc[c] = label

Goto(c, label) ==
    /\ pc' = [pc EXCEPT ![c] = label]
    /\ waited' = [waited EXCEPT ![c] = 0]
    /\ UNCHANGED <<cache, running, call, waiting, lifetime, orchestrator>>

\* A request of a call that nobody waits for fails: its context is cancelled.
Refused(c, request) == c \notin waiting \/ Fails(request)

Cached(c) == cache[at[c]][vol[c]]

Waits == {c \in Calls : pc[c] \in DOMAIN WaitLimit}

Terminating == {v \in Volumes : pods[v] # None /\ pods[v].terminating}

\* The context of a wait, which is derived from the plugin's own, ends when its
\* time is up and when the plugin shuts down.
Expired(c) == at[c] \in stopping \/ waited[c] >= WaitLimit[pc[c]]

\* waitForPodDeletion ends well when the pod is not found, and with an error
\* when its context ends or a read fails.
PodGone(c) == Cached(c) = None

NotSeenGone(c) == Expired(c) \/ Fails("read")

\* waitForPodReady looks at nothing but the pod's readiness.
PodReady(c) == Cached(c) # None /\ Cached(c).ready

\* The pod is as the call waits for it to be.
Awaited(c) ==
    LET pod == pods[vol[c]] IN
    IF At(c, "await_ready") THEN pod # None /\ pod.ready ELSE pod = None

-----------------------------------------------------------------------------
(* The calls.                                                              *)

\* The kubelet, and the provisioner, run one operation on a volume at a time.
Undisturbed(v) == \A c \in waiting : vol[c] # v

StartCall(c, plugin, v, operation, label) ==
    /\ At(c, "idle") /\ Undisturbed(v)
    /\ plugin \notin stopping
    /\ pc' = [pc EXCEPT ![c] = label]
    /\ at' = [at EXCEPT ![c] = plugin]
    /\ vol' = [vol EXCEPT ![c] = v]
    /\ op' = [op EXCEPT ![c] = operation]
    /\ waiting' = waiting \cup {c}
    /\ UNCHANGED <<api, cache, running, waited, lifetime, attached>>

\* A target that is mounted already is answered before a pod is looked for.
Publish(c, v) ==
    /\ attached[v] # None /\ kub[v] # "published"
    /\ StartCall(c, attached[v], v, "publish", "write_secret")
    /\ kub' = [kub EXCEPT ![v] = "uncertain"]

Unpublish(c, v) ==
    /\ attached[v] # None /\ kub[v] # "none"
    /\ StartCall(c, attached[v], v, "unpublish", "remove_get")
    /\ kub' = [kub EXCEPT ![v] = "uncertain"]

\* The caller's deadline passes; the handler goes on.
GiveUp(c) ==
    /\ c \in waiting
    /\ Breaks("deadline")
    /\ waiting' = waiting \ {c}
    /\ UNCHANGED <<api, cache, running, pc, call, waited, stopping,
                   orchestrator>>

\* The handler returns.
Done(c) ==
    /\ pc' = [pc EXCEPT ![c] = "idle"]
    /\ at' = [at EXCEPT ![c] = None]
    /\ vol' = [vol EXCEPT ![c] = None]
    /\ op' = [op EXCEPT ![c] = None]
    /\ waiting' = waiting \ {c}
    /\ waited' = [waited EXCEPT ![c] = 0]
    /\ UNCHANGED <<cache, running, lifetime, attached>>

Reply(c, status) ==
    /\ Done(c)
    /\ kub' = IF c \in waiting THEN [kub EXCEPT ![vol[c]] = status] ELSE kub

\* Where a call goes on when RemovePod has returned: NodeUnpublishVolume
\* waits once more, the cleanup of a failed publish ends the call, and
\* DeleteVolume deletes the data (module VolumeDeletion).
PodRemoved(c) ==
    \/ op[c] = "unpublish" /\ Goto(c, "await_gone")
    \/ op[c] = "publish" /\ Reply(c, "uncertain")
    \/ op[c] = "delete" /\ Goto(c, "resolve")

-----------------------------------------------------------------------------
(* CreatePod.                                                              *)

\* A CreatePod that fails makes NodePublishVolume fail, whose deferred
\* cleanup removes the pod.
CreateFails(c) == Goto(c, "remove_get")

\* The configuration is read and rendered, and the Secret created or, if it
\* exists, updated.  That fails as well if the informer's view of the Secret,
\* which the choice depends on, or the configuration is out of date.
WriteSecret(c) ==
    /\ At(c, "write_secret")
    /\ \/ /\ c \in waiting
          /\ secrets' = secrets \cup {vol[c]}
          /\ Goto(c, "get_pod")
       \/ /\ secrets' = secrets
          /\ CreateFails(c)
    /\ UNCHANGED <<pods, dying>>

\* Mutant: a pod is used whatever node it is on.
GetPodAnywhere(c) ==
    /\ At(c, "get_pod")
    /\ Goto(c, IF Cached(c) = None THEN "create_pod" ELSE "await_ready")
    /\ UNCHANGED api

\* Any error of the read is taken for "not found".
GetPod(c) ==
    /\ At(c, "get_pod")
    /\ \/ /\ Cached(c) = None \/ Fails("read")
          /\ Goto(c, "create_pod")
       \/ /\ Cached(c) # None
          /\ Goto(c, IF Cached(c).node = at[c] THEN "await_ready"
                     ELSE "replace_pod")
    /\ UNCHANGED api

\* Mutant: the pod is not bound to the plugin's node.
CreateUnboundPod(c) ==
    /\ At(c, "create_pod")
    /\ c \in waiting /\ pods[vol[c]] = None
    /\ pods' = [pods EXCEPT ![vol[c]] =
                   [node |-> None, ready |-> FALSE, terminating |-> FALSE]]
    /\ Goto(c, "await_ready")
    /\ UNCHANGED <<secrets, dying>>

\* The API server refuses to create an object that exists.
CreateApiPod(c) ==
    /\ At(c, "create_pod")
    /\ \/ /\ c \in waiting /\ pods[vol[c]] = None
          /\ pods' = [pods EXCEPT ![vol[c]] =
                         [node |-> at[c], ready |-> FALSE,
                          terminating |-> FALSE]]
          /\ Goto(c, "await_ready")
       \/ /\ Refused(c, "create_pod") \/ pods[vol[c]] # None
          /\ pods' = pods
          /\ CreateFails(c)
    /\ UNCHANGED <<secrets, dying>>

\* The deletion of an object is graceful: its kubelet stops the containers
\* and then removes it.
Terminate(v) == pods' = [pods EXCEPT ![v].terminating = TRUE]

RemoveObject(v) ==
    /\ pods' = [pods EXCEPT ![v] = None]
    /\ dying' = [dying EXCEPT ![v] = 0]

\* A pod on another node is deleted; that it is gone is an error here.
ReplacePod(c) ==
    /\ At(c, "replace_pod")
    /\ \/ /\ c \in waiting /\ pods[vol[c]] # None
          /\ Terminate(vol[c])
          /\ Goto(c, "await_replaced")
       \/ /\ Refused(c, "delete_pod") \/ pods[vol[c]] = None
          /\ pods' = pods
          /\ CreateFails(c)
    /\ UNCHANGED <<secrets, dying>>

AwaitReplaced(c) ==
    /\ At(c, "await_replaced")
    /\ PodGone(c) \/ NotSeenGone(c)
    /\ Goto(c, "create_pod")
    /\ UNCHANGED api

\* Mutant: the wait for the pod has no time limit.
AwaitReadyForEver(c) ==
    /\ At(c, "await_ready")
    /\ PodReady(c)
    /\ Reply(c, "published")
    /\ UNCHANGED api

\* The steps of NodePublishVolume behind CreatePod are those of module
\* NodeService; here they succeed at once or fail.
AwaitReady(c) ==
    /\ At(c, "await_ready")
    /\ \/ /\ PodReady(c)
          /\ Reply(c, "published") \/ (Fails("mount") /\ CreateFails(c))
       \/ Expired(c) /\ CreateFails(c)
    /\ UNCHANGED api

-----------------------------------------------------------------------------
(* RemovePod.                                                              *)

\* After any error of the read RemovePod goes on with the Secret.
RemoveGet(c) ==
    /\ At(c, "remove_get")
    /\ \/ /\ Cached(c) = None \/ Fails("read")
          /\ Goto(c, "remove_secret")
       \/ Cached(c) # None /\ Goto(c, "remove_pod")
    /\ UNCHANGED api

\* Mutant: RemovePod deletes the pod by force at once.
RemovePodAtOnce(c) ==
    /\ At(c, "remove_pod")
    /\ c \in waiting
    /\ pods' = [pods EXCEPT ![vol[c]] = None]
    /\ Goto(c, "await_removed")
    /\ UNCHANGED <<secrets, dying>>

\* An error other than "not found" ends RemovePod before the Secret.
RemoveApiPod(c) ==
    /\ At(c, "remove_pod")
    /\ \/ /\ c \in waiting /\ pods[vol[c]] # None
          /\ Terminate(vol[c])
          /\ Goto(c, "await_removed")
       \/ /\ c \in waiting /\ pods[vol[c]] = None
          /\ pods' = pods
          /\ Goto(c, "remove_secret")
       \/ /\ Refused(c, IF at[c] = Controller THEN "controller"
                        ELSE "delete_pod")
          /\ pods' = pods
          /\ PodRemoved(c)
    /\ UNCHANGED <<secrets, dying>>

\* Mutant: RemovePod looks for the pod once instead of waiting for it to go.
LookOnce(c) ==
    /\ At(c, "await_removed")
    /\ Goto(c, IF PodGone(c) THEN "remove_secret" ELSE "force_pod")
    /\ UNCHANGED api

AwaitRemoved(c) ==
    /\ At(c, "await_removed")
    /\ \/ PodGone(c) /\ Goto(c, "remove_secret")
       \/ NotSeenGone(c) /\ Goto(c, "force_pod")
    /\ UNCHANGED api

\* A deletion with a grace period of zero, with a context of its own,
\* removes the object whether or not the containers have stopped.
ForcePod(c) ==
    /\ At(c, "force_pod")
    /\ \/ RemoveObject(vol[c])
       \/ Fails("force_pod") /\ UNCHANGED <<pods, dying>>
    /\ Goto(c, "await_forced")
    /\ UNCHANGED secrets

\* Mutant: RemovePod deletes the pod by force until it is gone.
AwaitForcedGone(c) ==
    /\ At(c, "await_forced")
    /\ \/ PodGone(c) /\ Goto(c, "remove_secret")
       \/ NotSeenGone(c) /\ Goto(c, "force_pod")
    /\ UNCHANGED api

AwaitForced(c) ==
    /\ At(c, "await_forced")
    /\ PodGone(c) \/ NotSeenGone(c)
    /\ Goto(c, "remove_secret")
    /\ UNCHANGED api

RemoveSecret(c) ==
    /\ At(c, "remove_secret")
    /\ \/ c \in waiting /\ secrets' = secrets \ {vol[c]}
       \/ Refused(c, "delete_secret") /\ secrets' = secrets
    /\ PodRemoved(c)
    /\ UNCHANGED <<pods, dying>>

\* Mutant: NodeUnpublishVolume does not wait for the pod to go.
ReplyAtOnce(c) ==
    /\ At(c, "await_gone")
    /\ Reply(c, "none")
    /\ UNCHANGED api

\* NodeUnpublishVolume succeeds whether or not the pod is gone.
AwaitGone(c) ==
    /\ At(c, "await_gone")
    /\ PodGone(c) \/ NotSeenGone(c)
    /\ Reply(c, "none")
    /\ UNCHANGED api

-----------------------------------------------------------------------------
(* The cluster.                                                            *)

\* The attach-detach controller attaches a volume, for which the driver has
\* nothing to do.  Assumed: to bring a workload to a node takes longer than
\* the informer of the node lags behind.
Attach(v, n) ==
    /\ attached[v] = None /\ cache[n][v] = pods[v]
    /\ attached' = [attached EXCEPT ![v] = n]
    /\ UNCHANGED <<api, cache, running, calls, lifetime, kub>>

Detach(v) ==
    /\ attached[v] # None /\ kub[v] = "none" /\ Undisturbed(v)
    /\ attached' = [attached EXCEPT ![v] = None]
    /\ UNCHANGED <<api, cache, running, calls, lifetime, kub>>

\* An informer catches up.
Sync(p) ==
    /\ cache[p] # pods
    /\ cache' = [cache EXCEPT ![p] = pods]
    /\ UNCHANGED <<api, running, calls, lifetime, orchestrator>>

\* The kubelet of the pod's node starts the server once it can mount the
\* Secret, and reports it ready when the server's socket exists.
StartServer(v) ==
    /\ pods[v] # None /\ ~pods[v].terminating /\ ~pods[v].ready
    /\ v \in secrets
    /\ running' = running \cup {<<v, pods[v].node>>}
    /\ pods' = [pods EXCEPT ![v].ready = TRUE]
    /\ UNCHANGED <<secrets, dying, cache, calls, lifetime, orchestrator>>

\* It stops the server of a pod that is deleted, and then removes the pod.
StopServer(v) ==
    /\ pods[v] # None /\ pods[v].terminating
    /\ running' = running \ {<<v, pods[v].node>>}
    /\ RemoveObject(v)
    /\ UNCHANGED <<secrets, cache, calls, lifetime, orchestrator>>

\* It stops servers whose pod is not there (any more).
KillServer(v, n) ==
    /\ <<v, n>> \in running
    /\ pods[v] # None => pods[v].node # n
    /\ running' = running \ {<<v, n>>}
    /\ UNCHANGED <<api, cache, calls, lifetime, orchestrator>>

\* Fifteen seconds pass.  Informers lag behind for less than that and waits
\* poll every second, so that a wait ends first if its time is up or the pod
\* is as it should be; and a kubelet that works stops a server in time.
Tick ==
    /\ \A c \in Waits : ~Expired(c) /\ ~Awaited(c)
    /\ \A v \in Terminating : dying[v] < StopTime \/ Fails("stuck")
    /\ cache' = [p \in Plugins |-> pods]
    /\ waited' = [c \in Calls |-> IF c \in Waits THEN waited[c] + 15 ELSE 0]
    /\ dying' = [v \in Volumes |->
                    IF v \in Terminating /\ dying[v] < GracePeriod
                    THEN dying[v] + 15 ELSE dying[v]]
    /\ UNCHANGED <<pods, secrets, running, pc, call, waiting, lifetime,
                   orchestrator>>

-----------------------------------------------------------------------------
(* The driver's process.                                                   *)

\* On SIGTERM the context of the driver is cancelled; calls in flight go on,
\* new ones are not accepted.
Shutdown(p) ==
    /\ p \notin stopping
    /\ Breaks("shutdown")
    /\ stopping' = stopping \cup {p}
    /\ UNCHANGED <<api, cache, running, calls, orchestrator>>

\* The process ends, after a shutdown or without one; the calls it serves are
\* lost.  The new one fills its cache before it serves.
Restart(p) ==
    LET lost == {c \in Calls : at[c] = p}
        Without(f, value) ==
            [c \in Calls |-> IF c \in lost THEN value ELSE f[c]]
    IN  /\ \/ p \in stopping /\ UNCHANGED breaks
           \/ p \notin stopping /\ Breaks("crash")
        /\ stopping' = stopping \ {p}
        /\ cache' = [cache EXCEPT ![p] = pods]
        /\ pc' = Without(pc, "idle")
        /\ at' = Without(at, None)
        /\ vol' = Without(vol, None)
        /\ op' = Without(op, None)
        /\ waited' = Without(waited, 0)
        /\ waiting' = waiting \ lost
        /\ UNCHANGED <<api, running, orchestrator>>

-----------------------------------------------------------------------------

CreatePod(c) ==
    \/ WriteSecret(c) \/ GetPod(c) \/ CreateApiPod(c) \/ ReplacePod(c)
    \/ AwaitReplaced(c) \/ AwaitReady(c)

RemovePod(c) ==
    \/ RemoveGet(c) \/ RemoveApiPod(c) \/ AwaitRemoved(c) \/ ForcePod(c)
    \/ AwaitForced(c) \/ RemoveSecret(c) \/ AwaitGone(c)

Cluster ==
    \/ \E v \in Volumes :
          \/ Detach(v) \/ StartServer(v) \/ StopServer(v)
          \/ \E n \in Nodes : KillServer(v, n)
    \/ \E p \in Plugins : Sync(p) \/ Shutdown(p)
    \/ Tick

=============================================================================
