---------------------------- MODULE VolumeSerial ----------------------------
(***************************************************************************)
(* The life of a volume in the environment in which its guarantees hold:   *)
(* callers wait for the reply to a call, plugins may crash but are not     *)
(* shut down, servers stop within 30 seconds, and reads of the cache do    *)
(* not fail.  Every write to the API server and to S3 may be refused,      *)
(* except the deletion of a pod by the controller.  VolumeInv is the       *)
(* inductive invariant from which the guarantees follow; every group of it *)
(* rests on the ones before.                                               *)
(***************************************************************************)
EXTENDS VolumeDeletion

SerialEnvironment ==
    /\ Faults \cap {"deadline", "shutdown", "read", "stuck"} = {}
    /\ StopTime <= 30

\* Servers stop before the wait for one that is replaced is over.
ServersStopSoon == StopTime <= 15

\* What DeleteVolume depends on besides.
DeletionEnvironment == Faults \cap {"controller", "lookup", "object"} = {}

\* DeleteVolume looks for the data of a volume where its pod has put them.
LayoutsAgree ==
    \A v \in Volumes, conf \in Configs :
        Usable(conf) =>
            \A k \in Keys :
                HasPrefix(k, DeleteLocation(conf.url, v)) <=>
                    IsBelow(k, PodLocation(conf.url, v))

\* No object is below the locations of two volumes.
LocationsDisjoint ==
    \A v, w \in Volumes, conf, other \in Configs, k \in Keys :
        /\ IsBelow(k, PodLocation(conf.url, v))
        /\ IsBelow(k, PodLocation(other.url, w))
        => v = w

\* The parts of a path that path.Join does not keep.
Dots == {"", ".", ".."}

\* What makes both of these true: the parts of paths are names; in the path of
\* a storage URL none is a dot, and none the id of a volume; no object is named
\* after a volume; and no name starts with the id of a volume.
PlainNames(Names) ==
    /\ Volumes \subseteq Names
    /\ Path \in [Keys -> Seq(Names)]
    /\ \A conf \in Configs :
          /\ Base(conf.url).bucket \in Names
          /\ Base(conf.url).path \in Seq(Names \ (Volumes \cup Dots))
    /\ \A k \in Keys : Path[k][Len(Path[k])] \notin Volumes
    /\ \A v \in Volumes, name \in Names : <<v, name>> \notin StartsWith

-----------------------------------------------------------------------------

Active(c) == pc[c] # "idle"

\* A call knows its plugin and its volume, and works for its operation.
CallOK(c) ==
    IF Active(c)
    THEN /\ vol[c] \in Volumes
         /\ IF op[c] = "delete" THEN at[c] = Controller ELSE at[c] \in Nodes
         /\ op[c] \in Operations
         /\ pc[c] \in CreateLabels => op[c] = "publish"
         /\ pc[c] \in DeleteLabels => op[c] = "delete"
         /\ pc[c] = "await_gone" => op[c] = "unpublish"
    ELSE at[c] = None /\ c \notin waiting

\* Only what a deletion has listed of its own volume is on its page.
PageOK(c) ==
    /\ pc[c] \in {"list", "delete_page"} =>
          config[vol[c]].delete /\ Usable(config[vol[c]])
    /\ op[c] = "delete" => vol[c] \in released
    /\ op[c] = "delete" /\ c \in waiting => vol[c] \notin deleted
    /\ pc[c] = "delete_page" =>
          \A k \in page[c] :
              HasPrefix(k, DeleteLocation(config[vol[c]].url, vol[c]))

\* This much holds in every environment.
CallInv ==
    /\ TypeOK
    /\ \A c \in Calls : CallOK(c) /\ PageOK(c)
    /\ \A c, d \in waiting : vol[c] = vol[d] => c = d

\* Every volume has one call at a time, of the node it is attached to or,
\* when it is attached to none, of the controller.
OneCallAtATime ==
    /\ stopping = {}
    /\ waiting = {c \in Calls : Active(c)}
    /\ \A v \in Volumes : attached[v] = None => kub[v] = "none"
    /\ \A v \in released : attached[v] = None
    /\ \A c \in Calls : Active(c) /\ op[c] # "delete" =>
          attached[vol[c]] = at[c] /\ kub[vol[c]] = "uncertain"

\* No wait for a deletion runs out of time, no pod is deleted by force, and a
\* server has its pod.
NothingForced ==
    /\ \A v \in Volumes : dying[v] <= 30 /\ (dying[v] > 0 => v \in Terminating)
    /\ \A c \in Calls :
          /\ pc[c] \notin {"force_pod", "await_forced"}
          /\ pc[c] = "await_removed" =>
                \/ pods[vol[c]] = None /\ waited[c] <= 30
                \/ vol[c] \in Terminating /\ waited[c] <= dying[vol[c]]
    /\ \A v \in Volumes, n \in Nodes :
          <<v, n>> \in running => pods[v] # None /\ pods[v].node = n

Sees(p, v) == pods[v] # None => cache[p][v] # None

\* A plugin that has to remove a pod knows of it: the node a volume is
\* attached to, but for the pod it has just created, and the controller when
\* the volume is in use nowhere.
RemoversInformed ==
    /\ \A v \in Volumes :
          \/ attached[v] = None \/ Sees(attached[v], v)
          \/ \E c \in Calls :
                vol[c] = v /\ pc[c] = "await_ready" /\ waited[c] = 0
    /\ \A v \in Volumes : kub[v] = "none" => Sees(Controller, v)
    /\ \A c \in Calls : pc[c] = "await_gone" =>
          waited[c] = 0 \/ Sees(Controller, vol[c])

\* The pod of a volume is on the node the volume is attached to, or else where
\* the node's cache says; a pod that is waited for is on the node.
PodsPlaced ==
    /\ \A v \in Volumes :
          /\ attached[v] # None /\ pods[v] # None
          /\ cache[attached[v]][v] # None
          => pods[v].node \in {attached[v], cache[attached[v]][v].node}
    /\ \A c \in Calls :
          pc[c] = "await_ready" /\ pods[vol[c]] # None =>
              pods[vol[c]].node = at[c]
    /\ PodFollowsVolume

\* A ready pod has its server, and a pod that is or was waited for its Secret.
PodsBacked ==
    /\ \A v \in Volumes :
          pods[v] # None /\ pods[v].ready => <<v, pods[v].node>> \in running
    /\ \A c \in Calls :
          pc[c] \in CreateLabels \ {"write_secret"} => vol[c] \in secrets
    /\ \A v \in Volumes : kub[v] = "published" => v \in secrets

\* A call waits for the pod of a volume to be deleted.
Removing(v) ==
    \E c \in Calls : vol[c] = v /\ pc[c] \in {"await_replaced", "await_removed"}

\* A call that deletes a pod sees it go, and every other pod stays.
PodsKept ==
    /\ \A v \in Volumes \ released : v \in Terminating => Removing(v)
    /\ \A v \in Volumes :
          /\ attached[v] # None /\ ~Removing(v)
          /\ cache[attached[v]][v] # None
          => pods[v] # None /\ (cache[attached[v]][v].ready => pods[v].ready)
    /\ \A c \in Calls :
          /\ pc[c] = "await_replaced" =>
                \/ pods[vol[c]] = None /\ waited[c] <= 15
                \/ vol[c] \in Terminating /\ waited[c] <= dying[vol[c]]
          /\ pc[c] = "create_pod" => cache[at[c]][vol[c]] = None
          /\ pc[c] = "await_ready" => pods[vol[c]] # None
    /\ \A v \in Volumes :
          kub[v] = "published" => pods[v] # None /\ pods[v].ready

\* That is so as long as no plugin has crashed.
PodsStay ==
    /\ \A v \in Volumes : dying[v] <= 15
    /\ breaks = 0 => PodsKept

\* What publishing a volume rests on, besides what is in VolumeInv.
ServedInv == PodsPlaced /\ PodsBacked /\ PodsStay

\* DeleteVolume lists when the pod is gone, and what it has passed is deleted.
Passed(c) ==
    /\ op[c] = "delete" /\ pc[c] \in DeleteLabels \cup {"remove_secret"} =>
          pods[vol[c]] = None
    /\ pc[c] \notin {"list", "delete_page"} => cursor[c] = -1
    /\ pc[c] \in {"list", "delete_page"} =>
          \A k \in objects : Stores(vol[c], k) =>
              \/ k > cursor[c]
              \/ pc[c] = "delete_page" /\ k \in page[c]
    /\ pc[c] = "delete_page" /\ lastPage[c] =>
          \A k \in objects : Stores(vol[c], k) => k \in page[c]

PassedIsDeleted ==
    /\ \A c \in Calls : Passed(c)
    /\ \A v \in deleted :
          /\ pods[v] = None
          /\ config[v].delete => \A k \in objects : ~Stores(v, k)

\* The inductive invariant of the calls, pods, caches and deletions: calls keep
\* to their volume, waits end with the pod gone, the caches know the pods that
\* have to be removed, and a confirmed deletion has left nothing behind.
VolumeInv ==
    /\ CallInv
    /\ OneCallAtATime
    /\ NothingForced
    /\ RemoversInformed
    /\ PassedIsDeleted

-----------------------------------------------------------------------------

HoldsKey(conf, v, k) == IsBelow(k, PodLocation(conf.url, v))

DeletesData(conf) == conf.delete

Promise == INSTANCE VolumeStore
               WITH Holds <- HoldsKey, Deletes <- DeletesData

\* Whatever the plugins, the kubelets and the servers do, and however calls
\* fail, the data of volumes behave as VolumeStore says: one writer at a time,
\* and a deletion that is confirmed is complete and final.
DataPromised == Promise!Spec

=============================================================================
