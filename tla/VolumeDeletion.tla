--------------------------- MODULE VolumeDeletion ---------------------------
(***************************************************************************)
(* DeleteVolume of the controller service (pkg/csi/controller.go,          *)
(* controller_delete.go and s3_cleanup.go): it removes what is left of the *)
(* volume's pod and, if the volume's StorageClass says so, deletes the     *)
(* objects below the volume's prefix in the S3 bucket, page by page, while *)
(* ZeroFS servers that still run may write to it.                          *)
(***************************************************************************)
EXTENDS ZeroFSPods, Sequences

CONSTANTS
    Keys,        \* objects that may be stored, in the order S3 lists them
    Path,        \* where an object is: its bucket, then the parts of its key
    StartsWith,  \* pairs <<v, w>>: the id v is a proper prefix of the name w
    Configs,     \* the StorageClasses with their ConfigMaps
    PageSize     \* the number of keys on a page of a listing

ASSUME KeysAssumption == Keys \subseteq Nat
ASSUME PageSizeAssumption == PageSize \in Nat \ {0}

VARIABLES
    config,    \* the configuration of a volume, which does not change
    objects,   \* the keys of the objects in the bucket
    page,      \* the keys on the page a call has listed
    lastPage,  \* whether the listing said that this page is the last one
    cursor,    \* the last key a call has listed
    released,  \* the volumes whose claim is deleted
    deleted    \* the volumes whose deletion was confirmed

deletion == <<page, lastPage, cursor>>
store == <<config, objects, released, deleted>>
vars == <<podVars, deletion, store>>

-----------------------------------------------------------------------------
(* Where the data are.  A configuration says whether the data go with the  *)
(* volume, holds the storage URL, if any, and tells whether there is an    *)
(* endpoint that may be used.  The path of a URL is the sequence of what   *)
(* is between its slashes, the empty string included.                      *)

DefaultURL == [scheme |-> "s3", bucket |-> "zerofs", path |-> <<>>]

Base(url) == IF url = None THEN DefaultURL ELSE url

\* The configuration of the pod: "/" and the id are appended to the URL.
PodLocation(url, v) == <<Base(url).bucket>> \o Base(url).path \o <<v>>

\* ZeroFS keeps its objects below the location it is given.
IsBelow(k, location) ==
    LET last == Len(location)
    IN  Len(Path[k]) > last /\ SubSeq(Path[k], 1, last) = location

Stores(v, k) == IsBelow(k, PodLocation(config[v].url, v))

\* DeleteVolume does not know the default URL.
parseS3Location(url) == url # None /\ url.scheme = "s3" /\ url.bucket # ""

Usable(conf) == parseS3Location(conf.url) /\ conf.endpoint

\* path.Join takes the parts of a path one by one: it drops empty parts and
\* ".", and ".." together with the part before it, if any.
JoinPart(path, part) ==
    LET last == Len(path)
    IN  CASE part \in {"", "."} -> path
          [] part = ".." /\ last > 0 /\ path[last] # ".." ->
                 SubSeq(path, 1, last - 1)
          [] OTHER -> Append(path, part)

Join(path) ==
    LET joined[i \in 0..Len(path)] ==
            IF i = 0 THEN <<>> ELSE JoinPart(joined[i - 1], path[i])
    IN  joined[Len(path)]

joinS3Prefix(path, v) == Join(path) \o <<v>>

DeleteLocation(url, v) == <<url.bucket>> \o joinS3Prefix(url.path, v)

\* A prefix ends with the volume's id, without a slash behind it.
HasPrefix(k, location) ==
    LET last == Len(location) IN
    /\ Len(Path[k]) >= last
    /\ SubSeq(Path[k], 1, last - 1) = SubSeq(location, 1, last - 1)
    /\ \/ Path[k][last] = location[last]
       \/ <<location[last], Path[k][last]>> \in StartsWith

-----------------------------------------------------------------------------

DeleteLabels == {"resolve", "list", "delete_page"}

TypeOK ==
    /\ PodTypeOK
    /\ pc \in [Calls -> CreateLabels \cup RemoveLabels \cup DeleteLabels
                        \cup {"idle"}]
    /\ config \in [Volumes -> Configs]
    /\ objects \subseteq Keys
    /\ page \in [Calls -> SUBSET Keys]
    /\ lastPage \in [Calls -> BOOLEAN]
    /\ cursor \in [Calls -> Keys \cup {-1}]
    /\ released \subseteq Volumes
    /\ deleted \subseteq released

Init ==
    /\ PodInit
    /\ config \in [Volumes -> Configs]
    /\ objects = {k \in Keys : \A v \in Volumes : ~Stores(v, k)}
    /\ page = [c \in Calls |-> {}]
    /\ lastPage = [c \in Calls |-> FALSE]
    /\ cursor = [c \in Calls |-> -1]
    /\ released = {}
    /\ deleted = {}

-----------------------------------------------------------------------------

DeleteVolume(c, v) ==
    /\ v \in released \ deleted
    /\ StartCall(c, Controller, v, "delete", "remove_get")
    /\ UNCHANGED <<kub, deletion, store>>

\* Mutant: DeleteVolume succeeds although deleting the data has failed.
AnswerSuccess(c, success) ==
    /\ Done(c)
    /\ deleted' = IF c \in waiting THEN deleted \cup {vol[c]} ELSE deleted
    /\ page' = [page EXCEPT ![c] = {}]
    /\ lastPage' = [lastPage EXCEPT ![c] = FALSE]
    /\ cursor' = [cursor EXCEPT ![c] = -1]
    /\ UNCHANGED kub

\* DeleteVolume returns; if it fails the provisioner calls it again.
Answer(c, success) ==
    /\ Done(c)
    /\ deleted' = IF success /\ c \in waiting THEN deleted \cup {vol[c]}
                  ELSE deleted
    /\ page' = [page EXCEPT ![c] = {}]
    /\ lastPage' = [lastPage EXCEPT ![c] = FALSE]
    /\ cursor' = [cursor EXCEPT ![c] = -1]
    /\ UNCHANGED kub

\* Mutant: a PersistentVolume or StorageClass that is not found is an error.
ResolveOrFail(c) ==
    /\ At(c, "resolve")
    /\ \/ ~config[vol[c]].delete /\ Answer(c, TRUE)
       \/ /\ \/ Fails("lookup") \/ Fails("config")
             \/ config[vol[c]].delete /\ ~Usable(config[vol[c]])
          /\ Answer(c, FALSE)
       \/ /\ config[vol[c]].delete /\ Usable(config[vol[c]])
          /\ Goto(c, "list")
          /\ UNCHANGED <<deletion, deleted>>
    /\ UNCHANGED <<api, config, objects, released>>

\* deleteVolumeDataIfEnabled: a PersistentVolume or StorageClass that is not
\* found, for whatever reason, means that the data are kept; a configuration
\* that is not found or incomplete is an error.
Resolve(c) ==
    /\ At(c, "resolve")
    /\ \/ /\ ~config[vol[c]].delete \/ Fails("lookup")
          /\ Answer(c, TRUE)
       \/ /\ config[vol[c]].delete
          /\ ~Usable(config[vol[c]]) \/ Fails("config")
          /\ Answer(c, FALSE)
       \/ /\ config[vol[c]].delete /\ Usable(config[vol[c]])
          /\ Goto(c, "list")
          /\ UNCHANGED <<deletion, deleted>>
    /\ UNCHANGED <<api, config, objects, released>>

\* Mutant: the prefix is not sent with the request.
ListedAnywhere(c) == {k \in objects : k > cursor[c]}

Listed(c) ==
    LET location == DeleteLocation(config[vol[c]].url, vol[c])
    IN  {k \in objects : HasPrefix(k, location) /\ k > cursor[c]}

\* The first keys of a set, as many as a page holds.
FirstPage(keys) ==
    {k \in keys : Cardinality({l \in keys : l < k}) < PageSize}

\* Mutant: every page is listed from the start.
ListFromStart(c) ==
    /\ At(c, "list") /\ c \in waiting
    /\ IF Listed(c) = {}
       THEN Answer(c, TRUE)
       ELSE /\ page' = [page EXCEPT ![c] = FirstPage(Listed(c))]
            /\ lastPage' = [lastPage EXCEPT ![c] =
                               FirstPage(Listed(c)) = Listed(c)]
            /\ Goto(c, "delete_page")
            /\ UNCHANGED <<cursor, deleted>>
    /\ UNCHANGED <<api, config, objects, released>>

\* Mutant: only the first page is deleted.
ListFirstPage(c) ==
    /\ At(c, "list") /\ c \in waiting
    /\ IF Listed(c) = {}
       THEN Answer(c, TRUE)
       ELSE /\ page' = [page EXCEPT ![c] = FirstPage(Listed(c))]
            /\ lastPage' = [lastPage EXCEPT ![c] = TRUE]
            /\ Goto(c, "delete_page")
            /\ UNCHANGED <<cursor, deleted>>
    /\ UNCHANGED <<api, config, objects, released>>

ListPage(c) ==
    /\ At(c, "list")
    /\ \/ /\ Refused(c, "list")
          /\ Answer(c, FALSE)
       \/ /\ c \in waiting /\ Listed(c) = {}
          /\ Answer(c, TRUE)
       \/ /\ c \in waiting /\ Listed(c) # {}
          /\ page' = [page EXCEPT ![c] = FirstPage(Listed(c))]
          /\ lastPage' = [lastPage EXCEPT ![c] =
                             FirstPage(Listed(c)) = Listed(c)]
          /\ \E k \in FirstPage(Listed(c)) :
                /\ \A l \in FirstPage(Listed(c)) : l <= k
                /\ cursor' = [cursor EXCEPT ![c] = k]
          /\ Goto(c, "delete_page")
          /\ UNCHANGED deleted
    /\ UNCHANGED <<api, config, objects, released>>

\* DeleteObjects answers with the keys it could not delete, which nobody
\* looks at.
DeletePage(c) ==
    /\ At(c, "delete_page")
    /\ \/ /\ Refused(c, "delete_objects")
          /\ Answer(c, FALSE)
          /\ UNCHANGED objects
       \/ /\ c \in waiting
          /\ \E failed \in SUBSET page[c] :
                /\ failed # {} => Fails("object")
                /\ objects' = objects \ (page[c] \ failed)
          /\ IF lastPage[c]
             THEN Answer(c, TRUE)
             ELSE Goto(c, "list") /\ UNCHANGED <<deletion, deleted>>
    /\ UNCHANGED <<api, config, released>>

-----------------------------------------------------------------------------
(* The cluster.                                                            *)

\* The claim of a volume that no node uses is deleted.
Release(v) ==
    /\ attached[v] = None /\ v \notin released
    /\ released' = released \cup {v}
    /\ UNCHANGED <<podVars, deletion, config, objects, deleted>>

\* A ZeroFS server stores an object.
Store(k) ==
    /\ \E v \in Volumes, n \in Nodes : <<v, n>> \in running /\ Stores(v, k)
    /\ objects' = objects \cup {k}
    /\ UNCHANGED <<podVars, deletion, config, released, deleted>>

\* With the plugin go the calls it serves.
RestartPlugin(p) ==
    /\ Restart(p)
    /\ page' = [c \in Calls |-> IF at[c] = p THEN {} ELSE page[c]]
    /\ lastPage' = [c \in Calls |-> at[c] # p /\ lastPage[c]]
    /\ cursor' = [c \in Calls |-> IF at[c] = p THEN -1 ELSE cursor[c]]
    /\ UNCHANGED store

-----------------------------------------------------------------------------

PodStep ==
    /\ \/ \E c \in Calls :
             \/ \E v \in Volumes : Publish(c, v) \/ Unpublish(c, v)
             \/ GiveUp(c)
             \/ CreatePod(c)
             \/ RemovePod(c)
       \/ \E v \in Volumes \ released, n \in Nodes : Attach(v, n)
       \/ Cluster
    /\ UNCHANGED <<deletion, store>>

DeleteStep(c) == Resolve(c) \/ ListPage(c) \/ DeletePage(c)

Next ==
    \/ PodStep
    \/ \E c \in Calls :
          \/ \E v \in Volumes : DeleteVolume(c, v)
          \/ DeleteStep(c)
    \/ \E p \in Plugins : RestartPlugin(p)
    \/ \E v \in Volumes : Release(v)
    \/ \E k \in Keys : Store(k)

Spec == Init /\ [][Next]_vars

\* The goroutine of a call runs on, informers catch up, time passes, a plugin
\* that shuts down ends, and the provisioner repeats a deletion that failed.
\* Nothing is expected of the kubelets: a server may never start or stop.
Fairness ==
    /\ \A c \in Calls :
          WF_vars(\/ /\ CreatePod(c) \/ RemovePod(c)
                     /\ UNCHANGED <<deletion, store>>
                  \/ DeleteStep(c))
    /\ \A p \in Plugins :
          /\ WF_vars(Sync(p) /\ UNCHANGED <<deletion, store>>)
          /\ WF_vars(p \in stopping /\ RestartPlugin(p))
    /\ SF_vars(Tick /\ UNCHANGED <<deletion, store>>)
    /\ \A v \in Volumes : WF_vars(\E c \in Calls : DeleteVolume(c, v))

FairSpec == Spec /\ Fairness

-----------------------------------------------------------------------------

\* When DeleteVolume has confirmed the deletion of a volume whose class says
\* that its data go with it, none of its objects is left, and no server
\* writes new ones.
DataDeleted ==
    \A v \in deleted :
        config[v].delete =>
            /\ \A k \in objects : ~Stores(v, k)
            /\ \A n \in Nodes : <<v, n>> \notin running

\* Only the objects of a volume whose claim is deleted, and whose class says
\* so, are ever deleted.
OthersKeepData ==
    [][\A k \in objects \ objects' :
          \E v \in released \ deleted :
              config[v].delete /\ Stores(v, k)]_vars

\* A published volume is served on the node it is attached to, by a pod that
\* stays: nobody has deleted it or its Secret.  It holds until a plugin crashes
\* or is shut down, or a caller gives up: CreatePod does not see whether a pod
\* of its node that it finds is being deleted by a call that is lost.
PublishedHasPod ==
    \A v \in Volumes :
        kub[v] = "published" /\ breaks = 0 =>
            /\ <<v, attached[v]>> \in running
            /\ pods[v] # None /\ ~pods[v].terminating
            /\ v \in secrets

\* The pod of a published volume is on the volume's node, even if the node
\* took the volume over from one whose plugin had failed to remove its pod.
PodFollowsVolume ==
    \A v \in Volumes :
        kub[v] = "published" /\ pods[v] # None => pods[v].node = attached[v]

\* Two servers never work on the data of one volume.
SingleServer ==
    \A v \in Volumes, m, n \in Nodes :
        {<<v, m>>, <<v, n>>} \subseteq running => m = n

\* A server that runs without its pod.
PodLost(v, n) ==
    /\ <<v, n>> \in running
    /\ pods[v] # None => pods[v].node # n

\* Only the forced deletion of RemovePod takes the pod from a server that
\* runs, with which a second server could be started.
PodLostByForce ==
    [][\A v \in Volumes, n \in Nodes :
          ~PodLost(v, n) /\ PodLost(v, n)' =>
              \E c \in Calls :
                  vol[c] = v /\ pc[c] = "force_pod" /\ pc'[c] # pc[c]]_vars

\* As long as its caller waits, RemovePod deletes by force only the pod whose
\* deletion it has waited for, and for the whole time it gives to that, unless
\* its plugin shuts down: never a pod that was created meanwhile.
ForcedAfterWait ==
    \A c \in waiting :
        At(c, "force_pod") /\ pods[vol[c]] # None =>
            /\ vol[c] \in Terminating
            /\ dying[vol[c]] >= RemoveWait \/ at[c] \in stopping

\* Every call returns, however slow the pods are and whatever servers write:
\* whatever it is that a goroutine does, later it is idle.
CallsReturn == \A c \in Calls : []<>(pc[c] = "idle")

\* The order in which a call passes its labels.
Position ==
    [write_secret |-> 1, get_pod |-> 2, replace_pod |-> 3,
     await_replaced |-> 4, create_pod |-> 5, await_ready |-> 6,
     remove_get |-> 7, remove_pod |-> 8, await_removed |-> 9,
     force_pod |-> 10, await_forced |-> 11, remove_secret |-> 12,
     await_gone |-> 13, resolve |-> 14, list |-> 15, delete_page |-> 16]

\* The seconds that a wait may take which is not behind the label.  What ends
\* a wait is noticed within a tick.
TimeAhead(label, wait) ==
    IF Position[label] <= Position[wait] THEN WaitLimit[wait] + 15 ELSE 0

\* The same for all the waits of an operation.
WaitsAhead(label, operation) ==
    TimeAhead(label, "await_replaced") + TimeAhead(label, "await_ready")
    + TimeAhead(label, "await_removed") + TimeAhead(label, "await_forced")
    + (IF operation = "unpublish" THEN TimeAhead(label, "await_gone") ELSE 0)

\* The seconds that a call may still spend in waits.
TimeLeft(c) == WaitsAhead(pc[c], op[c]) - waited[c]

\* A step takes a call forward, or from a page to the listing behind it, and
\* leaves it not more time than it had.
Advances(c) ==
    /\ \/ Position[pc[c]] <= Position[pc'[c]]
       \/ At(c, "delete_page") /\ pc'[c] = "list"
    /\ TimeLeft(c)' \in 0..TimeLeft(c)
    /\ cursor[c] <= cursor'[c]
    /\ At(c, "list") /\ pc'[c] # "list" => cursor[c] < cursor'[c]

\* A call does not go back, except to list the next page, which starts behind
\* the last one; and no wait is repeated, so that its time in waits is bounded
\* by the sum of their limits, whatever fails and however slow the pods are.
CallsAdvance ==
    [][\A c \in Calls : pc[c] # "idle" /\ pc'[c] # "idle" => Advances(c)]_vars

\* The deletion of a volume succeeds in the end, if its data are to be kept or
\* its configuration tells where they are.
DeletionSucceeds ==
    \A v \in Volumes :
        v \in released /\ (config[v].delete => Usable(config[v]))
            ~> v \in deleted

\* RemovePod deletes a pod by force only if it is "stuck terminating", which
\* no pod is before the end of its grace period.
ForcedOnlyIfStuck ==
    \A c \in Calls :
        At(c, "force_pod") /\ pods[vol[c]] # None =>
            vol[c] \in Terminating /\ dying[vol[c]] >= GracePeriod

=============================================================================
