-------------------------- MODULE VolumeCallProofs --------------------------
(***************************************************************************)
(* What the steps of a call and of the cluster do, and proofs of what      *)
(* holds of the life of a volume in every environment.                     *)
(***************************************************************************)
EXTENDS VolumeSerial, TLAPS

-----------------------------------------------------------------------------
(* The steps of a call.                                                    *)

Labels == CreateLabels \cup RemoveLabels \cup DeleteLabels

CallStep(c) ==
    \/ (CreatePod(c) \/ RemovePod(c)) /\ UNCHANGED <<deletion, store>>
    \/ DeleteStep(c)

\* A step leaves a call alone.
Untouched(d) ==
    /\ pc'[d] = pc[d] /\ at'[d] = at[d] /\ vol'[d] = vol[d] /\ op'[d] = op[d]
    /\ waited'[d] = waited[d] /\ (d \in waiting' <=> d \in waiting)
    /\ page'[d] = page[d] /\ lastPage'[d] = lastPage[d]
    /\ cursor'[d] = cursor[d]

\* A step takes a call from one label to another.
Moves(c, label) ==
    /\ pc'[c] = label /\ at'[c] = at[c] /\ vol'[c] = vol[c] /\ op'[c] = op[c]
    /\ waited'[c] = 0 /\ (c \in waiting' <=> c \in waiting)
    /\ kub' = kub /\ deleted' = deleted

\* A step ends a call.
Returns(c) ==
    /\ pc'[c] = "idle" /\ at'[c] = None /\ vol'[c] = None /\ op'[c] = None
    /\ waited'[c] = 0 /\ c \notin waiting'

\* What no step of a call changes.
Around == <<cache, running, attached, stopping, breaks, config, released>>

\* A step of the call c moves or ends it, and leaves the other calls, their
\* volumes and most of the cluster alone.
CallFacts(c) ==
    /\ UNCHANGED Around
    /\ \A d \in Calls \ {c} : Untouched(d)
    /\ (\E label \in Labels : Moves(c, label)) \/ Returns(c)
    /\ \A v \in Volumes : v # vol[c] \/ c \notin waiting =>
          kub'[v] = kub[v] /\ (v \in deleted' <=> v \in deleted)

\* Goto moves the call c and leaves the others alone.
LEMMA GotoMoves ==
    ASSUME TypeOK, NEW c \in Calls, NEW label, Goto(c, label)
    PROVE  /\ pc'[c] = label /\ at'[c] = at[c] /\ vol'[c] = vol[c]
           /\ op'[c] = op[c] /\ waited'[c] = 0
           /\ (c \in waiting' <=> c \in waiting)
           /\ UNCHANGED <<cache, running, attached, kub, stopping, breaks>>
           /\ \A d \in Calls \ {c} :
                 /\ pc'[d] = pc[d] /\ at'[d] = at[d] /\ vol'[d] = vol[d]
                 /\ op'[d] = op[d] /\ waited'[d] = waited[d]
                 /\ (d \in waiting' <=> d \in waiting)
    BY Zenon DEF Goto, TypeOK, PodTypeOK, call, lifetime, orchestrator

\* Done ends the call c and leaves the others alone.
LEMMA DoneReturns ==
    ASSUME TypeOK, NEW c \in Calls, Done(c)
    PROVE  /\ Returns(c)
           /\ UNCHANGED <<cache, running, attached, stopping, breaks>>
           /\ \A d \in Calls \ {c} :
                 /\ pc'[d] = pc[d] /\ at'[d] = at[d] /\ vol'[d] = vol[d]
                 /\ op'[d] = op[d] /\ waited'[d] = waited[d]
                 /\ (d \in waiting' <=> d \in waiting)
    BY Zenon DEF Done, Returns, TypeOK, PodTypeOK, lifetime

\* Every step of CreatePod and RemovePod goes to some label or replies.
LEMMA PodCallSteps ==
    ASSUME NEW c \in Calls, CreatePod(c) \/ RemovePod(c)
    PROVE  \/ \E label \in Labels : Goto(c, label)
           \/ \E status \in {"none", "uncertain", "published"} : Reply(c, status)
    <1> USE DEF Labels, CreateLabels, RemoveLabels, DeleteLabels
    <1>1. CASE CreatePod(c)
      <2>1. WriteSecret(c) \/ GetPod(c) \/ CreateApiPod(c) \/ ReplacePod(c) =>
                \E label \in Labels : Goto(c, label)
        BY SMT DEF WriteSecret, GetPod, CreateApiPod, ReplacePod, CreateFails
      <2>2. AwaitReplaced(c) => \E label \in Labels : Goto(c, label)
        BY SMT DEF AwaitReplaced
      <2>3. AwaitReady(c) =>
                \/ \E label \in Labels : Goto(c, label)
                \/ \E status \in {"none", "uncertain", "published"} :
                      Reply(c, status)
        BY SMT DEF AwaitReady, CreateFails
      <2> QED BY <1>1, <2>1, <2>2, <2>3, Zenon DEF CreatePod
    <1>2. CASE RemovePod(c)
      <2>1. RemoveGet(c) \/ AwaitRemoved(c) \/ ForcePod(c) \/ AwaitForced(c) =>
                \E label \in Labels : Goto(c, label)
        BY SMT DEF RemoveGet, AwaitRemoved, ForcePod, AwaitForced
      <2>2. PodRemoved(c) =>
                \/ \E label \in Labels : Goto(c, label)
                \/ \E status \in {"none", "uncertain", "published"} :
                      Reply(c, status)
        BY SMT DEF PodRemoved
      <2>3. RemoveApiPod(c) \/ RemoveSecret(c) \/ AwaitGone(c) =>
                \/ \E label \in Labels : Goto(c, label)
                \/ \E status \in {"none", "uncertain", "published"} :
                      Reply(c, status)
        BY <2>2, SMT DEF RemoveApiPod, RemoveSecret, AwaitGone
      <2> QED BY <1>2, <2>1, <2>2, <2>3, Zenon DEF RemovePod
    <1> QED BY <1>1, <1>2, Zenon

\* The steps of DeleteVolume that are not its answer go to some label.
LEMMA DeleteCallSteps ==
    ASSUME NEW c \in Calls, DeleteStep(c)
    PROVE  /\ UNCHANGED <<config, released>>
           /\ \/ \E success \in BOOLEAN : Answer(c, success)
              \/ /\ \E label \in Labels : Goto(c, label)
                 /\ deleted' = deleted
                 /\ \/ UNCHANGED deletion
                    \/ \E keys \in SUBSET objects, last \in BOOLEAN, k \in objects :
                          /\ page' = [page EXCEPT ![c] = keys]
                          /\ lastPage' = [lastPage EXCEPT ![c] = last]
                          /\ cursor' = [cursor EXCEPT ![c] = k]
    <1> USE DEF Labels, DeleteLabels
    <1>1. CASE Resolve(c)
      BY <1>1, Zenon DEF Resolve
    <1>2. CASE ListPage(c)
      <2>1. UNCHANGED <<config, released>>
        BY <1>2, Zenon DEF ListPage
      <2>2. CASE \E success \in BOOLEAN : Answer(c, success)
        BY <2>1, <2>2, Zenon
      <2>3. CASE ~\E success \in BOOLEAN : Answer(c, success)
        BY <1>2, <2>1, <2>3, Zenon DEF ListPage, FirstPage, Listed
      <2> QED BY <2>2, <2>3, Zenon
    <1>3. CASE DeletePage(c)
      BY <1>3, Zenon DEF DeletePage
    <1> QED BY <1>1, <1>2, <1>3, Zenon DEF DeleteStep

\* What a step of a call does to the calls.
LEMMA CallStepFacts ==
    ASSUME TypeOK, NEW c \in Calls, CallStep(c)
    PROVE  CallFacts(c)
    <1>1. CASE (CreatePod(c) \/ RemovePod(c)) /\ UNCHANGED <<deletion, store>>
      <2>1. UNCHANGED <<page, lastPage, cursor, config, released, deleted>>
        BY <1>1, Zenon DEF deletion, store
      <2>2. CASE \E label \in Labels : Goto(c, label)
        BY <2>1, <2>2, GotoMoves, Zenon DEF CallFacts, Around, Untouched, Moves
      <2>3. CASE \E status : Reply(c, status)
        <3>1. PICK status : Reply(c, status)
          BY <2>3, Zenon
        <3>2. Done(c) /\ kub' = IF c \in waiting
                                THEN [kub EXCEPT ![vol[c]] = status] ELSE kub
          BY <3>1, Zenon DEF Reply
        <3>3. \A v \in Volumes : v # vol[c] \/ c \notin waiting =>
                 kub'[v] = kub[v] /\ (v \in deleted' <=> v \in deleted)
          BY <2>1, <3>2, Zenon DEF TypeOK, PodTypeOK
        <3> QED
          BY <2>1, <3>2, <3>3, DoneReturns, Zenon DEF CallFacts, Around, Untouched
      <2> QED BY <1>1, <2>2, <2>3, PodCallSteps, Zenon
    <1>2. CASE DeleteStep(c)
      <2>1. UNCHANGED <<config, released>>
        BY <1>2, DeleteCallSteps, Zenon
      <2>2. CASE \E success \in BOOLEAN : Answer(c, success)
        <3>1. PICK success \in BOOLEAN : Answer(c, success)
          BY <2>2, Zenon
        <3>2. /\ Done(c) /\ kub' = kub
              /\ \A v \in Volumes : v # vol[c] \/ c \notin waiting =>
                    (v \in deleted' <=> v \in deleted)
              /\ \A d \in Calls \ {c} :
                    /\ page'[d] = page[d] /\ lastPage'[d] = lastPage[d]
                    /\ cursor'[d] = cursor[d]
          BY <3>1, Zenon DEF Answer, TypeOK
        <3> QED BY <2>1, <3>2, DoneReturns, Zenon DEF CallFacts, Around, Untouched
      <2>3. CASE /\ \E label \in Labels : Goto(c, label)
                 /\ deleted' = deleted
                 /\ \/ UNCHANGED deletion
                    \/ \E keys \in SUBSET objects, last \in BOOLEAN, k \in objects :
                          /\ page' = [page EXCEPT ![c] = keys]
                          /\ lastPage' = [lastPage EXCEPT ![c] = last]
                          /\ cursor' = [cursor EXCEPT ![c] = k]
        <3>1. \A d \in Calls \ {c} :
                  /\ page'[d] = page[d] /\ lastPage'[d] = lastPage[d]
                  /\ cursor'[d] = cursor[d]
          BY <2>3, Zenon DEF TypeOK, deletion
        <3> QED
          BY <2>1, <2>3, <3>1, GotoMoves, ZenonT(60) DEF CallFacts, Around, Untouched, Moves
      <2> QED BY <1>2, <2>2, <2>3, DeleteCallSteps, Zenon
    <1> QED BY <1>1, <1>2, Zenon DEF CallStep

-----------------------------------------------------------------------------
(* The other steps.                                                        *)

StartStep(c, v) ==
    \/ (Publish(c, v) \/ Unpublish(c, v)) /\ UNCHANGED <<deletion, store>>
    \/ DeleteVolume(c, v)

MoveStep(v) ==
    /\ Detach(v) \/ \E n \in Nodes : v \notin released /\ Attach(v, n)
    /\ UNCHANGED <<deletion, store>>

ServerStep(v) ==
    /\ StartServer(v) \/ StopServer(v) \/ \E n \in Nodes : KillServer(v, n)
    /\ UNCHANGED <<deletion, store>>

\* The kinds of steps.
LEMMA NextSteps ==
    ASSUME Next
    PROVE  \/ \E c \in Calls : CallStep(c)
           \/ \E c \in Calls, v \in Volumes : StartStep(c, v)
           \/ \E c \in Calls : GiveUp(c) /\ UNCHANGED <<deletion, store>>
           \/ \E v \in Volumes : MoveStep(v)
           \/ \E v \in Volumes : ServerStep(v)
           \/ \E p \in Plugins : Sync(p) /\ UNCHANGED <<deletion, store>>
           \/ \E p \in Plugins : Shutdown(p) /\ UNCHANGED <<deletion, store>>
           \/ Tick /\ UNCHANGED <<deletion, store>>
           \/ \E p \in Plugins : RestartPlugin(p)
           \/ \E v \in Volumes : Release(v)
           \/ \E k \in Keys : Store(k)
    <1>1. CASE PodStep
      BY <1>1, Zenon DEF PodStep, Cluster, CallStep, StartStep, MoveStep, ServerStep
    <1> QED BY <1>1, Zenon DEF Next, CallStep, StartStep

ApiTypeOK ==
    /\ pods \in [Volumes -> PodObjects \cup {None}]
    /\ secrets \subseteq Volumes
    /\ dying \in [Volumes -> {0, 15, 30, 45, GracePeriod}]

\* A pod whose deletion is requested stays the pod it is.
LEMMA TerminatePod ==
    ASSUME TypeOK, NEW v \in Volumes, pods[v] # None, Terminate(v)
    PROVE  /\ pods' \in [Volumes -> PodObjects \cup {None}]
           /\ pods'[v] # None /\ pods'[v].terminating
           /\ pods'[v].node = pods[v].node /\ pods'[v].ready = pods[v].ready
           /\ \A w \in Volumes \ {v} : pods'[w] = pods[w]
    <1>1. pods \in [Volumes -> PodObjects \cup {None}] /\ pods[v] \in PodObjects
      BY Zenon DEF TypeOK, PodTypeOK
    <1>2. pods' = [pods EXCEPT ![v] = [pods[v] EXCEPT !.terminating = TRUE]]
      BY Zenon DEF Terminate
    <1>3. [pods[v] EXCEPT !.terminating = TRUE] \in PodObjects
      BY <1>1, Zenon DEF PodObjects
    <1> QED BY <1>1, <1>2, <1>3, NoneAssumption, Zenon DEF PodObjects

\* A pod whose server has started is the pod it was, and ready.
LEMMA ReadyPod ==
    ASSUME TypeOK, NEW v \in Volumes, StartServer(v)
    PROVE  /\ pods' \in [Volumes -> PodObjects \cup {None}]
           /\ running' = running \cup {<<v, pods[v].node>>} /\ pods[v].node \in Nodes
           /\ pods[v] # None /\ ~pods[v].terminating /\ dying' = dying
           /\ pods'[v] # None /\ pods'[v].ready /\ pods'[v].node = pods[v].node
           /\ pods'[v].terminating = pods[v].terminating
           /\ \A w \in Volumes \ {v} : pods'[w] = pods[w]
    <1>1. pods \in [Volumes -> PodObjects \cup {None}] /\ pods[v] \in PodObjects
      BY Zenon DEF StartServer, TypeOK, PodTypeOK
    <1>2. pods' = [pods EXCEPT ![v] = [pods[v] EXCEPT !.ready = TRUE]]
      BY DEF StartServer
    <1>3. [pods[v] EXCEPT !.ready = TRUE] \in PodObjects
      BY <1>1 DEF PodObjects
    <1>4. pods'[v] = [pods[v] EXCEPT !.ready = TRUE]
          /\ \A w \in Volumes \ {v} : pods'[w] = pods[w]
      BY <1>1, <1>2
    <1>5. /\ pods'[v].ready /\ pods'[v].node = pods[v].node
          /\ pods'[v].terminating = pods[v].terminating /\ pods[v].node \in Nodes
      BY <1>1, <1>4 DEF PodObjects
    <1> QED BY <1>1, <1>2, <1>3, <1>4, <1>5, NoneAssumption DEF StartServer

\* The steps of a call keep the objects of the API server in their types.
LEMMA CallApiType ==
    ASSUME TypeOK, NEW c \in Calls, CallOK(c), CreatePod(c) \/ RemovePod(c)
    PROVE  ApiTypeOK'
    <1>1. ApiTypeOK
      BY Zenon DEF ApiTypeOK, TypeOK, PodTypeOK
    <1>2. UNCHANGED api => ApiTypeOK'
      BY <1>1, Zenon DEF ApiTypeOK, api
    <1>3. CASE WriteSecret(c)
      <2>1. vol[c] \in Volumes
        BY <1>3, Zenon DEF WriteSecret, At, CallOK, Active
      <2> QED BY <1>1, <1>3, <2>1, Zenon DEF WriteSecret, ApiTypeOK
    <1>4. CASE CreateApiPod(c)
      <2>1. vol[c] \in Volumes /\ at[c] \in Nodes
        BY <1>4, Zenon DEF CreateApiPod, At, CallOK, Active, CreateLabels
      <2>2. [node |-> at[c], ready |-> FALSE, terminating |-> FALSE] \in PodObjects
        BY <2>1, Zenon DEF PodObjects
      <2> QED BY <1>1, <1>4, <2>1, <2>2, Zenon DEF CreateApiPod, ApiTypeOK
    <1>5. CASE ReplacePod(c)
      <2>1. vol[c] \in Volumes
        BY <1>5, Zenon DEF ReplacePod, At, CallOK, Active
      <2> QED BY <1>1, <1>5, <2>1, TerminatePod, Zenon DEF ReplacePod, ApiTypeOK
    <1>6. CASE RemoveApiPod(c)
      <2>1. vol[c] \in Volumes
        BY <1>6, Zenon DEF RemoveApiPod, At, CallOK, Active
      <2> QED BY <1>1, <1>6, <2>1, TerminatePod, Zenon DEF RemoveApiPod, ApiTypeOK
    <1>7. CASE ForcePod(c)
      BY <1>1, <1>7, Zenon DEF ForcePod, RemoveObject, ApiTypeOK
    <1>8. CASE RemoveSecret(c)
      BY <1>1, <1>8, Zenon DEF RemoveSecret, ApiTypeOK
    <1>9. CASE \/ GetPod(c) \/ AwaitReplaced(c) \/ AwaitReady(c)
               \/ RemoveGet(c) \/ AwaitRemoved(c) \/ AwaitForced(c)
               \/ AwaitGone(c)
      BY <1>2, <1>9, Zenon DEF GetPod, AwaitReplaced, AwaitReady, RemoveGet,
                        AwaitRemoved, AwaitForced, AwaitGone
    <1> QED
      BY <1>3, <1>4, <1>5, <1>6, <1>7, <1>8, <1>9, Zenon DEF CreatePod, RemovePod

\* The steps of a call keep the types.
LEMMA CallType ==
    ASSUME TypeOK, NEW c \in Calls, CallOK(c), PageOK(c), CallStep(c)
    PROVE  TypeOK'
    <1>1. ASSUME NEW label \in Labels, Goto(c, label)
          PROVE  /\ UNCHANGED <<cache, running, call, waiting, lifetime, orchestrator>>
                 /\ pc' \in [Calls -> Labels \cup {"idle"}]
                 /\ waited' \in [Calls -> Nat]
      BY <1>1, Zenon DEF Goto, TypeOK, PodTypeOK, Labels
    <1>2. ASSUME Done(c)
          PROVE  /\ UNCHANGED <<cache, running, lifetime, attached>>
                 /\ pc' \in [Calls -> Labels \cup {"idle"}]
                 /\ at' \in [Calls -> Plugins \cup {None}]
                 /\ vol' \in [Calls -> Volumes \cup {None}]
                 /\ op' \in [Calls -> Operations \cup {None}]
                 /\ waiting' \subseteq Calls
                 /\ waited' \in [Calls -> Nat]
      BY <1>2, Zenon DEF Done, TypeOK, PodTypeOK, Labels
    <1>3. CASE (CreatePod(c) \/ RemovePod(c)) /\ UNCHANGED <<deletion, store>>
      <2>1. ApiTypeOK'
        BY <1>3, CallApiType, Zenon
      <2>2. CASE \E label \in Labels : Goto(c, label)
        BY <1>1, <1>3, <2>1, <2>2, Zenon
        DEF ApiTypeOK, TypeOK, PodTypeOK, Labels, call, lifetime, orchestrator,
            deletion, store
      <2>3. CASE \E status \in {"none", "uncertain", "published"} : Reply(c, status)
        <3>1. Done(c) /\ kub' \in [Volumes -> {"none", "uncertain", "published"}]
          BY <2>3, Zenon DEF Reply, TypeOK, PodTypeOK
        <3> QED
          BY <1>2, <1>3, <2>1, <3>1, Zenon
          DEF ApiTypeOK, TypeOK, PodTypeOK, Labels, lifetime, deletion, store
      <2> QED BY <1>3, <2>2, <2>3, PodCallSteps, Zenon
    <1>4. CASE DeleteStep(c)
      <2>1. UNCHANGED api /\ objects' \subseteq objects
        BY <1>4, Zenon DEF DeleteStep, Resolve, ListPage, DeletePage
      <2>2. vol[c] \in released
        BY <1>4, Zenon DEF DeleteStep, Resolve, ListPage, DeletePage, At, CallOK,
                    PageOK, Active, DeleteLabels
      <2>3. CASE \E success \in BOOLEAN : Answer(c, success)
        <3>1. /\ Done(c) /\ kub' = kub /\ deleted' \subseteq released
              /\ page' \in [Calls -> SUBSET Keys]
              /\ lastPage' \in [Calls -> BOOLEAN]
              /\ cursor' \in [Calls -> Keys \cup {-1}]
          BY <2>2, <2>3, Zenon DEF Answer, TypeOK
        <3> QED
          BY <1>2, <1>4, <2>1, <3>1, DeleteCallSteps, Zenon
          DEF TypeOK, PodTypeOK, Labels, lifetime, api
      <2>4. CASE /\ \E label \in Labels : Goto(c, label)
                 /\ deleted' = deleted
                 /\ \/ UNCHANGED deletion
                    \/ \E keys \in SUBSET objects, last \in BOOLEAN, k \in objects :
                          /\ page' = [page EXCEPT ![c] = keys]
                          /\ lastPage' = [lastPage EXCEPT ![c] = last]
                          /\ cursor' = [cursor EXCEPT ![c] = k]
        <3>1. /\ page' \in [Calls -> SUBSET Keys]
              /\ lastPage' \in [Calls -> BOOLEAN]
              /\ cursor' \in [Calls -> Keys \cup {-1}]
          BY <2>4, ZenonT(60) DEF TypeOK, deletion
        <3> QED
          BY <1>1, <1>4, <2>1, <2>4, <3>1, DeleteCallSteps, Zenon
          DEF TypeOK, PodTypeOK, Labels, lifetime, api, call, orchestrator
      <2> QED BY <1>4, <2>3, <2>4, DeleteCallSteps, Zenon
    <1> QED BY <1>3, <1>4, Zenon DEF CallStep

\* The start of a call keeps the types.
LEMMA StartType ==
    ASSUME TypeOK, NEW c \in Calls, NEW v \in Volumes, StartStep(c, v)
    PROVE  TypeOK'
    <1> DEFINE FirstLabels == {"remove_get", "write_secret"}
    <1>0. FirstLabels \subseteq Labels
      BY Zenon DEF Labels, CreateLabels, RemoveLabels
    <1>1. ASSUME NEW plugin \in Plugins, NEW operation \in Operations,
                 NEW label \in FirstLabels,
                 StartCall(c, plugin, v, operation, label)
          PROVE  /\ UNCHANGED <<api, cache, running, waited, lifetime, attached>>
                 /\ pc' \in [Calls -> Labels \cup {"idle"}]
                 /\ at' \in [Calls -> Plugins \cup {None}]
                 /\ vol' \in [Calls -> Volumes \cup {None}]
                 /\ op' \in [Calls -> Operations \cup {None}]
                 /\ waiting' \subseteq Calls
      <2> HIDE DEF FirstLabels
      <2>1. pc \in [Calls -> Labels \cup {"idle"}]
        BY Zenon DEF TypeOK, Labels
      <2> QED BY <1>0, <1>1, <2>1, Zenon DEF StartCall, TypeOK, PodTypeOK
    <1>2. CASE (Publish(c, v) \/ Unpublish(c, v)) /\ UNCHANGED <<deletion, store>>
      <2>1. attached[v] \in Plugins /\ {"publish", "unpublish"} \subseteq Operations
        BY <1>2, Zenon DEF Publish, Unpublish, TypeOK, PodTypeOK, Plugins, Operations
      <2>2. kub' \in [Volumes -> {"none", "uncertain", "published"}]
        BY <1>2, Zenon DEF Publish, Unpublish, TypeOK, PodTypeOK
      <2> QED
        BY <1>1, <1>2, <2>1, <2>2, Zenon
        DEF Publish, Unpublish, TypeOK, PodTypeOK, Labels, api, lifetime,
            deletion, store
    <1>3. CASE DeleteVolume(c, v)
      <2>1. Controller \in Plugins /\ "delete" \in Operations
        BY Zenon DEF Plugins, Operations
      <2> QED
        BY <1>1, <1>3, <2>1, Zenon
        DEF DeleteVolume, TypeOK, PodTypeOK, Labels, api, lifetime, deletion, store
    <1> QED BY <1>2, <1>3, Zenon DEF StartStep

\* The steps of the cluster and of time keep the types.
LEMMA ClusterType ==
    ASSUME TypeOK,
           \/ \E c \in Calls : GiveUp(c)
           \/ \E v \in Volumes : MoveStep(v) \/ ServerStep(v)
           \/ \E p \in Plugins : Sync(p) \/ Shutdown(p)
           \/ Tick,
           UNCHANGED <<deletion, store>>
    PROVE  TypeOK'
    <1>0. \A v \in Volumes : StartServer(v) =>
              /\ pods' \in [Volumes -> PodObjects \cup {None}]
              /\ running' = running \cup {<<v, pods[v].node>>}
              /\ pods[v].node \in Nodes
      BY ReadyPod
    <1> USE DEF TypeOK, deletion, store
    <1>1. CASE \E c \in Calls : GiveUp(c)
      BY <1>1, BoundsAssumption
      DEF GiveUp, Breaks, PodTypeOK, api, call, orchestrator
    <1>2. CASE \E v \in Volumes : MoveStep(v)
      BY <1>2, SMTT(60) DEF MoveStep, Attach, Detach, PodTypeOK, api, calls, call, lifetime
    <1>3. CASE \E v \in Volumes : ServerStep(v)
      <2>1. PICK v \in Volumes : ServerStep(v)
        BY <1>3, Zenon
      <2>2. CASE StartServer(v)
        <3>1. running' \subseteq Volumes \X Nodes
              /\ pods' \in [Volumes -> PodObjects \cup {None}]
          BY <1>0, <2>2 DEF PodTypeOK
        <3>2. UNCHANGED <<secrets, dying, cache, calls, lifetime, orchestrator>>
          BY <2>2, Zenon DEF StartServer
        <3> QED
          BY <3>1, <3>2 DEF PodTypeOK, calls, call, lifetime, orchestrator
      <2>3. CASE StopServer(v) \/ \E n \in Nodes : KillServer(v, n)
        BY <2>3, Zenon DEF StopServer, KillServer, RemoveObject, PodTypeOK, api, calls,
                    call, lifetime, orchestrator
      <2> QED BY <2>1, <2>2, <2>3, Zenon DEF ServerStep
    <1>4. CASE \E p \in Plugins : Sync(p)
      BY <1>4, ZenonT(60) DEF Sync, PodTypeOK, api, calls, call, lifetime, orchestrator
    <1>5. CASE \E p \in Plugins : Shutdown(p)
      BY <1>5, BoundsAssumption
      DEF Shutdown, Breaks, PodTypeOK, api, calls, call, orchestrator
    <1>6. CASE Tick
      <2>1. dying' \in [Volumes -> {0, 15, 30, 45, GracePeriod}]
        BY <1>6 DEF Tick, PodTypeOK, GracePeriod
      <2>2. waited' \in [Calls -> Nat]
        BY <1>6 DEF Tick, PodTypeOK
      <2> QED
        BY <1>6, <2>1, <2>2, Zenon DEF Tick, PodTypeOK, call, lifetime, orchestrator
    <1> QED BY <1>1, <1>2, <1>3, <1>4, <1>5, <1>6, Zenon

\* A restart keeps the types, and ends the calls of the plugin only.
LEMMA RestartFacts ==
    ASSUME TypeOK, NEW p \in Plugins, RestartPlugin(p)
    PROVE  /\ TypeOK'
           /\ UNCHANGED <<pods, secrets, dying, running, attached, kub, store>>
           /\ cache' = [cache EXCEPT ![p] = pods]
           /\ \A c \in Calls :
                 IF at[c] = p
                 THEN Returns(c) /\ page'[c] = {} /\ ~lastPage'[c] /\ cursor'[c] = -1
                 ELSE Untouched(c)
    <1> DEFINE Without(f, value) ==
                   [c \in Calls |-> IF at[c] = p THEN value ELSE f[c]]
    <1>1. /\ cache' = [cache EXCEPT ![p] = pods]
          /\ pc' = Without(pc, "idle") /\ at' = Without(at, None)
          /\ vol' = Without(vol, None) /\ op' = Without(op, None)
          /\ waited' = Without(waited, 0)
          /\ waiting' = waiting \ {c \in Calls : at[c] = p}
          /\ page' = Without(page, {})
          /\ cursor' = Without(cursor, -1)
          /\ lastPage' = [c \in Calls |-> at[c] # p /\ lastPage[c]]
          /\ UNCHANGED <<pods, secrets, dying, running, attached, kub, store>>
      BY Zenon DEF RestartPlugin, Restart, api, orchestrator
    <1>2. stopping' \subseteq Plugins /\ breaks' \in 0..MaxBreaks
      BY BoundsAssumption DEF RestartPlugin, Restart, Breaks, TypeOK, PodTypeOK
    <1>3. TypeOK'
      BY <1>1, <1>2, Zenon DEF TypeOK, PodTypeOK, store
    <1>4. \A c \in Calls :
              IF at[c] = p
              THEN Returns(c) /\ page'[c] = {} /\ ~lastPage'[c] /\ cursor'[c] = -1
              ELSE Untouched(c)
      BY <1>1, Zenon DEF Returns, Untouched, TypeOK, PodTypeOK
    <1> QED BY <1>1, <1>3, <1>4, Zenon

-----------------------------------------------------------------------------
(* What holds in every environment.                                        *)

\* A call is at a label of its operation.
LEMMA CallLabels ==
    ASSUME TypeOK, NEW c \in Calls, CallOK(c), CallStep(c), ~Returns(c)
    PROVE  /\ Active(c)
           /\ pc'[c] \in CreateLabels => op[c] = "publish"
           /\ pc'[c] \in DeleteLabels => op[c] = "delete"
           /\ pc'[c] = "await_gone" => op[c] = "unpublish"
    <1> USE DEF CreateLabels, DeleteLabels
    <1>1. \A label : Goto(c, label) => pc'[c] = label
      BY GotoMoves, Zenon
    <1>2. \A status : ~Reply(c, status)
      BY DoneReturns, Zenon DEF Reply
    <1>3. \A success : ~Answer(c, success)
      BY DoneReturns, Zenon DEF Answer
    <1>4. Active(c)
      BY Zenon DEF CallStep, CreatePod, RemovePod, DeleteStep, WriteSecret, GetPod,
             CreateApiPod, ReplacePod, AwaitReplaced, AwaitReady, RemoveGet,
             RemoveApiPod, AwaitRemoved, ForcePod, AwaitForced, RemoveSecret,
             AwaitGone, Resolve, ListPage, DeletePage, At, Active
    <1>5. CASE CreatePod(c)
      <2>1. pc[c] \in CreateLabels
        BY <1>5, Zenon DEF CreatePod, WriteSecret, GetPod, CreateApiPod, ReplacePod,
                    AwaitReplaced, AwaitReady, At
      <2>2. pc'[c] \in CreateLabels \cup {"remove_get"}
        BY <1>1, <1>2, <1>5, Zenon
        DEF CreatePod, WriteSecret, GetPod, CreateApiPod, ReplacePod,
            AwaitReplaced, AwaitReady, CreateFails
      <2> QED BY <1>4, <2>1, <2>2, Zenon DEF CallOK
    <1>6. CASE RemovePod(c)
      <2>1. PodRemoved(c) =>
                \/ op[c] = "unpublish" /\ pc'[c] = "await_gone"
                \/ op[c] = "delete" /\ pc'[c] = "resolve"
        BY <1>1, <1>2, Zenon DEF PodRemoved
      <2>2. \/ PodRemoved(c)
            \/ pc'[c] \in {"remove_secret", "remove_pod", "await_removed",
                           "force_pod", "await_forced"}
        BY <1>1, <1>2, <1>6, Zenon
        DEF RemovePod, RemoveGet, RemoveApiPod, AwaitRemoved, ForcePod,
            AwaitForced, RemoveSecret, AwaitGone
      <2> QED BY <1>4, <2>1, <2>2, Zenon
    <1>7. CASE DeleteStep(c)
      <2>1. pc[c] \in DeleteLabels
        BY <1>7, Zenon DEF DeleteStep, Resolve, ListPage, DeletePage, At
      <2>2. pc'[c] \in DeleteLabels
        BY <1>1, <1>3, <1>7, Zenon DEF DeleteStep, Resolve, ListPage, DeletePage
      <2> QED BY <1>4, <2>1, <2>2, Zenon DEF CallOK
    <1> QED BY <1>5, <1>6, <1>7, Zenon DEF CallStep

\* A deletion lists only if it has to, and only what it should.
LEMMA CallPages ==
    ASSUME TypeOK, NEW c \in Calls, CallOK(c), PageOK(c), CallStep(c), ~Returns(c)
    PROVE  /\ pc'[c] \in {"list", "delete_page"} =>
                 config[vol[c]].delete /\ Usable(config[vol[c]])
           /\ pc'[c] = "delete_page" =>
                 \A k \in page'[c] :
                     HasPrefix(k, DeleteLocation(config[vol[c]].url, vol[c]))
    <1>1. \A label : Goto(c, label) => pc'[c] = label
      BY GotoMoves, Zenon
    <1>2. \A status : ~Reply(c, status)
      BY DoneReturns, Zenon DEF Reply
    <1>3. \A success : ~Answer(c, success)
      BY DoneReturns, Zenon DEF Answer
    <1>4. CASE CreatePod(c) \/ RemovePod(c)
      <2>1. pc'[c] \notin {"list", "delete_page"}
        BY <1>1, <1>2, <1>4, Zenon
        DEF CreatePod, WriteSecret, GetPod, CreateApiPod, ReplacePod,
            AwaitReplaced, AwaitReady, CreateFails, RemovePod, RemoveGet,
            RemoveApiPod, AwaitRemoved, ForcePod, AwaitForced, RemoveSecret,
            AwaitGone, PodRemoved
      <2> QED BY <2>1, Zenon
    <1>5. CASE Resolve(c)
      BY <1>1, <1>3, <1>5, Zenon DEF Resolve
    <1>6. CASE ListPage(c)
      <2>1. /\ pc[c] = "list"
            /\ page' = [page EXCEPT ![c] = FirstPage(Listed(c))]
        BY <1>3, <1>6, Zenon DEF ListPage, At
      <2>2. page'[c] = FirstPage(Listed(c))
        BY <2>1, Zenon DEF TypeOK
      <2> QED BY <2>1, <2>2, Zenon DEF PageOK, FirstPage, Listed
    <1>7. CASE DeletePage(c)
      BY <1>1, <1>3, <1>7, Zenon DEF DeletePage, PageOK, At
    <1> QED BY <1>4, <1>5, <1>6, <1>7, Zenon DEF CallStep, DeleteStep

\* The calls as they are, but for the time they have waited and for replies
\* that are not waited for any more.
SameCalls ==
    /\ UNCHANGED <<pc, call, deletion, config, deleted>>
    /\ released \subseteq released' /\ waiting' \subseteq waiting

\* The steps of the cluster leave the calls as they are.
LEMMA ClusterCalls ==
    ASSUME \/ /\ \/ \E c \in Calls : GiveUp(c)
                 \/ \E v \in Volumes : MoveStep(v) \/ ServerStep(v)
                 \/ \E p \in Plugins : Sync(p) \/ Shutdown(p)
                 \/ Tick
              /\ UNCHANGED <<deletion, store>>
           \/ \E v \in Volumes : Release(v)
           \/ \E k \in Keys : Store(k)
    PROVE  SameCalls
    BY Zenon DEF SameCalls, GiveUp, MoveStep, Attach, Detach, ServerStep, StartServer,
           StopServer, KillServer, Sync, Shutdown, Tick, Release, Store, podVars,
           calls, store

\* A call that is left alone stays as it should be.
LEMMA UntouchedOK ==
    ASSUME NEW d \in Calls, CallOK(d), PageOK(d), Untouched(d), config' = config,
           released \subseteq released',
           op[d] = "delete" /\ d \in waiting => vol[d] \notin deleted'
    PROVE  CallOK(d)' /\ PageOK(d)'
    <1>1. CallOK(d)'
      BY Zenon DEF CallOK, Active, Untouched
    <1>2. PageOK(d)'
      BY Zenon DEF PageOK, Untouched
    <1> QED BY <1>1, <1>2, Zenon

\* A call that returns is as it should be.
LEMMA ReturnsOK ==
    ASSUME NEW c \in Calls, Returns(c)
    PROVE  CallOK(c)' /\ PageOK(c)'
    <1>1. CallOK(c)'
      BY Zenon DEF CallOK, Active, Returns
    <1>2. PageOK(c)'
      BY NoneAssumption, Zenon DEF PageOK, Returns, Operations
    <1> QED BY <1>1, <1>2, Zenon

\* Every step keeps what holds of the calls.
LEMMA CallInvStep ==
    ASSUME CallInv, [Next]_vars
    PROVE  CallInv'
    <1> USE DEF CallInv
    <1> DEFINE CallsOK == \A d \in Calls : CallOK(d)' /\ PageOK(d)'
               Single == \A c, d \in waiting' : vol'[c] = vol'[d] => c = d
    <1>0. waiting \subseteq Calls /\ \A d \in waiting : Active(d) /\ vol[d] \in Volumes
      BY Zenon DEF TypeOK, PodTypeOK, CallOK
    <1>1. CASE \E c \in Calls : CallStep(c)
      <2>1. PICK c \in Calls : CallStep(c)
        BY <1>1, Zenon
      <2>2. TypeOK' /\ CallFacts(c)
        BY <2>1, CallType, CallStepFacts, Zenon
      <2>3. waiting' \subseteq Calls
        BY <2>2, Zenon DEF TypeOK, PodTypeOK
      <2>4. \A d \in waiting' : d \in waiting /\ vol'[d] = vol[d]
        BY <2>2, <2>3, Zenon DEF CallFacts, Untouched, Moves, Returns
      <2>5. ASSUME NEW d \in Calls \ {c} PROVE CallOK(d)' /\ PageOK(d)'
        <3>1. op[d] = "delete" /\ d \in waiting => vol[d] \notin deleted'
          BY <1>0, <2>2, Zenon DEF CallFacts, PageOK
        <3> QED
          BY <2>2, <3>1, UntouchedOK, Zenon DEF CallFacts, Around
      <2>6. CASE Returns(c)
        BY <2>2, <2>4, <2>5, <2>6, ReturnsOK, Zenon
      <2>7. CASE ~Returns(c)
        <3>1. PICK label \in Labels : Moves(c, label)
          BY <2>2, <2>7, Zenon DEF CallFacts
        <3>2. CallOK(c)'
          BY <2>1, <2>7, <3>1, CallLabels, Zenon DEF Moves, CallOK, Active, Labels, CreateLabels, RemoveLabels, DeleteLabels
        <3>3. config' = config /\ released' = released
          BY <2>2, Zenon DEF CallFacts, Around
        <3>4. PageOK(c)'
          BY <2>1, <2>7, <3>1, <3>3, CallPages, Zenon DEF Moves, PageOK
        <3> QED BY <2>2, <2>4, <2>5, <3>2, <3>4, Zenon
      <2> QED BY <2>6, <2>7, Zenon
    <1>2. CASE \E c \in Calls, v \in Volumes : StartStep(c, v)
      <2>1. PICK c \in Calls, v \in Volumes : StartStep(c, v)
        BY <1>2, Zenon
      <2>2. TypeOK'
        BY <2>1, StartType, Zenon
      <2>3. PICK plugin, operation, label : StartCall(c, plugin, v, operation, label)
        BY <2>1, Zenon DEF StartStep, Publish, Unpublish, DeleteVolume
      <2>4. UNCHANGED <<deletion, store>>
        BY <2>1, Zenon DEF StartStep, DeleteVolume
      <2>5. /\ pc[c] = "idle" /\ pc'[c] = label /\ at'[c] = plugin /\ vol'[c] = v
            /\ op'[c] = operation /\ waiting' = waiting \cup {c}
            /\ \A d \in waiting : vol[d] # v
            /\ \A d \in Calls \ {c} : Untouched(d)
        BY <2>3, <2>4, Zenon DEF StartCall, At, Undisturbed, Untouched, TypeOK, PodTypeOK,
                          deletion
      <2>6. ASSUME NEW d \in Calls \ {c} PROVE CallOK(d)' /\ PageOK(d)'
        <3>1. op[d] = "delete" /\ d \in waiting => vol[d] \notin deleted'
          BY <2>4, Zenon DEF PageOK, store
        <3> QED BY <2>4, <2>5, <3>1, UntouchedOK, Zenon DEF store
      <2>7. /\ pc'[c] \in {"write_secret", "remove_get"}
            /\ pc'[c] = "write_secret" => op'[c] = "publish"
            /\ op'[c] \in Operations
            /\ IF op'[c] = "delete" THEN at'[c] = Controller ELSE at'[c] \in Nodes
            /\ op'[c] = "delete" => v \in released' \ deleted'
        <3>1. pc' = [pc EXCEPT ![c] = label] /\ at' = [at EXCEPT ![c] = plugin]
              /\ op' = [op EXCEPT ![c] = operation]
          BY <2>3, Zenon DEF StartCall
        <3>2. CASE Publish(c, v) \/ Unpublish(c, v)
          <4>1. attached[v] \in Nodes
            BY <3>2, Zenon DEF Publish, Unpublish, TypeOK, PodTypeOK
          <4> QED
            BY <3>2, <4>1
            DEF Publish, Unpublish, StartCall, TypeOK, PodTypeOK, Operations
        <3>3. CASE DeleteVolume(c, v)
          BY <2>4, <3>3, Zenon
          DEF DeleteVolume, StartCall, TypeOK, PodTypeOK, Operations, store
        <3> QED BY <2>1, <3>2, <3>3, Zenon DEF StartStep
      <2>8. CallOK(c)' /\ PageOK(c)'
        <3>1. CallOK(c)'
          BY <2>5, <2>7, Zenon DEF CallOK, Active, CreateLabels, DeleteLabels
        <3>2. PageOK(c)'
          BY <2>5, <2>7, Zenon DEF PageOK
        <3> QED BY <3>1, <3>2, Zenon
      <2>9. Single
        BY <1>0, <2>5, SMTT(30) DEF Untouched
      <2> QED BY <2>2, <2>6, <2>8, <2>9, Zenon
    <1>3. ASSUME SameCalls, TypeOK' PROVE CallInv'
      <2>1. \A d \in Calls : CallOK(d)'
        BY <1>3, Zenon DEF SameCalls, call, CallOK, Active
      <2>2. \A d \in Calls : PageOK(d)'
        BY <1>3, Zenon DEF SameCalls, call, PageOK, deletion
      <2> QED BY <1>3, <2>1, <2>2, Zenon DEF SameCalls, call
    <1>4. CASE \/ /\ \/ \E c \in Calls : GiveUp(c)
                     \/ \E v \in Volumes : MoveStep(v) \/ ServerStep(v)
                     \/ \E p \in Plugins : Sync(p) \/ Shutdown(p)
                     \/ Tick
                  /\ UNCHANGED <<deletion, store>>
      BY <1>3, <1>4, ClusterType, ClusterCalls, Zenon
    <1>5. CASE (\E v \in Volumes : Release(v)) \/ (\E k \in Keys : Store(k))
      <2>1. UNCHANGED <<podVars, deletion, config>>
            /\ released' \subseteq Volumes /\ released \subseteq released'
            /\ deleted' = deleted /\ objects' \subseteq Keys
        BY <1>5, Zenon DEF Release, Store, TypeOK
      <2>2. TypeOK'
        BY <2>1, Zenon DEF TypeOK, PodTypeOK, podVars, api, calls, call, lifetime,
                    orchestrator, deletion
      <2> QED BY <1>3, <1>5, <2>2, ClusterCalls, Zenon
    <1>6. CASE \E p \in Plugins : RestartPlugin(p)
      <2>1. PICK p \in Plugins : RestartPlugin(p)
        BY <1>6, Zenon
      <2>2. /\ TypeOK' /\ UNCHANGED store
            /\ \A d \in Calls : Returns(d) \/ Untouched(d)
        BY <2>1, RestartFacts, Zenon
      <2>3. ASSUME NEW d \in Calls PROVE CallOK(d)' /\ PageOK(d)'
        <3>1. op[d] = "delete" /\ d \in waiting => vol[d] \notin deleted'
          BY <2>2, Zenon DEF PageOK, store
        <3> QED BY <2>2, <3>1, ReturnsOK, UntouchedOK, Zenon DEF store
      <2>4. waiting' \subseteq Calls
        BY <2>2, Zenon DEF TypeOK, PodTypeOK
      <2>5. ASSUME NEW d \in waiting', NEW e \in waiting', vol'[d] = vol'[e] PROVE d = e
        <3>1. /\ d \in waiting /\ e \in waiting
              /\ vol'[d] = vol[d] /\ vol'[e] = vol[e]
          BY <2>2, <2>4, Zenon DEF Returns, Untouched
        <3> QED BY <2>5, <3>1, Zenon
      <2> QED BY <2>2, <2>3, <2>5, Zenon
    <1>7. CASE UNCHANGED vars
      <2>1. TypeOK' /\ SameCalls
        BY <1>7, Zenon DEF TypeOK, PodTypeOK, SameCalls, vars, podVars, api, calls, call,
                    lifetime, orchestrator, deletion, store
      <2> QED BY <1>3, <2>1, Zenon
    <1> QED
      <2>1. CASE Next
        BY <1>1, <1>2, <1>4, <1>5, <1>6, <2>1, NextSteps, Zenon DEF MoveStep, ServerStep
      <2> QED BY <1>7, <2>1, Zenon

\* The calls are as they should be, and the types right, in every environment.
THEOREM CallInvariant == Spec => []CallInv
    <1>1. Init => CallInv
      <2> SUFFICES ASSUME Init PROVE CallInv
        OBVIOUS
      <2>1. TypeOK
        BY BoundsAssumption DEF Init, PodInit, TypeOK, PodTypeOK, GracePeriod
      <2>2. \A c \in Calls : CallOK(c) /\ PageOK(c)
        BY NoneAssumption, Zenon DEF Init, PodInit, CallOK, PageOK, Active, Operations
      <2> QED BY <2>1, <2>2, Zenon DEF Init, PodInit, CallInv
    <1> QED BY <1>1, CallInvStep, PTL DEF Spec

\* The variables always have their types.
THEOREM TypeCorrect == Spec => []TypeOK
    BY CallInvariant, PTL DEF CallInv

\* If DeleteVolume looks for the data where the pod has put them, it deletes
\* only objects of the volume it is to delete, and those only if the
\* StorageClass says so, in every environment.
THEOREM OthersSafe ==
    ASSUME LayoutsAgree
    PROVE  Spec => OthersKeepData
    <1> DEFINE Kept(k) == \E v \in released \ deleted :
                              config[v].delete /\ Stores(v, k)
    <1>1. ASSUME CallInv, Next, NEW k \in objects \ objects'
          PROVE  Kept(k)
      <2>1. PICK c \in Calls : DeletePage(c) /\ c \in waiting /\ k \in page[c]
        <3>1. CASE \E c \in Calls : CallStep(c)
          BY <1>1, <3>1, Zenon DEF CallStep, DeleteStep, Resolve, ListPage, DeletePage, store
        <3>2. CASE ~\E c \in Calls : CallStep(c)
          BY <1>1, <3>2, NextSteps, RestartFacts, Zenon
          DEF StartStep, DeleteVolume, MoveStep, ServerStep, Release, Store, store,
              CallInv
        <3> QED BY <3>1, <3>2, Zenon
      <2>2. /\ vol[c] \in Volumes /\ vol[c] \in released \ deleted
            /\ config[vol[c]].delete /\ Usable(config[vol[c]])
            /\ HasPrefix(k, DeleteLocation(config[vol[c]].url, vol[c]))
        BY <1>1, <2>1, Zenon DEF DeletePage, At, CallInv, CallOK, PageOK, Active, DeleteLabels
      <2>3. k \in Keys /\ config[vol[c]] \in Configs
        BY <1>1, <2>2, Zenon DEF CallInv, TypeOK
      <2>4. Stores(vol[c], k)
        BY <2>2, <2>3, Zenon DEF LayoutsAgree, Stores
      <2> QED BY <2>2, <2>4, Zenon
    <1>2. CallInv /\ [Next]_vars => [\A k \in objects \ objects' : Kept(k)]_vars
      BY <1>1, Zenon
    <1> QED BY <1>2, CallInvariant, PTL DEF Spec, OthersKeepData

\* No step but the forced deletion of RemovePod takes the pod from a server
\* that runs, in any environment.
THEOREM PodsLostByForce == Spec => PodLostByForce
    <1> DEFINE Forced(v) == \E c \in Calls :
                  vol[c] = v /\ pc[c] = "force_pod" /\ pc'[c] # pc[c]
    <1>1. ASSUME CallInv, Next, NEW v \in Volumes, NEW n \in Nodes,
                 ~PodLost(v, n), PodLost(v, n)'
          PROVE  Forced(v)
      <2>0. TypeOK
        BY <1>1, Zenon DEF CallInv
      <2>1. CASE \E c \in Calls : CallStep(c)
        <3>1. PICK c \in Calls : CallStep(c)
          BY <2>1, Zenon
        <3>2. /\ <<v, n>> \in running /\ pods[v] # None /\ pods[v].node = n
              /\ pods'[v] # None => pods'[v].node # n
          BY <1>1, <2>0, <3>1, CallStepFacts, Zenon DEF PodLost, CallFacts, Around
        <3>3. CASE CreateApiPod(c)
          BY <2>0, <3>2, <3>3, Zenon DEF CreateApiPod, TypeOK, PodTypeOK
        <3>4. CASE ReplacePod(c) \/ RemoveApiPod(c)
          <4>1. vol[c] \in Volumes
            BY <1>1, <3>4, Zenon DEF CallInv, CallOK, Active, ReplacePod, RemoveApiPod, At
          <4> QED
            BY <2>0, <3>2, <3>4, <4>1, TerminatePod, Zenon DEF ReplacePod, RemoveApiPod
        <3>5. CASE ForcePod(c)
          <4>1. pc[c] = "force_pod" /\ pc'[c] = "await_forced"
            BY <2>0, <3>5, GotoMoves, Zenon DEF ForcePod, At
          <4>2. vol[c] = v
            BY <2>0, <3>2, <3>5, Zenon DEF ForcePod, RemoveObject, TypeOK, PodTypeOK
          <4> QED BY <4>1, <4>2, Zenon
        <3>6. CASE UNCHANGED pods
          BY <3>2, <3>6, Zenon
        <3> QED
          BY <3>1, <3>3, <3>4, <3>5, <3>6, Zenon
          DEF CallStep, CreatePod, RemovePod, DeleteStep, WriteSecret, GetPod,
              AwaitReplaced, AwaitReady, RemoveGet, AwaitRemoved, AwaitForced,
              RemoveSecret, AwaitGone, Resolve, ListPage, DeletePage, api
      <2>2. CASE \E w \in Volumes : ServerStep(w)
        <3>1. PICK w \in Volumes : ServerStep(w)
          BY <2>2, Zenon
        <3>2. CASE StartServer(w)
          <4>1. /\ running' = running \cup {<<w, pods[w].node>>}
                /\ pods'[w] # None /\ pods'[w].node = pods[w].node
                /\ v # w => pods'[v] = pods[v]
            BY <2>0, <3>2, ReadyPod
          <4>2. CASE v = w
            BY <1>1, <4>1, <4>2 DEF PodLost
          <4>3. CASE v # w
            BY <1>1, <4>1, <4>3 DEF PodLost
          <4> QED BY <4>2, <4>3
        <3>3. CASE StopServer(w)
          BY <1>1, <2>0, <3>3, Zenon DEF StopServer, RemoveObject, PodLost, TypeOK, PodTypeOK
        <3>4. CASE \E m \in Nodes : KillServer(w, m)
          BY <1>1, <3>4, Zenon DEF KillServer, PodLost, api
        <3> QED BY <3>1, <3>2, <3>3, <3>4, Zenon DEF ServerStep
      <2>3. CASE /\ ~\E c \in Calls : CallStep(c)
                 /\ ~\E w \in Volumes : ServerStep(w)
        <3>1. UNCHANGED <<pods, running>>
          BY <1>1, <2>0, <2>3, NextSteps, RestartFacts, ZenonT(60)
          DEF StartStep, DeleteVolume, Publish, Unpublish, StartCall, GiveUp,
              MoveStep, Attach, Detach, Sync, Shutdown, Tick, Release, Store, api,
              podVars
        <3> QED BY <1>1, <3>1, Zenon DEF PodLost
      <2> QED BY <2>1, <2>2, <2>3, Zenon
    <1>2. CallInv /\ [Next]_vars =>
              [\A v \in Volumes, n \in Nodes :
                   ~PodLost(v, n) /\ PodLost(v, n)' => Forced(v)]_vars
      BY <1>1, Zenon
    <1> QED BY <1>2, CallInvariant, PTL DEF Spec, PodLostByForce

-----------------------------------------------------------------------------
(* Calls advance.                                                          *)

\* No wait is overdue, and who does not wait has not waited.
InTime ==
    \A c \in Calls :
        IF c \in Waits THEN waited[c] < WaitLimit[pc[c]] + 15
        ELSE waited[c] = 0

\* The limits are numbers, and the waits are where they are.
LEMMA Limits ==
    /\ \A l \in DOMAIN WaitLimit : WaitLimit[l] \in Nat
    /\ DOMAIN WaitLimit = {"await_replaced", "await_ready", "await_removed",
                           "await_forced", "await_gone"}
    /\ \A l \in Labels : Position[l] \in 1..16
    /\ \A l \in Labels : \A w \in DOMAIN WaitLimit : TimeAhead(l, w) \in Nat
    <1>1. /\ DOMAIN WaitLimit = {"await_replaced", "await_ready", "await_removed",
                                 "await_forced", "await_gone"}
          /\ \A l \in DOMAIN WaitLimit : WaitLimit[l] \in Nat
      BY TimeAssumption
      DEF WaitLimit, ReplaceWait, RemoveWait, ForceWait, GoneWait, ReadyWait,
          podReadyTimeout
    <1>2. \A l \in Labels : Position[l] \in 1..16
      BY DEF Labels, CreateLabels, RemoveLabels, DeleteLabels, Position
    <1> QED BY <1>1, <1>2 DEF TimeAhead

\* The time that all the waits ahead take is a number.
LEMMA AheadNumber ==
    ASSUME NEW l \in Labels, NEW o
    PROVE  WaitsAhead(l, o) \in Nat
    <1>1. \A w \in {"await_replaced", "await_ready", "await_removed", "await_forced",
                    "await_gone"} : TimeAhead(l, w) \in Nat
      BY Limits, Zenon
    <1> QED BY <1>1 DEF WaitsAhead

\* Behind the last wait a call has no time to spend.
LEMMA NoneAhead ==
    ASSUME NEW l \in {"list", "delete_page"}, NEW o
    PROVE  WaitsAhead(l, o) = 0
    <1>1. Position[l] \in {15, 16}
      BY DEF Position
    <1>2. \A w \in {"await_replaced", "await_ready", "await_removed", "await_forced",
                    "await_gone"} : Position[w] \in 1..13
      BY DEF Position
    <1>3. \A w \in {"await_replaced", "await_ready", "await_removed", "await_forced",
                    "await_gone"} : TimeAhead(l, w) = 0
      BY <1>1, <1>2 DEF TimeAhead
    <1> QED BY <1>3 DEF WaitsAhead

\* What is ahead of a label is ahead of the labels before it.
LEMMA AheadShrinks ==
    ASSUME NEW l \in Labels, NEW m \in Labels, Position[l] < Position[m]
    PROVE  /\ \A w \in DOMAIN WaitLimit : TimeAhead(m, w) <= TimeAhead(l, w)
           /\ l \in DOMAIN WaitLimit =>
                 TimeAhead(m, l) = 0 /\ TimeAhead(l, l) = WaitLimit[l] + 15
    <1>1. Position[l] \in Nat /\ Position[m] \in Nat
      BY Limits
    <1>2. ASSUME NEW w \in DOMAIN WaitLimit
          PROVE  WaitLimit[w] \in Nat /\ Position[w] \in Nat
      BY Limits DEF Labels, CreateLabels, RemoveLabels
    <1> QED BY <1>1, <1>2 DEF TimeAhead

\* Where a call waits, the wait is ahead of it.
LEMMA WaitAhead ==
    ASSUME NEW l \in DOMAIN WaitLimit, NEW o, l = "await_gone" => o = "unpublish"
    PROVE  /\ l \in Labels /\ WaitLimit[l] \in Nat
           /\ WaitLimit[l] + 15 <= WaitsAhead(l, o)
    <1>1. l \in Labels /\ WaitLimit[l] \in Nat /\ Position[l] \in 1..16
      BY Limits DEF Labels, CreateLabels, RemoveLabels
    <1>2. TimeAhead(l, l) = WaitLimit[l] + 15
      BY <1>1 DEF TimeAhead
    <1>3. \A w \in DOMAIN WaitLimit : TimeAhead(l, w) \in Nat
      BY <1>1, Limits, Zenon
    <1> QED BY <1>1, <1>2, <1>3, Limits DEF WaitsAhead

\* A call that goes forward has not more time ahead, and less if it waited.
LEMMA LessAhead ==
    ASSUME NEW l \in Labels, NEW m \in Labels, Position[l] < Position[m],
           NEW o, l = "await_gone" => o = "unpublish"
    PROVE  /\ WaitsAhead(m, o) <= WaitsAhead(l, o)
           /\ l \in DOMAIN WaitLimit =>
                 WaitsAhead(m, o) + (WaitLimit[l] + 15) <= WaitsAhead(l, o)
    <1>1. \A w \in DOMAIN WaitLimit :
              /\ TimeAhead(l, w) \in Nat /\ TimeAhead(m, w) \in Nat
              /\ TimeAhead(m, w) <= TimeAhead(l, w)
      BY Limits, AheadShrinks, Zenon
    <1>2. WaitsAhead(m, o) <= WaitsAhead(l, o)
      BY <1>1, Limits DEF WaitsAhead
    <1>3. ASSUME l \in DOMAIN WaitLimit
          PROVE  WaitsAhead(m, o) + (WaitLimit[l] + 15) <= WaitsAhead(l, o)
      <2>1. TimeAhead(m, l) = 0 /\ TimeAhead(l, l) = WaitLimit[l] + 15
        BY <1>3, AheadShrinks, Zenon
      <2>2. WaitLimit[l] \in Nat
        BY <1>3, Limits, Zenon
      <2> QED BY <1>1, <1>3, <2>1, <2>2, Limits DEF WaitsAhead
    <1> QED BY <1>2, <1>3, Zenon

\* The order of the labels.
LEMMA Order ==
    /\ \A l \in {"get_pod", "remove_get"} : Position["write_secret"] < Position[l]
    /\ \A l \in {"create_pod", "await_ready", "replace_pod"} :
          Position["get_pod"] < Position[l]
    /\ \A l \in {"await_replaced", "remove_get"} : Position["replace_pod"] < Position[l]
    /\ Position["await_replaced"] < Position["create_pod"]
    /\ \A l \in {"await_ready", "remove_get"} : Position["create_pod"] < Position[l]
    /\ Position["await_ready"] < Position["remove_get"]
    /\ \A l \in {"remove_secret", "remove_pod"} : Position["remove_get"] < Position[l]
    /\ \A l \in {"await_removed", "remove_secret", "await_gone", "resolve"} :
          Position["remove_pod"] < Position[l]
    /\ \A l \in {"remove_secret", "force_pod"} : Position["await_removed"] < Position[l]
    /\ Position["force_pod"] < Position["await_forced"]
    /\ Position["await_forced"] < Position["remove_secret"]
    /\ \A l \in {"await_gone", "resolve"} : Position["remove_secret"] < Position[l]
    /\ Position["resolve"] < Position["list"]
    /\ Position["list"] < Position["delete_page"]
    BY DEF Position

\* A step of a call takes it forward, or from a page to the next listing.
LEMMA CallForward ==
    ASSUME TypeOK, NEW c \in Calls, CallStep(c), ~Returns(c)
    PROVE  \/ Position[pc[c]] < Position[pc'[c]]
           \/ pc[c] = "delete_page" /\ pc'[c] = "list"
    <1>1. \A label : Goto(c, label) => pc'[c] = label
      BY GotoMoves, Zenon
    <1>2. \A status : ~Reply(c, status)
      BY DoneReturns, Zenon DEF Reply
    <1>3. \A success : ~Answer(c, success)
      BY DoneReturns, Zenon DEF Answer
    <1>4. PodRemoved(c) => pc'[c] \in {"await_gone", "resolve"}
      BY <1>1, <1>2, Zenon DEF PodRemoved
    <1>5. CASE WriteSecret(c) \/ GetPod(c) \/ CreateApiPod(c)
      <2>1. \/ pc[c] = "write_secret" /\ pc'[c] \in {"get_pod", "remove_get"}
            \/ pc[c] = "get_pod"
               /\ pc'[c] \in {"create_pod", "await_ready", "replace_pod"}
            \/ pc[c] = "create_pod" /\ pc'[c] \in {"await_ready", "remove_get"}
        BY <1>1, <1>5, Zenon DEF WriteSecret, GetPod, CreateApiPod, CreateFails, At
      <2> QED BY <2>1, Order, Zenon
    <1>6. CASE ReplacePod(c) \/ AwaitReplaced(c) \/ AwaitReady(c)
      <2>1. \/ pc[c] = "replace_pod" /\ pc'[c] \in {"await_replaced", "remove_get"}
            \/ pc[c] = "await_replaced" /\ pc'[c] = "create_pod"
            \/ pc[c] = "await_ready" /\ pc'[c] = "remove_get"
        BY <1>1, <1>2, <1>6, Zenon
        DEF ReplacePod, AwaitReplaced, AwaitReady, CreateFails, At
      <2> QED BY <2>1, Order, Zenon
    <1>7. CASE RemoveGet(c) \/ RemoveApiPod(c) \/ AwaitRemoved(c)
      <2>1. \/ pc[c] = "remove_get" /\ pc'[c] \in {"remove_secret", "remove_pod"}
            \/ pc[c] = "remove_pod"
               /\ pc'[c] \in {"await_removed", "remove_secret", "await_gone", "resolve"}
            \/ pc[c] = "await_removed" /\ pc'[c] \in {"remove_secret", "force_pod"}
        BY <1>1, <1>4, <1>7, Zenon DEF RemoveGet, RemoveApiPod, AwaitRemoved, At
      <2> QED BY <2>1, Order, Zenon
    <1>8. CASE ForcePod(c) \/ AwaitForced(c) \/ RemoveSecret(c) \/ AwaitGone(c)
      <2>1. \/ pc[c] = "force_pod" /\ pc'[c] = "await_forced"
            \/ pc[c] = "await_forced" /\ pc'[c] = "remove_secret"
            \/ pc[c] = "remove_secret" /\ pc'[c] \in {"await_gone", "resolve"}
        BY <1>1, <1>2, <1>4, <1>8, Zenon
        DEF ForcePod, AwaitForced, RemoveSecret, AwaitGone, At
      <2> QED BY <2>1, Order, Zenon
    <1>9. CASE DeleteStep(c)
      <2>1. \/ pc[c] = "resolve" /\ pc'[c] = "list"
            \/ pc[c] = "list" /\ pc'[c] = "delete_page"
            \/ pc[c] = "delete_page" /\ pc'[c] = "list"
        BY <1>1, <1>3, <1>9, Zenon DEF DeleteStep, Resolve, ListPage, DeletePage, At
      <2> QED BY <2>1, Order, Zenon
    <1> QED
      BY <1>5, <1>6, <1>7, <1>8, <1>9, Zenon DEF CallStep, CreatePod, RemovePod

\* A call that is not idle is at a label.
LEMMA AtLabel ==
    ASSUME TypeOK, NEW d \in Calls
    PROVE  /\ pc[d] # "idle" => pc[d] \in Labels
           /\ cursor[d] \in Int /\ waited[d] \in Nat
    <1>1. (pc[d] # "idle" => pc[d] \in Labels) /\ waited[d] \in Nat
      BY Zenon DEF TypeOK, PodTypeOK, Labels
    <1>2. cursor[d] \in Keys \/ cursor[d] = -1
      BY Zenon DEF TypeOK
    <1>3. CASE cursor[d] \in Keys
      <2>1. cursor[d] \in Nat
        BY <1>3, KeysAssumption, Zenon
      <2> QED BY <1>1, <2>1
    <1>4. CASE cursor[d] = -1
      BY <1>1, <1>4
    <1> QED BY <1>2, <1>3, <1>4, Zenon

\* A call that lists goes on behind what it has listed, and no other step of a
\* call moves its cursor unless it ends the call.
LEMMA CursorForward ==
    ASSUME TypeOK, NEW c \in Calls, CallStep(c), ~Returns(c)
    PROVE  /\ cursor[c] <= cursor'[c]
           /\ pc[c] = "list" => cursor[c] < cursor'[c]
    <1>0. cursor[c] \in Int
      BY AtLabel, Zenon
    <1>1. \A success : ~Answer(c, success)
      BY DoneReturns, Zenon DEF Answer
    <1>2. CASE ListPage(c)
      <2>1. PICK k \in FirstPage(Listed(c)) : cursor' = [cursor EXCEPT ![c] = k]
        BY <1>1, <1>2, Zenon DEF ListPage
      <2>2. cursor'[c] = k
        BY <2>1, Zenon DEF TypeOK
      <2>3. k \in Keys /\ k > cursor[c]
        BY <2>1, Zenon DEF FirstPage, Listed, TypeOK
      <2> QED BY <1>0, <2>2, <2>3, KeysAssumption
    <1>3. CASE ~ListPage(c)
      <2>1. cursor' = cursor
        BY <1>1, <1>3, Zenon
        DEF CallStep, DeleteStep, Resolve, DeletePage, deletion
      <2>2. pc[c] # "list"
        BY <1>3, Zenon
        DEF CallStep, CreatePod, RemovePod, DeleteStep, WriteSecret, GetPod,
            CreateApiPod, ReplacePod, AwaitReplaced, AwaitReady, RemoveGet,
            RemoveApiPod, AwaitRemoved, ForcePod, AwaitForced, RemoveSecret,
            AwaitGone, Resolve, DeletePage, At
      <2> QED BY <1>0, <2>1, <2>2
    <1> QED BY <1>2, <1>3, Zenon

\* A step leaves a call where it is.
Stays(d) ==
    /\ pc'[d] = pc[d] /\ op'[d] = op[d]
    /\ waited'[d] = waited[d] /\ cursor'[d] = cursor[d]

\* What a step does to a call d that is not its own: it leaves it alone, ends
\* or starts it, or lets it wait for another fifteen seconds.
LEMMA StepsOfOthers ==
    ASSUME CallInv, Next, NEW d \in Calls, ~CallStep(d)
    PROVE  \/ Stays(d) \/ Returns(d)
           \/ /\ pc[d] = "idle" /\ waited'[d] = waited[d]
              /\ pc'[d] \in Labels \ DOMAIN WaitLimit
           \/ Tick /\ pc'[d] = pc[d] /\ op'[d] = op[d] /\ cursor'[d] = cursor[d]
    <1>0. TypeOK
      BY Zenon DEF CallInv
    <1>1. CASE \E c \in Calls : CallStep(c)
      BY <1>0, <1>1, CallStepFacts, Zenon DEF CallFacts, Untouched, Stays
    <1>2. CASE \E c \in Calls, v \in Volumes : StartStep(c, v)
      <2>1. PICK c \in Calls, v \in Volumes : StartStep(c, v)
        BY <1>2, Zenon
      <2>2. PICK label \in {"write_secret", "remove_get"} :
                \E plugin, operation : StartCall(c, plugin, v, operation, label)
        BY <2>1, Zenon DEF StartStep, Publish, Unpublish, DeleteVolume
      <2>3. UNCHANGED deletion
        BY <2>1, Zenon DEF StartStep, DeleteVolume
      <2>4. label \in Labels \ DOMAIN WaitLimit
        BY Limits DEF Labels, CreateLabels, RemoveLabels
      <2>5. CASE d = c
        BY <1>0, <2>2, <2>4, <2>5, Zenon DEF StartCall, At, TypeOK, PodTypeOK
      <2>6. CASE d # c
        BY <1>0, <2>2, <2>3, <2>6, Zenon
        DEF StartCall, Stays, TypeOK, PodTypeOK, deletion
      <2> QED BY <2>5, <2>6, Zenon
    <1>3. CASE Tick /\ UNCHANGED <<deletion, store>>
      BY <1>3, Zenon DEF Tick, call, deletion
    <1>4. CASE \E p \in Plugins : RestartPlugin(p)
      BY <1>0, <1>4, RestartFacts, Zenon DEF Untouched, Stays
    <1>5. CASE \/ \E c \in Calls : GiveUp(c) /\ UNCHANGED <<deletion, store>>
               \/ \E v \in Volumes : MoveStep(v) \/ ServerStep(v) \/ Release(v)
               \/ \E p \in Plugins :
                     (Sync(p) \/ Shutdown(p)) /\ UNCHANGED <<deletion, store>>
               \/ \E k \in Keys : Store(k)
      <2>1. UNCHANGED <<pc, op, waited, cursor>>
        BY <1>5, Zenon DEF GiveUp, MoveStep, Attach, Detach, ServerStep, StartServer,
               StopServer, KillServer, Sync, Shutdown, Release, Store, podVars,
               calls, call, deletion
      <2> QED BY <2>1, Zenon DEF Stays
    <1> QED BY <1>1, <1>2, <1>3, <1>4, <1>5, NextSteps, Zenon

\* A tick is for waits that have time left.
LEMMA TickInTime ==
    ASSUME TypeOK, NEW d \in Calls, Tick, pc'[d] = pc[d]
    PROVE  IF d \in Waits
           THEN waited'[d] = waited[d] + 15 /\ waited[d] < WaitLimit[pc[d]]
           ELSE waited'[d] = 0
    <1>1. waited'[d] = IF d \in Waits THEN waited[d] + 15 ELSE 0
      BY Zenon DEF Tick
    <1>2. CASE d \in Waits
      <2>1. ~(waited[d] >= WaitLimit[pc[d]])
        BY <1>2, Zenon DEF Tick, Expired
      <2>2. waited[d] \in Nat /\ WaitLimit[pc[d]] \in Nat
        BY <1>2, Limits, Zenon DEF TypeOK, PodTypeOK, Waits
      <2> QED BY <1>1, <1>2, <2>1, <2>2
    <1> QED BY <1>1, <1>2, Zenon

\* Every step keeps the waits in time.
LEMMA InTimeStep ==
    ASSUME CallInv, InTime, [Next]_vars
    PROVE  InTime'
    <1>0. TypeOK
      BY Zenon DEF CallInv
    <1> SUFFICES ASSUME NEW d \in Calls
                 PROVE  IF pc'[d] \in DOMAIN WaitLimit
                        THEN waited'[d] < WaitLimit[pc'[d]] + 15
                        ELSE waited'[d] = 0
      BY Zenon DEF InTime, Waits
    <1>1. /\ IF pc[d] \in DOMAIN WaitLimit
             THEN waited[d] < WaitLimit[pc[d]] + 15 ELSE waited[d] = 0
          /\ waited[d] \in Nat
          /\ \A l \in DOMAIN WaitLimit : WaitLimit[l] \in Nat
          /\ "idle" \notin DOMAIN WaitLimit
      <2>1. "idle" \notin DOMAIN WaitLimit
        BY Limits
      <2> QED BY <1>0, <2>1, Limits, Zenon DEF InTime, Waits, TypeOK, PodTypeOK
    <1>2. CASE Next /\ CallStep(d)
      <2>1. waited'[d] = 0
        BY <1>0, <1>2, CallStepFacts, Zenon DEF CallFacts, Moves, Returns
      <2> QED BY <1>1, <2>1
    <1>3. CASE Next /\ ~CallStep(d)
      <2>1. CASE Stays(d)
        BY <1>1, <2>1, Zenon DEF Stays
      <2>2. CASE Returns(d)
        BY <1>1, <2>2, Zenon DEF Returns
      <2>3. CASE pc[d] = "idle" /\ waited'[d] = waited[d]
                 /\ pc'[d] \in Labels \ DOMAIN WaitLimit
        BY <1>1, <2>3, Zenon
      <2>4. CASE Tick /\ pc'[d] = pc[d]
        <3>1. IF pc[d] \in DOMAIN WaitLimit
              THEN waited'[d] = waited[d] + 15 /\ waited[d] < WaitLimit[pc[d]]
              ELSE waited'[d] = 0
          BY <1>0, <2>4, TickInTime, Zenon DEF Waits
        <3> QED BY <1>1, <2>4, <3>1
      <2> QED BY <1>3, <2>1, <2>2, <2>3, <2>4, StepsOfOthers, Zenon
    <1>4. CASE UNCHANGED vars
      BY <1>1, <1>4, Zenon DEF vars, podVars, calls
    <1> QED BY <1>2, <1>3, <1>4, Zenon

\* A call at a label has time left, and less of it at a later one.
LEMMA TimePasses ==
    ASSUME TypeOK, NEW d \in Calls, CallOK(d), pc[d] \in Labels,
           IF d \in Waits THEN waited[d] < WaitLimit[pc[d]] + 15
                          ELSE waited[d] = 0,
           NEW l \in Labels, Position[pc[d]] < Position[l],
           pc'[d] = l, op'[d] = op[d], waited'[d] = 0
    PROVE  TimeLeft(d)' \in 0..TimeLeft(d)
    <1>1. /\ TimeLeft(d) = WaitsAhead(pc[d], op[d]) - waited[d]
          /\ TimeLeft(d)' = WaitsAhead(l, op[d]) - 0
      BY ZenonT(60) DEF TimeLeft, WaitsAhead, TimeAhead
    <1>2. /\ waited[d] \in Nat
          /\ WaitsAhead(pc[d], op[d]) \in Nat /\ WaitsAhead(l, op[d]) \in Nat
      BY AheadNumber, Zenon DEF TypeOK, PodTypeOK
    <1>3. pc[d] = "await_gone" => op[d] = "unpublish"
      BY Zenon DEF CallOK, Active
    <1>4. CASE d \notin Waits
      <2>1. waited[d] = 0 /\ WaitsAhead(l, op[d]) <= WaitsAhead(pc[d], op[d])
        BY <1>3, <1>4, LessAhead, Zenon
      <2> QED BY <1>1, <1>2, <2>1
    <1>5. CASE d \in Waits
      <2>1. /\ WaitLimit[pc[d]] \in Nat /\ waited[d] < WaitLimit[pc[d]] + 15
            /\ WaitsAhead(l, op[d]) + (WaitLimit[pc[d]] + 15)
                  <= WaitsAhead(pc[d], op[d])
        BY <1>3, <1>5, Limits, LessAhead, Zenon DEF Waits
      <2> QED BY <1>1, <1>2, <2>1
    <1> QED BY <1>4, <1>5, Zenon

\* A call that stays at its label has time left, and not more than before.
LEMMA TimeStands ==
    ASSUME TypeOK, NEW d \in Calls, CallOK(d), pc[d] \in Labels,
           pc'[d] = pc[d], op'[d] = op[d],
           waited'[d] \in Nat, waited[d] <= waited'[d],
           IF d \in Waits THEN waited'[d] <= WaitLimit[pc[d]] + 15
                          ELSE waited'[d] = 0
    PROVE  TimeLeft(d)' \in 0..TimeLeft(d)
    <1>1. /\ TimeLeft(d) = WaitsAhead(pc[d], op[d]) - waited[d]
          /\ TimeLeft(d)' = WaitsAhead(pc[d], op[d]) - waited'[d]
      BY ZenonT(60) DEF TimeLeft, WaitsAhead, TimeAhead
    <1>2. waited[d] \in Nat /\ WaitsAhead(pc[d], op[d]) \in Nat
      BY AheadNumber, Zenon DEF TypeOK, PodTypeOK
    <1>3. pc[d] = "await_gone" => op[d] = "unpublish"
      BY Zenon DEF CallOK, Active
    <1>4. CASE d \notin Waits
      BY <1>1, <1>2, <1>4
    <1>5. CASE d \in Waits
      <2>1. /\ WaitLimit[pc[d]] \in Nat /\ waited'[d] <= WaitLimit[pc[d]] + 15
            /\ WaitLimit[pc[d]] + 15 <= WaitsAhead(pc[d], op[d])
        BY <1>3, <1>5, WaitAhead, Zenon DEF Waits
      <2> QED BY <1>1, <1>2, <2>1
    <1> QED BY <1>4, <1>5, Zenon

\* A call advances by its own steps.
LEMMA OwnAdvance ==
    ASSUME CallInv, InTime, NEW d \in Calls, CallStep(d),
           pc[d] # "idle", pc'[d] # "idle"
    PROVE  Advances(d)
    <1>1. /\ TypeOK /\ CallOK(d)
          /\ IF d \in Waits THEN waited[d] < WaitLimit[pc[d]] + 15 ELSE waited[d] = 0
      BY Zenon DEF CallInv, InTime
    <1>2. PICK l \in Labels : Moves(d, l)
      BY <1>1, CallStepFacts, Zenon DEF CallFacts, Returns
    <1>3. ~Returns(d) /\ pc'[d] = l /\ op'[d] = op[d] /\ waited'[d] = 0
      BY <1>2, Zenon DEF Moves, Returns
    <1>4. cursor[d] <= cursor'[d] /\ (pc[d] = "list" => cursor[d] < cursor'[d])
      BY <1>1, <1>3, CursorForward, Zenon
    <1>5. pc[d] \in Labels /\ Position[pc[d]] \in Nat /\ Position[l] \in Nat
      BY <1>1, AtLabel, Limits
    <1>6. CASE Position[pc[d]] < Position[l]
      <2>1. TimeLeft(d)' \in 0..TimeLeft(d)
        BY <1>1, <1>3, <1>5, <1>6, TimePasses, Zenon
      <2>2. Position[pc[d]] <= Position[pc'[d]]
        BY <1>3, <1>5, <1>6
      <2> QED BY <1>4, <2>1, <2>2, Zenon DEF Advances, At
    <1>7. CASE pc[d] = "delete_page" /\ pc'[d] = "list"
      <2>1. WaitsAhead(pc[d], op[d]) = 0 /\ WaitsAhead(pc'[d], op'[d]) = 0
        BY <1>7, NoneAhead, Zenon
      <2>2. waited[d] = 0
        BY <1>1, <1>7, Limits DEF Waits
      <2>3. TimeLeft(d) = 0 - 0
        BY <2>1, <2>2, Zenon DEF TimeLeft
      <2>4. TimeLeft(d)' = WaitsAhead(pc'[d], op'[d]) - waited'[d]
        BY ZenonT(60) DEF TimeLeft, WaitsAhead, TimeAhead
      <2>5. TimeLeft(d)' \in 0..TimeLeft(d)
        BY <1>3, <2>1, <2>3, <2>4
      <2> QED BY <1>4, <1>7, <2>5, Zenon DEF Advances, At
    <1> QED BY <1>1, <1>3, <1>6, <1>7, CallForward, Zenon

\* A call advances, or stays, while others step.
LEMMA OthersAdvance ==
    ASSUME CallInv, InTime, Next, NEW d \in Calls, ~CallStep(d),
           pc[d] # "idle", pc'[d] # "idle"
    PROVE  Advances(d)
    <1>1. /\ TypeOK /\ CallOK(d)
          /\ IF d \in Waits THEN waited[d] < WaitLimit[pc[d]] + 15 ELSE waited[d] = 0
      BY Zenon DEF CallInv, InTime
    <1>2. /\ pc[d] \in Labels /\ cursor[d] \in Int /\ waited[d] \in Nat
          /\ Position[pc[d]] \in Nat
      BY <1>1, AtLabel, Limits
    <1>3. \A w \in DOMAIN WaitLimit : WaitLimit[w] \in Nat
      BY Limits, Zenon
    <1>4. Stays(d) \/ (Tick /\ pc'[d] = pc[d] /\ op'[d] = op[d] /\ cursor'[d] = cursor[d])
      BY StepsOfOthers, Zenon DEF Returns
    <1>5. pc'[d] = pc[d] /\ op'[d] = op[d] /\ cursor'[d] = cursor[d]
      BY <1>4, Zenon DEF Stays
    <1>6. /\ waited'[d] \in Nat /\ waited[d] <= waited'[d]
          /\ IF d \in Waits THEN waited'[d] <= WaitLimit[pc[d]] + 15
                            ELSE waited'[d] = 0
      <2>1. d \in Waits => pc[d] \in DOMAIN WaitLimit
        BY Zenon DEF Waits
      <2>2. CASE Stays(d)
        <3>1. waited'[d] = waited[d]
          BY <2>2, Zenon DEF Stays
        <3> QED BY <1>1, <1>2, <1>3, <2>1, <3>1
      <2>3. CASE Tick
        <3>1. IF d \in Waits
              THEN waited'[d] = waited[d] + 15 /\ waited[d] < WaitLimit[pc[d]]
              ELSE waited'[d] = 0
          BY <1>1, <1>5, <2>3, TickInTime, Zenon
        <3> QED BY <1>1, <1>2, <1>3, <2>1, <3>1
      <2> QED BY <1>4, <2>2, <2>3, Zenon
    <1>7. TimeLeft(d)' \in 0..TimeLeft(d)
      BY <1>1, <1>2, <1>5, <1>6, TimeStands, Zenon
    <1>8. Position[pc[d]] <= Position[pc'[d]] /\ cursor[d] <= cursor'[d]
      BY <1>2, <1>5
    <1> QED BY <1>5, <1>7, <1>8, Zenon DEF Advances, At

\* In every environment, a call that runs goes forward and spends its time: it
\* does not go back except to list behind the page it has deleted, and has
\* waited, at its end, no longer than the waits ahead of it at its start allow.
THEOREM CallsGoForward == Spec => CallsAdvance
    <1>1. Init => InTime
      <2>1. "idle" \notin DOMAIN WaitLimit
        BY Limits
      <2> QED BY <2>1, ZenonT(60) DEF Init, PodInit, InTime, Waits
    <1>2. CallInv /\ InTime /\ [Next]_vars => InTime'
      BY InTimeStep, Zenon
    <1>3. CallInv /\ InTime /\ [Next]_vars =>
              [\A c \in Calls : pc[c] # "idle" /\ pc'[c] # "idle" => Advances(c)]_vars
      BY OwnAdvance, OthersAdvance, Zenon
    <1> QED BY <1>1, <1>2, <1>3, CallInvariant, PTL DEF Spec, CallsAdvance

=============================================================================
