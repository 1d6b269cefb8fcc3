------------------------- MODULE VolumeServedProofs -------------------------
(***************************************************************************)
(* The proof that a published volume is served by its pod on its node.     *)
(***************************************************************************)
EXTENDS VolumeSerialProofs

\* What a call has seen when it goes on, and when the kubelet takes its volume
\* for published.
LEMMA CreateSteps ==
    ASSUME TypeOK, NEW c \in Calls, CallOK(c), CallStep(c)
    PROVE  /\ pc'[c] = "await_ready" =>
                 \/ Creates(c)
                 \/ /\ pc[c] = "get_pod" /\ pods' = pods
                    /\ Cached(c) # None /\ Cached(c).node = at[c]
           /\ pc'[c] = "create_pod" =>
                 /\ pods' = pods
                 /\ \/ pc[c] = "get_pod" /\ (Cached(c) = None \/ Fails("read"))
                    \/ pc[c] = "await_replaced"
           /\ pc'[c] = "await_replaced" => Deletes(c)
           /\ pc[c] \in {"await_replaced", "await_removed"} =>
                 PodGone(c) \/ NotSeenGone(c)
           /\ kub' # kub /\ kub'[vol[c]] = "published" =>
                 pc[c] = "await_ready" /\ PodReady(c) /\ UNCHANGED <<pods, secrets>>
    <1> USE DEF At
    <1>1. \A label : Goto(c, label) => pc'[c] = label /\ kub' = kub
      BY GotoMoves, Zenon
    <1>2. /\ \A status : Reply(c, status) => pc'[c] = "idle"
          /\ \A success : Answer(c, success) => pc'[c] = "idle" /\ kub' = kub
      BY DoneReturns, Zenon DEF Reply, Answer, Returns
    <1>3. \A status \in {"uncertain", "none"} :
              Reply(c, status) => kub' = kub \/ kub'[vol[c]] # "published"
      BY DEF Reply, TypeOK, PodTypeOK
    <1>4. PodRemoved(c) => /\ pc'[c] \in {"idle", "await_gone", "resolve"}
                           /\ kub' = kub \/ kub'[vol[c]] # "published"
      BY <1>1, <1>2, <1>3, Zenon DEF PodRemoved
    <1>5. CASE WriteSecret(c)
      BY <1>1, <1>5 DEF WriteSecret, CreateFails
    <1>6. CASE GetPod(c)
      BY <1>1, <1>6 DEF GetPod, api
    <1>7. CASE CreateApiPod(c)
      BY <1>1, <1>7 DEF CreateApiPod, CreateFails, Creates
    <1>8. CASE ReplacePod(c)
      BY <1>1, <1>8 DEF ReplacePod, CreateFails, Deletes
    <1>9. CASE AwaitReplaced(c)
      BY <1>1, <1>9 DEF AwaitReplaced, api
    <1>10. CASE AwaitReady(c)
      BY <1>1, <1>2, <1>10 DEF AwaitReady, CreateFails, api
    <1>11. CASE RemoveApiPod(c) \/ RemoveSecret(c)
      BY <1>1, <1>4, <1>11 DEF RemoveApiPod, RemoveSecret
    <1>12. CASE AwaitRemoved(c)
      BY <1>1, <1>12 DEF AwaitRemoved
    <1>13. CASE RemoveGet(c) \/ ForcePod(c) \/ AwaitForced(c)
      BY <1>1, <1>13 DEF RemoveGet, ForcePod, AwaitForced
    <1>14. CASE AwaitGone(c)
      BY <1>2, <1>3, <1>14, Zenon DEF AwaitGone
    <1>15. CASE DeleteStep(c)
      <2>1. /\ pc[c] \in {"resolve", "list", "delete_page"}
            /\ pc'[c] \in {"idle", "list", "delete_page"}
        BY <1>1, <1>2, <1>15, Zenon DEF DeleteStep, Resolve, ListPage, DeletePage
      <2>2. kub' = kub
        BY <2>1, DeleteKeepsKub, Zenon DEF CallOK, Active, DeleteLabels
      <2> QED BY <2>1, <2>2, Zenon
    <1> QED
      BY <1>5, <1>6, <1>7, <1>8, <1>9, <1>10, <1>11, <1>12, <1>13, <1>14, <1>15, Zenon
      DEF CallStep, CreatePod, RemovePod

\* A call has written the Secret before it looks for the pod, and removes none
\* but its own, after which it does not look for the pod.
LEMMA SecretSteps ==
    ASSUME TypeOK, NEW c \in Calls, CallOK(c), CallStep(c)
    PROVE  /\ \A v \in secrets \ secrets' :
                 v = vol[c] /\ pc'[c] \notin CreateLabels
           /\ pc'[c] \in CreateLabels \ {"write_secret"} =>
                 \/ pc[c] \in CreateLabels \ {"write_secret"}
                 \/ vol[c] \in secrets'
    <1> USE DEF At, CreateLabels
    <1>1. /\ \A label : Goto(c, label) => pc'[c] = label
          /\ \A status : Reply(c, status) => pc'[c] = "idle"
          /\ \A success : Answer(c, success) => pc'[c] = "idle"
      BY GotoMoves, DoneReturns, Zenon DEF Reply, Answer, Returns
    <1>2. PodRemoved(c) => pc'[c] \in {"idle", "await_gone", "resolve"}
      BY <1>1, Zenon DEF PodRemoved
    <1>3. CASE WriteSecret(c)
      BY <1>1, <1>3, Zenon DEF WriteSecret, CreateFails
    <1>4. CASE \/ GetPod(c) \/ CreateApiPod(c) \/ ReplacePod(c) \/ AwaitReplaced(c)
               \/ AwaitReady(c)
      BY <1>4, Zenon DEF GetPod, CreateApiPod, ReplacePod, AwaitReplaced, AwaitReady, api
    <1>5. CASE RemoveSecret(c)
      BY <1>2, <1>5, Zenon DEF RemoveSecret
    <1>6. CASE \/ RemoveGet(c) \/ RemoveApiPod(c) \/ AwaitRemoved(c) \/ ForcePod(c)
               \/ AwaitForced(c) \/ AwaitGone(c)
      BY <1>1, <1>2, <1>6, Zenon
      DEF RemoveGet, RemoveApiPod, AwaitRemoved, ForcePod, AwaitForced, AwaitGone, api
    <1>7. CASE DeleteStep(c)
      BY <1>1, <1>7, Zenon DEF DeleteStep, Resolve, ListPage, DeletePage, api
    <1> QED
      BY <1>3, <1>4, <1>5, <1>6, <1>7, Zenon DEF CallStep, CreatePod, RemovePod

\* What a step of a call does in the serial environment.
LEMMA SerialStep ==
    ASSUME PodsInv, NEW c \in Calls, CallStep(c)
    PROVE  /\ TypeOK /\ CallOK(c) /\ vol[c] \in Volumes
           /\ (\E label \in Labels : Moves(c, label)) \/ Returns(c)
           /\ UNCHANGED <<pods, dying>> \/ Creates(c) \/ Deletes(c)
           /\ UNCHANGED <<cache, running, attached, breaks, released>>
           /\ \A v \in Volumes \ {vol[c]} :
                 /\ pods'[v] = pods[v] /\ dying'[v] = dying[v]
                 /\ kub'[v] = kub[v]
           /\ \A d \in Calls \ {c} : Untouched(d)
           /\ \A d \in Calls \ {c} : Active(d) =>
                 vol[d] \in Volumes /\ vol[d] # vol[c]
           /\ kub[vol[c]] # "published"
           /\ op[c] # "delete" => attached[vol[c]] = at[c] /\ at[c] # None
           /\ op[c] = "delete" => attached[vol[c]] = None /\ vol[c] \in released
           /\ Creates(c) => op[c] = "publish" /\ pods'[vol[c]] # None
                            /\ pods'[vol[c]].node = at[c] /\ ~pods'[vol[c]].ready
                            /\ ~pods'[vol[c]].terminating
           /\ Deletes(c) => pods[vol[c]] # None /\ pods'[vol[c]] # None
                            /\ pods'[vol[c]].node = pods[vol[c]].node
                            /\ pods'[vol[c]].ready = pods[vol[c]].ready
                            /\ pods'[vol[c]].terminating
    <1>1. /\ CallInv /\ OneCallAtATime /\ NothingForced
          /\ TypeOK /\ CallOK(c) /\ PageOK(c)
      BY Zenon DEF PodsInv, CallInv
    <1>2. /\ CallFacts(c) /\ Active(c) /\ vol[c] \in Volumes
          /\ UNCHANGED <<pods, dying>> \/ Creates(c) \/ Deletes(c)
          /\ \A v \in Volumes \ {vol[c]} :
                pods'[v] = pods[v] /\ dying'[v] = dying[v]
          /\ \A d \in Calls \ {c} : Active(d) =>
                vol[d] \in Volumes /\ vol[d] # vol[c]
      BY <1>1, SerialCalls, Zenon
    <1>3. op[c] # "delete" => attached[vol[c]] = at[c] /\ at[c] # None
                              /\ kub[vol[c]] = "uncertain"
      BY <1>1, <1>2, NoneAssumption, Zenon DEF OneCallAtATime, CallOK, Plugins
    <1>4. op[c] = "delete" => attached[vol[c]] = None /\ vol[c] \in released
                              /\ kub[vol[c]] = "none"
      BY <1>1, <1>2, Zenon DEF OneCallAtATime, PageOK
    <1>5. Creates(c) => op[c] = "publish" /\ pods'[vol[c]] # None
                        /\ pods'[vol[c]].node = at[c] /\ ~pods'[vol[c]].ready
                        /\ ~pods'[vol[c]].terminating
      <2> SUFFICES ASSUME Creates(c)
                   PROVE  op[c] = "publish" /\ pods'[vol[c]] # None
                          /\ pods'[vol[c]].node = at[c] /\ ~pods'[vol[c]].ready
                          /\ ~pods'[vol[c]].terminating
        OBVIOUS
      <2>1. op[c] = "publish" /\ at[c] \in Nodes
        BY <1>1, <1>2, Zenon DEF Creates, CallOK, CreateLabels
      <2>2. pods'[vol[c]] = [node |-> at[c], ready |-> FALSE, terminating |-> FALSE]
        BY <1>1, <1>2, ZenonT(60) DEF Creates, TypeOK, PodTypeOK
      <2>3. pods'[vol[c]] \in PodObjects
        BY <2>1, <2>2 DEF PodObjects
      <2>4. pods'[vol[c]] # None
        BY <2>3, NoneAssumption, Zenon
      <2>5. /\ pods'[vol[c]].node = at[c] /\ pods'[vol[c]].ready = FALSE
            /\ pods'[vol[c]].terminating = FALSE
        BY <2>2
      <2> QED BY <2>1, <2>4, <2>5, Zenon
    <1>6. Deletes(c) => pods[vol[c]] # None /\ pods'[vol[c]] # None
                        /\ pods'[vol[c]].node = pods[vol[c]].node
                        /\ pods'[vol[c]].ready = pods[vol[c]].ready
                        /\ pods'[vol[c]].terminating
      BY <1>1, <1>2, TerminatePod, Zenon DEF Deletes
    <1>7. /\ (\E label \in Labels : Moves(c, label)) \/ Returns(c)
          /\ \A d \in Calls \ {c} : Untouched(d)
          /\ UNCHANGED <<cache, running, attached, breaks, released>>
          /\ \A v \in Volumes \ {vol[c]} : kub'[v] = kub[v]
      BY <1>2, Zenon DEF CallFacts, Around
    <1> QED BY <1>1, <1>2, <1>3, <1>4, <1>5, <1>6, <1>7, Zenon

-----------------------------------------------------------------------------
(* The other steps.                                                        *)

\* A step that leaves the pods alone and takes no call into CreatePod or
\* RemovePod: a volume that is attached is new to its node, which knows the
\* volume's pod, and the calls that a crash ends do not go on.
Quiet ==
    /\ UNCHANGED <<pods, secrets, running>>
    /\ released \subseteq released'
    /\ \A d \in Calls :
          \/ pc'[d] \in {"idle", "write_secret", "remove_get"}
          \/ pc'[d] = pc[d] /\ at'[d] = at[d] /\ vol'[d] = vol[d]
    /\ \A v \in Volumes : kub'[v] = "published" =>
          kub[v] = "published" /\ attached'[v] = attached[v]
    /\ \A v \in Volumes :
          \/ attached'[v] \in {None, attached[v]}
          \/ /\ attached[v] = None /\ v \notin released
             /\ attached'[v] \in Nodes /\ cache'[attached'[v]][v] = pods[v]
    /\ \A p \in Plugins, v \in Volumes : cache'[p][v] \in {cache[p][v], pods[v]}
    /\ breaks' = 0 => /\ breaks = 0
                      /\ \A d \in Calls : pc[d] # "idle" =>
                            /\ pc'[d] = pc[d] /\ at'[d] = at[d]
                            /\ vol'[d] = vol[d]
    /\ \/ Tick
       \/ /\ dying' = dying
          /\ \A d \in Calls : pc'[d] # "idle" => waited'[d] = waited[d]

\* A step that leaves the calls, the caches and where the volumes are alone is
\* quiet.
LEMMA StillQuiet ==
    ASSUME UNCHANGED <<pods, secrets, running, dying, pc, at, vol, waited, kub,
                       attached, cache>>,
           released \subseteq released', breaks' = 0 => breaks = 0
    PROVE  Quiet
    BY Zenon DEF Quiet

\* The steps that are quiet.
LEMMA QuietSteps ==
    ASSUME PodsInv, [Next]_vars,
           ~\E c \in Calls : CallStep(c), ~\E v \in Volumes : ServerStep(v)
    PROVE  Quiet
    <1>1. TypeOK /\ stopping = {} /\ breaks \in Nat
          /\ \A v \in Volumes : attached[v] = None => kub[v] = "none"
      BY BoundsAssumption DEF PodsInv, CallInv, OneCallAtATime, TypeOK, PodTypeOK
    <1>2. CASE \/ \E c \in Calls : GiveUp(c) /\ UNCHANGED <<deletion, store>>
               \/ \E p \in Plugins : Shutdown(p) /\ UNCHANGED <<deletion, store>>
      <2>1. /\ UNCHANGED <<pods, secrets, running, dying, pc, at, vol, waited, kub,
                            attached, cache, released>>
            /\ breaks' = breaks + 1
        BY <1>2, Zenon DEF GiveUp, Shutdown, Breaks, calls, call, api, orchestrator,
                           store
      <2> QED BY <1>1, <2>1, StillQuiet
    <1>3. CASE \/ \E v \in Volumes : Release(v)
               \/ \E k \in Keys : Store(k)
               \/ UNCHANGED vars
      <2>1. /\ UNCHANGED <<pods, secrets, running, dying, pc, at, vol, waited, kub,
                            attached, cache, breaks>>
            /\ released \subseteq released'
        BY <1>3, Zenon DEF Release, Store, vars, podVars, calls, call, api,
                           orchestrator, lifetime, store
      <2> QED BY <2>1, StillQuiet, Zenon
    <1>4. CASE \E c \in Calls, v \in Volumes : StartStep(c, v)
      <2>1. PICK c \in Calls, v \in Volumes : StartStep(c, v)
        BY <1>4, Zenon
      <2>2. PICK label \in {"write_secret", "remove_get"} :
                \E plugin, operation : StartCall(c, plugin, v, operation, label)
        BY <2>1, Zenon DEF StartStep, Publish, Unpublish, DeleteVolume
      <2>3. /\ UNCHANGED <<pods, secrets, running, dying, waited, attached, cache,
                            breaks>>
            /\ pc[c] = "idle" /\ pc'[c] = label
            /\ \A d \in Calls \ {c} :
                  pc'[d] = pc[d] /\ at'[d] = at[d] /\ vol'[d] = vol[d]
        <3>1. PICK plugin, operation : StartCall(c, plugin, v, operation, label)
          BY <2>2, Zenon
        <3>2. /\ UNCHANGED <<pods, secrets, running, dying, waited, attached, cache,
                              breaks>>
              /\ pc[c] = "idle"
              /\ pc' = [pc EXCEPT ![c] = label] /\ vol' = [vol EXCEPT ![c] = v]
              /\ at' = [at EXCEPT ![c] = plugin]
          BY <3>1, Zenon DEF StartCall, api, At, lifetime
        <3> QED BY <1>1, <3>2, Zenon DEF TypeOK, PodTypeOK
      <2>4. /\ \A w \in Volumes : kub'[w] = "published" => kub[w] = "published"
            /\ released' = released
        BY <1>1, <2>1, Zenon DEF StartStep, Publish, Unpublish, DeleteVolume, TypeOK,
                                 PodTypeOK, store
      <2> QED BY <2>2, <2>3, <2>4, Zenon DEF Quiet
    <1>5. CASE \E v \in Volumes : MoveStep(v)
      <2>1. PICK v \in Volumes : MoveStep(v)
        BY <1>5, Zenon
      <2>2. UNCHANGED <<pods, secrets, running, dying, pc, at, vol, waited, kub, cache,
                        breaks, released>>
        BY <2>1, Zenon DEF MoveStep, Attach, Detach, calls, call, api, lifetime, store
      <2>3. /\ kub[v] = "none"
            /\ \/ attached'[v] = None
               \/ /\ attached[v] = None /\ v \notin released
                  /\ attached'[v] \in Nodes /\ cache[attached'[v]][v] = pods[v]
            /\ \A w \in Volumes \ {v} : attached'[w] = attached[w]
        BY <1>1, <2>1, Zenon DEF MoveStep, Attach, Detach, TypeOK, PodTypeOK
      <2> QED BY <2>2, <2>3, Zenon DEF Quiet
    <1>6. CASE \E p \in Plugins : Sync(p) /\ UNCHANGED <<deletion, store>>
      <2>1. PICK p \in Plugins : Sync(p) /\ UNCHANGED <<deletion, store>>
        BY <1>6, Zenon
      <2>2. UNCHANGED <<pods, secrets, running, dying, pc, at, vol, waited, kub,
                        attached, breaks, released>>
        BY <2>1, Zenon DEF Sync, calls, call, api, orchestrator, lifetime, store
      <2>3. \A q \in Plugins : cache'[q] = IF q = p THEN pods ELSE cache[q]
        BY <1>1, <2>1, Zenon DEF Sync, TypeOK, PodTypeOK
      <2> QED BY <2>2, <2>3, Zenon DEF Quiet
    <1>7. CASE Tick /\ UNCHANGED <<deletion, store>>
      <2>1. /\ UNCHANGED <<pods, secrets, running, pc, at, vol, kub, attached, breaks,
                            released>>
            /\ \A q \in Plugins : cache'[q] = pods
        BY <1>7, Zenon DEF Tick, call, orchestrator, lifetime, store
      <2> QED BY <1>7, <2>1, Zenon DEF Quiet
    <1>8. CASE \E p \in Plugins : RestartPlugin(p)
      <2>1. PICK p \in Plugins : RestartPlugin(p)
        BY <1>8, Zenon
      <2>2. /\ UNCHANGED <<pods, secrets, running, dying, kub, attached>>
            /\ cache' = [cache EXCEPT ![p] = pods]
            /\ \A d \in Calls : IF at[d] = p THEN Returns(d) ELSE Untouched(d)
        BY <1>1, <2>1, RestartFacts, Zenon
      <2>3. released' = released /\ breaks' = breaks + 1
        BY <1>1, <2>1, Zenon DEF RestartPlugin, Restart, Breaks, store
      <2>4. breaks' # 0
        BY <1>1, <2>3
      <2>5. \A q \in Plugins : cache'[q] = IF q = p THEN pods ELSE cache[q]
        BY <1>1, <2>2, Zenon DEF TypeOK, PodTypeOK
      <2> QED BY <2>2, <2>3, <2>4, <2>5, Zenon DEF Quiet, Returns, Untouched
    <1> QED
      <2>1. CASE Next
        BY <1>2, <1>3, <1>4, <1>5, <1>6, <1>7, <1>8, <2>1, NextSteps, Zenon
      <2> QED BY <1>3, <2>1, Zenon

-----------------------------------------------------------------------------
(* The pod is where the volume is.                                         *)

\* A step of a call keeps PodsPlaced.
LEMMA CallStepPlaced ==
    ASSUME PodsInv, PodsPlaced, NEW c \in Calls, CallStep(c)
    PROVE  PodsPlaced'
    <1>1. /\ TypeOK /\ CallOK(c) /\ vol[c] \in Volumes
          /\ (\E label \in Labels : Moves(c, label)) \/ Returns(c)
          /\ UNCHANGED <<pods, dying>> \/ Creates(c) \/ Deletes(c)
          /\ UNCHANGED <<cache, attached>>
          /\ \A v \in Volumes \ {vol[c]} : pods'[v] = pods[v] /\ kub'[v] = kub[v]
          /\ \A d \in Calls \ {c} : Untouched(d)
          /\ \A d \in Calls \ {c} : Active(d) =>
                vol[d] \in Volumes /\ vol[d] # vol[c]
          /\ kub[vol[c]] # "published"
          /\ op[c] # "delete" => attached[vol[c]] = at[c] /\ at[c] # None
          /\ Creates(c) => op[c] = "publish" /\ pods'[vol[c]].node = at[c]
          /\ Deletes(c) => /\ pods[vol[c]] # None
                           /\ pods'[vol[c]].node = pods[vol[c]].node
      BY SerialStep, ZenonT(60)
    <1>2. ASSUME NEW v \in Volumes, attached'[v] # None, pods'[v] # None,
                 cache'[attached'[v]][v] # None
          PROVE  pods'[v].node \in {attached'[v], cache'[attached'[v]][v].node}
      BY <1>1, <1>2, Zenon DEF PodsPlaced
    <1>3. ASSUME NEW d \in Calls, pc'[d] = "await_ready", pods'[vol'[d]] # None
          PROVE  pods'[vol'[d]].node = at'[d]
      <2>1. CASE d # c
        <3>1. /\ pc[d] = "await_ready" /\ at'[d] = at[d] /\ vol'[d] = vol[d]
              /\ pods'[vol[d]] = pods[vol[d]]
          BY <1>1, <1>3, <2>1, Zenon DEF Untouched, Active
        <3> QED BY <1>3, <3>1, Zenon DEF PodsPlaced
      <2>2. CASE d = c
        <3>1. at'[c] = at[c] /\ vol'[c] = vol[c]
          BY <1>1, <1>3, <2>2, Zenon DEF Moves, Returns
        <3>2. \/ Creates(c)
              \/ /\ pc[c] = "get_pod" /\ pods' = pods
                 /\ Cached(c) # None /\ Cached(c).node = at[c]
          BY <1>1, <1>3, <2>2, CreateSteps, Zenon
        <3>3. CASE pc[c] = "get_pod" /\ pods' = pods
                   /\ Cached(c) # None /\ Cached(c).node = at[c]
          <4>1. attached[vol[c]] = at[c] /\ at[c] # None
            BY <1>1, <3>3, Zenon DEF CallOK, Active, CreateLabels
          <4> QED BY <1>1, <1>3, <2>2, <3>1, <3>3, <4>1, Zenon DEF PodsPlaced, Cached
        <3> QED BY <1>1, <2>2, <3>1, <3>2, <3>3, Zenon
      <2> QED BY <2>1, <2>2, Zenon
    <1>4. ASSUME NEW v \in Volumes, kub'[v] = "published", pods'[v] # None
          PROVE  pods'[v].node = attached'[v]
      <2>1. CASE v # vol[c]
        BY <1>1, <1>4, <2>1, Zenon DEF PodsPlaced, PodFollowsVolume
      <2>2. CASE v = vol[c]
        <3>1. pc[c] = "await_ready" /\ pods' = pods
          BY <1>1, <1>4, <2>2, CreateSteps, Zenon
        <3>2. op[c] # "delete"
          BY <1>1, <3>1, Zenon DEF CallOK, Active, CreateLabels
        <3> QED BY <1>1, <1>4, <2>2, <3>1, <3>2, Zenon DEF PodsPlaced
      <2> QED BY <2>1, <2>2, Zenon
    <1> QED BY <1>2, <1>3, <1>4, Zenon DEF PodsPlaced, PodFollowsVolume

\* Every step keeps PodsPlaced.
LEMMA PlacedStep ==
    ASSUME PodsInv, PodsPlaced, [Next]_vars
    PROVE  PodsPlaced'
    <1>1. TypeOK /\ \A c \in Calls : Active(c) => vol[c] \in Volumes
      BY Zenon DEF PodsInv, CallInv, CallOK
    <1>2. CASE Quiet
      <2>1. ASSUME NEW v \in Volumes, attached'[v] # None, pods'[v] # None,
                   cache'[attached'[v]][v] # None
            PROVE  pods'[v].node \in {attached'[v], cache'[attached'[v]][v].node}
        <3>1. CASE attached'[v] = attached[v]
          <4>1. attached[v] \in Plugins
            BY <1>1, <2>1, <3>1, Zenon DEF TypeOK, PodTypeOK, Plugins
          <4>2. cache'[attached[v]][v] \in {cache[attached[v]][v], pods[v]}
            BY <1>2, <4>1, Zenon DEF Quiet
          <4> QED BY <1>2, <2>1, <3>1, <4>2, Zenon DEF Quiet, PodsPlaced
        <3>2. CASE attached'[v] # attached[v]
          BY <1>2, <2>1, <3>2, Zenon DEF Quiet
        <3> QED BY <3>1, <3>2, Zenon
      <2>2. \A d \in Calls : pc'[d] = "await_ready" /\ pods'[vol'[d]] # None =>
                pods'[vol'[d]].node = at'[d]
        <3>1. \A d \in Calls : pc'[d] = "await_ready" =>
                  pc[d] = "await_ready" /\ at'[d] = at[d] /\ vol'[d] = vol[d]
          BY <1>2, Zenon DEF Quiet
        <3>2. pods' = pods
          BY <1>2, Zenon DEF Quiet
        <3> QED BY <3>1, <3>2, Zenon DEF PodsPlaced
      <2>3. PodFollowsVolume'
        BY <1>2, Zenon DEF Quiet, PodsPlaced, PodFollowsVolume
      <2> QED BY <2>1, <2>2, <2>3, Zenon DEF PodsPlaced
    <1>3. CASE \E v \in Volumes : ServerStep(v)
      <2>1. PICK v \in Volumes : ServerStep(v)
        BY <1>3, Zenon
      <2>2. UNCHANGED <<cache, attached, kub, pc, vol, at>>
        BY <2>1, Zenon DEF ServerStep, StartServer, StopServer, KillServer, calls,
                           call, orchestrator
      <2>3. \A w \in Volumes : pods'[w] # None =>
                pods[w] # None /\ pods'[w].node = pods[w].node
        <3>1. CASE StartServer(v)
          BY <1>1, <3>1, ReadyPod, Zenon
        <3>2. CASE ~StartServer(v)
          BY <1>1, <2>1, <3>2, Zenon DEF ServerStep, StopServer, KillServer,
                                         RemoveObject, TypeOK, PodTypeOK, api
        <3> QED BY <3>1, <3>2, Zenon
      <2>4. \A d \in Calls : pc[d] = "await_ready" => vol[d] \in Volumes
        BY <1>1, Zenon DEF Active
      <2> QED BY <2>2, <2>3, <2>4, Zenon DEF PodsPlaced, PodFollowsVolume
    <1> QED BY <1>2, <1>3, CallStepPlaced, QuietSteps, Zenon

\* Where a volume is published, its pod is there.
THEOREM PodsFollow ==
    ASSUME SerialEnvironment
    PROVE  Spec => []PodFollowsVolume
    <1>1. Init => PodsPlaced
      BY Zenon DEF Init, PodInit, PodsPlaced, PodFollowsVolume
    <1>2. PodsPlaced => PodFollowsVolume
      BY Zenon DEF PodsPlaced
    <1> QED BY <1>1, <1>2, PlacedStep, PodsInvariant, PTL DEF Spec

-----------------------------------------------------------------------------
(* The pod has its server and its Secret.                                  *)

\* Every step keeps PodsBacked.
LEMMA BackedStep ==
    ASSUME PodsInv, PodsBacked, [Next]_vars
    PROVE  PodsBacked'
    <1>1. TypeOK /\ \A c \in Calls : Active(c) => vol[c] \in Volumes
      BY Zenon DEF PodsInv, CallInv, CallOK
    <1>2. CASE Quiet
      BY <1>2, Zenon DEF Quiet, PodsBacked, CreateLabels
    <1>3. CASE \E v \in Volumes : ServerStep(v)
      <2>1. PICK v \in Volumes : ServerStep(v)
        BY <1>3, Zenon
      <2>2. UNCHANGED <<secrets, kub, pc, vol>>
        BY <2>1, Zenon DEF ServerStep, StartServer, StopServer, KillServer, calls,
                           call, api, orchestrator
      <2>3. ASSUME NEW w \in Volumes, pods'[w] # None, pods'[w].ready
            PROVE  <<w, pods'[w].node>> \in running'
        <3>1. CASE StartServer(v)
          <4>1. /\ pods'[v].node = pods[v].node
                /\ running' = running \cup {<<v, pods[v].node>>}
                /\ \A u \in Volumes \ {v} : pods'[u] = pods[u]
            BY <1>1, <3>1, ReadyPod, Zenon
          <4> QED BY <2>3, <4>1, Zenon DEF PodsBacked
        <3>2. CASE StopServer(v)
          <4>1. /\ pods'[v] = None /\ running' = running \ {<<v, pods[v].node>>}
                /\ \A u \in Volumes \ {v} : pods'[u] = pods[u]
            BY <1>1, <3>2, Zenon DEF StopServer, RemoveObject, TypeOK, PodTypeOK
          <4> QED BY <2>3, <4>1, Zenon DEF PodsBacked
        <3>3. CASE \E n \in Nodes : KillServer(v, n)
          BY <2>3, <3>3, Zenon DEF KillServer, PodsBacked, api
        <3> QED BY <2>1, <3>1, <3>2, <3>3, Zenon DEF ServerStep
      <2> QED BY <2>2, <2>3, Zenon DEF PodsBacked
    <1>4. ASSUME NEW c \in Calls, CallStep(c) PROVE PodsBacked'
      <2>1. /\ CallOK(c) /\ vol[c] \in Volumes
            /\ (\E label \in Labels : Moves(c, label)) \/ Returns(c)
            /\ UNCHANGED <<pods, dying>> \/ Creates(c) \/ Deletes(c)
            /\ running' = running
            /\ \A v \in Volumes \ {vol[c]} : pods'[v] = pods[v] /\ kub'[v] = kub[v]
            /\ \A d \in Calls \ {c} : Untouched(d)
            /\ \A d \in Calls \ {c} : Active(d) =>
                  vol[d] \in Volumes /\ vol[d] # vol[c]
            /\ kub[vol[c]] # "published"
            /\ Creates(c) => ~pods'[vol[c]].ready
            /\ Deletes(c) => /\ pods[vol[c]] # None
                             /\ pods'[vol[c]].node = pods[vol[c]].node
                             /\ pods'[vol[c]].ready = pods[vol[c]].ready
        BY <1>4, SerialStep, ZenonT(60)
      <2>2. /\ \A v \in secrets \ secrets' : v = vol[c] /\ pc'[c] \notin CreateLabels
            /\ pc'[c] \in CreateLabels \ {"write_secret"} =>
                  \/ pc[c] \in CreateLabels \ {"write_secret"}
                  \/ vol[c] \in secrets'
        BY <1>1, <1>4, <2>1, SecretSteps, Zenon
      <2>3. \A v \in Volumes :
                pods'[v] # None /\ pods'[v].ready => <<v, pods'[v].node>> \in running'
        BY <2>1, Zenon DEF PodsBacked
      <2>4. \A d \in Calls : pc'[d] \in CreateLabels \ {"write_secret"} =>
                vol'[d] \in secrets'
        <3>1. ASSUME NEW d \in Calls \ {c}, pc'[d] \in CreateLabels \ {"write_secret"}
              PROVE  vol'[d] \in secrets'
          <4>1. vol'[d] = vol[d] /\ vol[d] \in secrets /\ vol[d] # vol[c]
            BY <2>1, <3>1, Zenon DEF Untouched, Active, CreateLabels, PodsBacked
          <4> QED BY <2>2, <4>1, Zenon
        <3>2. ASSUME pc'[c] \in CreateLabels \ {"write_secret"}
              PROVE  vol'[c] \in secrets'
          <4>1. vol'[c] = vol[c]
            BY <2>1, <3>2, Zenon DEF Moves, Returns, CreateLabels
          <4> QED BY <2>2, <3>2, <4>1, Zenon DEF PodsBacked
        <3> QED BY <3>1, <3>2, Zenon
      <2>5. \A v \in Volumes : kub'[v] = "published" => v \in secrets'
        <3>1. kub'[vol[c]] = "published" => pc[c] = "await_ready" /\ secrets' = secrets
          BY <1>1, <1>4, <2>1, CreateSteps, Zenon
        <3> QED BY <2>1, <2>2, <3>1, Zenon DEF PodsBacked, CreateLabels
      <2> QED BY <2>3, <2>4, <2>5, Zenon DEF PodsBacked
    <1> QED BY <1>2, <1>3, <1>4, QuietSteps, Zenon

-----------------------------------------------------------------------------
(* The pod stays.                                                          *)

\* A volume that is attached, or that a call of a node works on, has one call
\* at the most, and its node's cache lacks no pod of it but a new one.
LEMMA AloneAndInformed ==
    ASSUME PodsInv, NEW c \in Calls, Active(c), op[c] # "delete"
    PROVE  /\ vol[c] \in Volumes /\ at[c] # None /\ attached[vol[c]] = at[c]
           /\ kub[vol[c]] = "uncertain"
           /\ \A d \in Calls : Active(d) /\ vol[d] = vol[c] => d = c
           /\ pc[c] # "await_ready" => Sees(at[c], vol[c])
    <1>1. /\ vol[c] \in Volumes /\ at[c] # None /\ attached[vol[c]] = at[c]
          /\ kub[vol[c]] = "uncertain"
      BY NoneAssumption, Zenon DEF PodsInv, CallInv, CallOK, OneCallAtATime, Plugins
    <1>2. \A d \in Calls : Active(d) /\ vol[d] = vol[c] => d = c
      BY Zenon DEF PodsInv, CallInv, OneCallAtATime
    <1>3. pc[c] # "await_ready" => Sees(at[c], vol[c])
      <2>1. \/ Sees(at[c], vol[c])
            \/ \E d \in Calls : vol[d] = vol[c] /\ pc[d] = "await_ready"
        BY <1>1, Zenon DEF PodsInv, RemoversInformed
      <2> QED BY <1>2, <2>1, Zenon DEF Active
    <1> QED BY <1>1, <1>2, <1>3, Zenon

\* A call that leaves its wait for the end of a pod has seen it go.
LEMMA RemovalSeen ==
    ASSUME SerialEnvironment, PodsInv, PodsKept, NEW c \in Calls, CallStep(c),
           pc[c] \in {"await_replaced", "await_removed"},
           \A v \in Volumes : dying[v] <= 15
    PROVE  /\ Cached(c) = None
           /\ op[c] # "delete" => pods[vol[c]] = None
    <1>1. TypeOK /\ CallOK(c) /\ vol[c] \in Volumes
      BY SerialStep, Zenon
    <1>2. ~NotSeenGone(c)
      <2>1. dying \in [Volumes -> Nat] /\ waited[c] \in Nat /\ stopping = {}
        BY <1>1 DEF TypeOK, PodTypeOK, GracePeriod, PodsInv, OneCallAtATime
      <2>2. CASE pc[c] = "await_replaced"
        <3>1. waited[c] <= 15
          BY <1>1, <2>1, <2>2 DEF PodsKept
        <3> QED BY <2>1, <2>2, <3>1 DEF NotSeenGone, Expired, Fails, SerialEnvironment,
                                        WaitLimit, ReplaceWait
      <2>3. CASE pc[c] = "await_removed"
        <3>1. waited[c] <= 30
          BY <1>1, <2>1, <2>3 DEF PodsInv, NothingForced
        <3> QED BY <2>1, <2>3, <3>1 DEF NotSeenGone, Expired, Fails, SerialEnvironment,
                                        WaitLimit, RemoveWait
      <2> QED BY <2>2, <2>3, Zenon
    <1>3. Cached(c) = None
      BY <1>1, <1>2, CreateSteps, Zenon DEF PodGone
    <1>4. op[c] # "delete" => Sees(at[c], vol[c])
      BY AloneAndInformed, Zenon DEF Active
    <1> QED BY <1>3, <1>4, Zenon DEF Sees, Cached

\* A step of a call keeps PodsKept.
LEMMA CallStepKept ==
    ASSUME SerialEnvironment, PodsInv, PodsKept, NEW c \in Calls, CallStep(c),
           \A v \in Volumes : dying[v] <= 15
    PROVE  PodsKept'
    <1>1. /\ TypeOK /\ CallOK(c) /\ vol[c] \in Volumes
          /\ (\E label \in Labels : Moves(c, label)) \/ Returns(c)
          /\ UNCHANGED <<pods, dying>> \/ Creates(c) \/ Deletes(c)
          /\ UNCHANGED <<cache, attached, released>>
          /\ \A v \in Volumes \ {vol[c]} :
                pods'[v] = pods[v] /\ dying'[v] = dying[v] /\ kub'[v] = kub[v]
          /\ \A d \in Calls \ {c} : Untouched(d)
          /\ \A d \in Calls \ {c} : Active(d) =>
                vol[d] \in Volumes /\ vol[d] # vol[c]
          /\ op[c] = "delete" => attached[vol[c]] = None /\ vol[c] \in released
          /\ Creates(c) => pods'[vol[c]] # None /\ ~pods'[vol[c]].terminating
          /\ Deletes(c) => pods'[vol[c]] # None /\ pods'[vol[c]].terminating
      BY SerialStep, Zenon
    <1>2. /\ op[c] # "delete" => /\ attached[vol[c]] = at[c] /\ at[c] # None
                                 /\ kub[vol[c]] # "published"
          /\ kub[vol[c]] # "published"
      BY SerialStep, Zenon
    <1>3. /\ \A v \in Volumes \ {vol[c]} : Removing(v)' <=> Removing(v)
          /\ Removing(vol[c]) => pc[c] \in {"await_replaced", "await_removed"}
          /\ \A v \in Volumes : v = vol[c] /\ Deletes(c) => Removing(v)'
      <2>1. vol'[c] \in {vol[c], None}
        BY <1>1, Zenon DEF Moves, Returns
      <2>2. \A v \in Volumes \ {vol[c]} : Removing(v)' <=> Removing(v)
        BY <1>1, <2>1, NoneAssumption DEF Removing, Untouched
      <2>3. Removing(vol[c]) => pc[c] \in {"await_replaced", "await_removed"}
        BY <1>1, Zenon DEF Removing, Active
      <2>4. Deletes(c) => vol'[c] = vol[c]
        BY <1>1, Zenon DEF Deletes, Moves, Returns
      <2>5. \A v \in Volumes : v = vol[c] /\ Deletes(c) => Removing(v)'
        BY <2>4, Zenon DEF Removing, Deletes
      <2> QED BY <2>2, <2>3, <2>5, Zenon
    <1>4. pc[c] \in {"await_replaced", "await_removed"} =>
              Cached(c) = None /\ (op[c] # "delete" => pods[vol[c]] = None)
      BY RemovalSeen, Zenon
    <1>5. ASSUME NEW v \in Volumes \ released', v \in Terminating' PROVE Removing(v)'
      <2>1. CASE v # vol[c]
        BY <1>1, <1>3, <1>5, <2>1, Zenon DEF PodsKept, Terminating
      <2>2. CASE v = vol[c] /\ Deletes(c)
        BY <1>3, <2>2, Zenon
      <2>3. CASE v = vol[c] /\ ~Deletes(c)
        <3>1. pods' = pods /\ v \in Terminating
          BY <1>1, <1>5, <2>3, Zenon DEF Terminating
        <3>2. pods[v] # None
          BY <3>1, Zenon DEF Terminating
        <3>3. Removing(v) /\ op[c] # "delete"
          BY <1>1, <1>5, <2>3, <3>1, Zenon DEF PodsKept
        <3> QED BY <1>3, <1>4, <2>3, <3>2, <3>3, Zenon
      <2> QED BY <2>1, <2>2, <2>3, Zenon
    <1>6. ASSUME NEW v \in Volumes, attached'[v] # None, ~Removing(v)',
                 cache'[attached'[v]][v] # None
          PROVE  /\ pods'[v] # None
                 /\ cache'[attached'[v]][v].ready => pods'[v].ready
      <2>1. CASE v # vol[c]
        BY <1>1, <1>3, <1>6, <2>1, Zenon DEF PodsKept
      <2>2. CASE v = vol[c]
        <3>1. op[c] # "delete" /\ attached[v] = at[c] /\ ~Deletes(c)
          BY <1>1, <1>2, <1>3, <1>6, <2>2, Zenon
        <3>2. ~Removing(v)
          BY <1>1, <1>3, <1>4, <1>6, <2>2, <3>1, Zenon DEF Cached
        <3>3. pods[v] # None /\ (cache[attached[v]][v].ready => pods[v].ready)
          BY <1>1, <1>6, <3>2, Zenon DEF PodsKept
        <3>4. pods' = pods
          BY <1>1, <2>2, <3>1, <3>3, Zenon DEF Creates
        <3> QED BY <1>1, <3>3, <3>4, Zenon
      <2> QED BY <2>1, <2>2, Zenon
    <1>7. ASSUME NEW d \in Calls \ {c}
          PROVE  /\ pc'[d] = "await_replaced" =>
                       \/ pods'[vol'[d]] = None /\ waited'[d] <= 15
                       \/ vol'[d] \in Terminating' /\ waited'[d] <= dying'[vol'[d]]
                 /\ pc'[d] = "create_pod" => cache'[at'[d]][vol'[d]] = None
                 /\ pc'[d] = "await_ready" => pods'[vol'[d]] # None
      <2>1. /\ pc'[d] = pc[d] /\ vol'[d] = vol[d] /\ waited'[d] = waited[d]
            /\ at'[d] = at[d]
            /\ pc[d] # "idle" => /\ vol[d] \in Volumes
                                 /\ pods'[vol[d]] = pods[vol[d]]
                                 /\ dying'[vol[d]] = dying[vol[d]]
        BY <1>1, Zenon DEF Untouched, Active
      <2>2. pc[d] # "idle" => (vol[d] \in Terminating' <=> vol[d] \in Terminating)
        BY <2>1, Zenon DEF Terminating
      <2>3. pc'[d] = "await_replaced" =>
                \/ pods'[vol'[d]] = None /\ waited'[d] <= 15
                \/ vol'[d] \in Terminating' /\ waited'[d] <= dying'[vol'[d]]
        <3> HAVE pc'[d] = "await_replaced"
        <3>1. \/ pods[vol[d]] = None /\ waited[d] <= 15
              \/ vol[d] \in Terminating /\ waited[d] <= dying[vol[d]]
          BY <2>1, Zenon DEF PodsKept
        <3>2. /\ vol[d] \in Terminating' <=> vol[d] \in Terminating
              /\ pods'[vol[d]] = pods[vol[d]] /\ dying'[vol[d]] = dying[vol[d]]
          BY <2>1, <2>2, Zenon
        <3> QED BY <2>1, <3>1, <3>2, Zenon
      <2>4. pc'[d] = "create_pod" => cache'[at'[d]][vol'[d]] = None
        <3>1. cache' = cache
          BY <1>1, Zenon
        <3>2. pc[d] = "create_pod" => cache[at[d]][vol[d]] = None
          BY Zenon DEF PodsKept
        <3> QED BY <2>1, <3>1, <3>2, Zenon
      <2>5. pc'[d] = "await_ready" => pods'[vol'[d]] # None
        BY <2>1, Zenon DEF PodsKept
      <2> QED BY <2>3, <2>4, <2>5, Zenon
    <1>8. op[c] = "publish" /\ ~(pc[c] \in {"await_replaced", "await_removed"})
          /\ Cached(c) # None =>
              /\ pods[vol[c]] # None
              /\ Cached(c).ready => pods[vol[c]].ready
      BY <1>1, <1>2, <1>3, Zenon DEF PodsKept, Cached
    <1>9. /\ pc'[c] = "await_replaced" =>
                vol'[c] \in Terminating' /\ waited'[c] <= dying'[vol'[c]]
          /\ pc'[c] = "create_pod" => cache'[at'[c]][vol'[c]] = None
          /\ pc'[c] = "await_ready" => pods'[vol'[c]] # None
      <2>1. pc'[c] # "idle" => vol'[c] = vol[c] /\ at'[c] = at[c] /\ waited'[c] = 0
        BY <1>1, Zenon DEF Moves, Returns
      <2>2. ASSUME pc'[c] = "await_replaced"
            PROVE  vol'[c] \in Terminating' /\ waited'[c] <= dying'[vol'[c]]
        <3>1. Deletes(c)
          BY <1>1, <2>2, CreateSteps, Zenon
        <3>2. vol[c] \in Terminating' /\ dying' = dying
          BY <1>1, <3>1, Zenon DEF Terminating, Deletes
        <3>3. dying[vol[c]] \in Nat
          BY <1>1 DEF TypeOK, PodTypeOK, GracePeriod
        <3> QED BY <2>1, <2>2, <3>2, <3>3
      <2>3. ASSUME pc'[c] = "create_pod" PROVE cache'[at'[c]][vol'[c]] = None
        BY <1>1, <1>4, <2>1, <2>3, CreateSteps, Zenon
        DEF Cached, Fails, SerialEnvironment
      <2>4. ASSUME pc'[c] = "await_ready" PROVE pods'[vol'[c]] # None
        <3>1. CASE Creates(c)
          BY <1>1, <2>1, <2>4, <3>1, Zenon
        <3>2. CASE ~Creates(c)
          <4>1. pc[c] = "get_pod" /\ pods' = pods /\ Cached(c) # None
            BY <1>1, <2>4, <3>2, CreateSteps, Zenon
          <4>2. op[c] = "publish"
            BY <1>1, <4>1, Zenon DEF CallOK, Active, CreateLabels
          <4> QED BY <1>8, <2>1, <2>4, <4>1, <4>2, Zenon
        <3> QED BY <3>1, <3>2, Zenon
      <2> QED BY <2>2, <2>3, <2>4, Zenon
    <1>10. ASSUME NEW v \in Volumes, kub'[v] = "published"
           PROVE  pods'[v] # None /\ pods'[v].ready
      <2>1. CASE v # vol[c]
        BY <1>1, <1>10, <2>1, Zenon DEF PodsKept
      <2>2. CASE v = vol[c]
        <3>1. pc[c] = "await_ready" /\ PodReady(c) /\ pods' = pods
          BY <1>1, <1>2, <1>10, <2>2, CreateSteps, Zenon
        <3>2. op[c] = "publish"
          BY <1>1, <3>1, Zenon DEF CallOK, Active, CreateLabels
        <3> QED BY <1>8, <2>2, <3>1, <3>2, Zenon DEF PodReady
      <2> QED BY <2>1, <2>2, Zenon
    <1> QED BY <1>5, <1>6, <1>7, <1>9, <1>10, Zenon DEF PodsKept

\* A quiet step keeps PodsStay.
LEMMA QuietStay ==
    ASSUME SerialEnvironment, ServersStopSoon, PodsInv, PodsStay, Quiet
    PROVE  PodsStay'
    <1>1. /\ TypeOK /\ dying \in [Volumes -> {0, 15, 30, 45, 60}]
          /\ waited \in [Calls -> Nat] /\ StopTime \in Int /\ StopTime <= 15
      BY TimeAssumption DEF PodsInv, CallInv, TypeOK, PodTypeOK, GracePeriod,
                            ServersStopSoon
    <1>2. pods' = pods /\ Terminating' = Terminating /\ Terminating \subseteq Volumes
      BY Zenon DEF Quiet, Terminating
    <1>3. ASSUME Tick
          PROVE  /\ \A v \in Terminating : dying[v] = 0 /\ dying'[v] = 15
                 /\ \A v \in Volumes \ Terminating : dying'[v] = dying[v]
      <2>1. /\ \A v \in Terminating : dying[v] < StopTime
            /\ dying' = [v \in Volumes |-> IF v \in Terminating /\ dying[v] < 60
                                           THEN dying[v] + 15 ELSE dying[v]]
        BY <1>3, Zenon DEF Tick, Fails, SerialEnvironment, GracePeriod
      <2>2. \A v \in Terminating : dying[v] = 0
        BY <1>1, <1>2, <2>1
      <2>3. \A v \in Terminating : dying'[v] = 0 + 15
        BY <1>2, <2>1, <2>2
      <2> QED BY <1>2, <2>1, <2>2, <2>3
    <1>4. \A v \in Volumes : dying'[v] <= 15
      <2>1. CASE Tick
        BY <1>1, <1>3, <2>1 DEF PodsStay
      <2>2. CASE ~Tick
        BY <2>2, Zenon DEF Quiet, PodsStay
      <2> QED BY <2>1, <2>2, Zenon
    <1>5. ASSUME breaks' = 0 PROVE PodsKept'
      <2>1. /\ PodsKept
            /\ \A d \in Calls : pc[d] # "idle" =>
                  pc'[d] = pc[d] /\ at'[d] = at[d] /\ vol'[d] = vol[d]
            /\ \A d \in Calls :
                  \/ pc'[d] \in {"idle", "write_secret", "remove_get"}
                  \/ pc'[d] = pc[d] /\ at'[d] = at[d] /\ vol'[d] = vol[d]
        BY <1>5, Zenon DEF Quiet, PodsStay
      <2>2. \A v \in Volumes : Removing(v)' <=> Removing(v)
        <3>1. \A d \in Calls :
                  pc'[d] \in {"await_replaced", "await_removed"}
                  \/ pc[d] \in {"await_replaced", "await_removed"} =>
                      pc'[d] = pc[d] /\ vol'[d] = vol[d]
          BY <2>1, Zenon
        <3> QED BY <3>1, Zenon DEF Removing
      <2>3. \A v \in Volumes \ released' : v \in Terminating' => Removing(v)'
        BY <1>2, <2>1, <2>2, Zenon DEF Quiet, PodsKept
      <2>4. ASSUME NEW v \in Volumes, attached'[v] # None, ~Removing(v)',
                   cache'[attached'[v]][v] # None
            PROVE  /\ pods'[v] # None
                   /\ cache'[attached'[v]][v].ready => pods'[v].ready
        <3>1. CASE cache'[attached'[v]][v] = pods[v]
          BY <1>2, <2>4, <3>1, Zenon
        <3>2. CASE cache'[attached'[v]][v] # pods[v]
          <4>1. attached'[v] = attached[v]
            BY <2>4, <3>2, Zenon DEF Quiet
          <4>2. attached[v] \in Plugins
            <5>1. attached \in [Volumes -> Nodes \cup {None}]
              BY <1>1, Zenon DEF TypeOK, PodTypeOK
            <5> QED BY <2>4, <4>1, <5>1, Zenon DEF Plugins
          <4>3. cache'[attached[v]][v] = cache[attached[v]][v]
            BY <3>2, <4>1, <4>2, ZenonT(60) DEF Quiet
          <4> QED BY <1>2, <2>1, <2>2, <2>4, <4>1, <4>3, Zenon DEF PodsKept
        <3> QED BY <3>1, <3>2, Zenon
      <2>5. ASSUME NEW d \in Calls, pc'[d] = "await_replaced"
            PROVE  \/ pods'[vol'[d]] = None /\ waited'[d] <= 15
                   \/ vol'[d] \in Terminating' /\ waited'[d] <= dying'[vol'[d]]
        <3>1. pc[d] = "await_replaced" /\ vol'[d] = vol[d]
          BY <2>1, <2>5, Zenon
        <3>2. CASE Tick
          <4>1. d \in Waits /\ ~Awaited(d)
            BY <3>1, <3>2, Zenon DEF Tick, Waits, WaitLimit
          <4>2. vol[d] \in Terminating /\ waited[d] <= dying[vol[d]]
            BY <2>1, <3>1, <4>1, Zenon DEF Awaited, At, PodsKept
          <4>3. waited'[d] = waited[d] + 15 /\ waited[d] \in Nat
            BY <1>1, <3>2, <4>1, Zenon DEF Tick
          <4> QED BY <1>2, <1>3, <3>1, <3>2, <4>2, <4>3
        <3>3. CASE ~Tick
          <4>1. dying' = dying /\ waited'[d] = waited[d]
            BY <2>5, <3>3, Zenon DEF Quiet
          <4> QED BY <1>2, <2>1, <3>1, <4>1, Zenon DEF PodsKept
        <3> QED BY <3>2, <3>3, Zenon
      <2>6. ASSUME NEW d \in Calls, pc'[d] = "create_pod"
            PROVE  cache'[at'[d]][vol'[d]] = None
        <3>1. pc[d] = "create_pod" /\ at'[d] = at[d] /\ vol'[d] = vol[d]
          BY <2>1, <2>6, Zenon
        <3>2. op[d] = "publish" /\ at[d] \in Plugins /\ Active(d)
          BY <3>1, Zenon DEF PodsInv, CallInv, CallOK, Active, CreateLabels, Plugins
        <3>3. vol[d] \in Volumes /\ Sees(at[d], vol[d])
          BY <3>1, <3>2, AloneAndInformed, Zenon
        <3>4. cache[at[d]][vol[d]] = None
          BY <2>1, <3>1, Zenon DEF PodsKept
        <3>5. cache'[at[d]][vol[d]] \in {cache[at[d]][vol[d]], pods[vol[d]]}
          BY <3>2, <3>3, Zenon DEF Quiet
        <3> QED BY <3>1, <3>3, <3>4, <3>5 DEF Sees
      <2>7. \A d \in Calls : pc'[d] = "await_ready" => pods'[vol'[d]] # None
        <3>1. \A d \in Calls : pc'[d] = "await_ready" =>
                  pc[d] = "await_ready" /\ vol'[d] = vol[d]
          BY <2>1, Zenon
        <3> QED BY <1>2, <2>1, <3>1, Zenon DEF PodsKept
      <2>8. \A v \in Volumes : kub'[v] = "published" => pods'[v] # None /\ pods'[v].ready
        BY <1>2, <2>1, Zenon DEF Quiet, PodsKept
      <2> QED BY <2>3, <2>4, <2>5, <2>6, <2>7, <2>8, Zenon DEF PodsKept
    <1> QED BY <1>4, <1>5, Zenon DEF PodsStay

\* A step of a kubelet keeps PodsStay.
LEMMA ServerStay ==
    ASSUME PodsInv, PodsStay, NEW v \in Volumes, ServerStep(v)
    PROVE  PodsStay'
    <1>1. /\ TypeOK /\ dying \in [Volumes -> {0, 15, 30, 45, 60}]
          /\ waited \in [Calls -> Nat]
      BY Zenon DEF PodsInv, CallInv, TypeOK, PodTypeOK, GracePeriod
    <1>2. UNCHANGED <<cache, attached, kub, pc, at, vol, waited, breaks, released>>
      BY Zenon DEF ServerStep, StartServer, StopServer, KillServer, calls, call,
                   orchestrator, lifetime, store
    <1>3. \A w : Removing(w)' <=> Removing(w)
      BY <1>2, Zenon DEF Removing
    <1>4. \A d \in Calls : pc[d] # "idle" => vol[d] \in Volumes
      BY Zenon DEF PodsInv, CallInv, CallOK, Active
    <1>5. CASE \E n \in Nodes : KillServer(v, n)
      <2>1. UNCHANGED <<pods, dying>> /\ Terminating' = Terminating
        BY <1>5, Zenon DEF KillServer, api, Terminating
      <2> QED BY <1>2, <1>3, <2>1, Zenon DEF PodsStay, PodsKept
    <1>6. CASE StartServer(v)
      <2>1. /\ pods[v] # None /\ dying' = dying
            /\ pods'[v] # None /\ pods'[v].ready
            /\ pods'[v].terminating = pods[v].terminating
            /\ \A w \in Volumes \ {v} : pods'[w] = pods[w]
        BY <1>1, <1>6, ReadyPod, Zenon
      <2>2. Terminating' = Terminating
        BY <2>1, Zenon DEF Terminating
      <2>3. \A w \in Volumes : /\ pods'[w] = None <=> pods[w] = None
                               /\ pods[w].ready => pods'[w].ready
        BY <2>1, Zenon
      <2>4. ASSUME PodsKept PROVE PodsKept'
        <3>1. \A w \in Volumes \ released : w \in Terminating => Removing(w)
          BY <2>4, Zenon DEF PodsKept
        <3>2. ASSUME NEW w \in Volumes, attached[w] # None, ~Removing(w),
                     cache[attached[w]][w] # None
              PROVE  /\ pods'[w] # None
                     /\ cache[attached[w]][w].ready => pods'[w].ready
          BY <2>3, <2>4, <3>2, Zenon DEF PodsKept
        <3>3. ASSUME NEW d \in Calls
              PROVE  /\ pc[d] = "await_replaced" =>
                           \/ pods'[vol[d]] = None /\ waited[d] <= 15
                           \/ vol[d] \in Terminating /\ waited[d] <= dying[vol[d]]
                     /\ pc[d] = "create_pod" => cache[at[d]][vol[d]] = None
                     /\ pc[d] = "await_ready" => pods'[vol[d]] # None
          BY <1>4, <2>3, <2>4, Zenon DEF PodsKept
        <3>4. \A w \in Volumes : kub[w] = "published" => pods'[w] # None /\ pods'[w].ready
          BY <2>3, <2>4, Zenon DEF PodsKept
        <3> QED BY <1>2, <1>3, <2>1, <2>2, <3>1, <3>2, <3>3, <3>4, Zenon DEF PodsKept
      <2> QED BY <1>2, <2>1, <2>4, Zenon DEF PodsStay
    <1>7. CASE StopServer(v)
      <2>1. /\ v \in Terminating
            /\ pods'[v] = None /\ dying'[v] = 0
            /\ \A w \in Volumes \ {v} : pods'[w] = pods[w] /\ dying'[w] = dying[w]
        <3>1. v \in Terminating
          BY <1>7, Zenon DEF StopServer, Terminating
        <3>2. /\ pods' = [pods EXCEPT ![v] = None]
              /\ dying' = [dying EXCEPT ![v] = 0]
          BY <1>7, Zenon DEF StopServer, RemoveObject
        <3>3. pods \in [Volumes -> PodObjects \cup {None}]
          BY <1>1, Zenon DEF TypeOK, PodTypeOK
        <3> QED BY <1>1, <3>1, <3>2, <3>3, ZenonT(60)
      <2>2. \A w \in Volumes : dying'[w] <= 15
        BY <2>1 DEF PodsStay
      <2>3. Terminating' = Terminating \ {v}
        BY <2>1, Zenon DEF Terminating
      <2>4. ASSUME PodsKept PROVE PodsKept'
        <3>1. attached[v] # None => Removing(v)
          BY <2>1, <2>4, Zenon DEF PodsInv, OneCallAtATime, PodsKept
        <3>2. attached[v] # None =>
                  \E d \in Calls :
                      /\ vol[d] = v /\ Active(d) /\ op[d] # "delete"
                      /\ pc[d] \in {"await_replaced", "await_removed"}
          <4>1. \A d \in Calls : op[d] = "delete" => vol[d] \in released
            BY Zenon DEF PodsInv, CallInv, PageOK
          <4>2. \A w \in released : attached[w] = None
            BY Zenon DEF PodsInv, OneCallAtATime
          <4> QED BY <3>1, <4>1, <4>2, Zenon DEF Removing, Active
        <3>3. kub[v] # "published"
          BY <3>2, AloneAndInformed, Zenon DEF PodsInv, OneCallAtATime
        <3>4. ASSUME NEW d \in Calls, pc[d] = "await_ready" PROVE vol[d] # v
          <4>1. op[d] # "delete" /\ Active(d)
            BY <3>4, Zenon DEF PodsInv, CallInv, CallOK, Active, CreateLabels
          <4>2. attached[vol[d]] # None
            BY <4>1, AloneAndInformed, Zenon
          <4> QED BY <3>2, <3>4, <4>1, <4>2, AloneAndInformed, Zenon
        <3>5. ASSUME NEW d \in Calls, pc[d] = "await_replaced"
              PROVE  \/ pods'[vol[d]] = None /\ waited[d] <= 15
                     \/ vol[d] \in Terminating' /\ waited[d] <= dying'[vol[d]]
          <4>1. vol[d] \in Volumes
            BY <1>4, <3>5, Zenon
          <4>2. CASE vol[d] = v
            <5>1. waited[d] <= 15
              BY <1>1, <2>4, <3>5, <4>1 DEF PodsKept, PodsStay
            <5> QED BY <2>1, <4>2, <5>1, Zenon
          <4>3. CASE vol[d] # v
            BY <2>1, <2>3, <2>4, <3>5, <4>1, <4>3, Zenon DEF PodsKept
          <4> QED BY <4>2, <4>3, Zenon
        <3>6. \A w \in Volumes \ released : w \in Terminating' => Removing(w)
          BY <2>3, <2>4, Zenon DEF PodsKept
        <3>7. ASSUME NEW w \in Volumes, attached[w] # None, ~Removing(w),
                     cache[attached[w]][w] # None
              PROVE  /\ pods'[w] # None
                     /\ cache[attached[w]][w].ready => pods'[w].ready
          BY <2>1, <2>4, <3>1, <3>7, Zenon DEF PodsKept
        <3>8. \A d \in Calls :
                  /\ pc[d] = "create_pod" => cache[at[d]][vol[d]] = None
                  /\ pc[d] = "await_ready" => pods'[vol[d]] # None
          <4>1. \A d \in Calls : pc[d] = "create_pod" => cache[at[d]][vol[d]] = None
            BY <2>4, Zenon DEF PodsKept
          <4>2. \A d \in Calls : pc[d] = "await_ready" => pods[vol[d]] # None
            BY <2>4, Zenon DEF PodsKept
          <4> QED BY <1>4, <2>1, <3>4, <4>1, <4>2, Zenon
        <3>9. \A w \in Volumes : kub[w] = "published" => pods'[w] # None /\ pods'[w].ready
          BY <2>1, <2>4, <3>3, Zenon DEF PodsKept
        <3> QED BY <1>2, <1>3, <3>5, <3>6, <3>7, <3>8, <3>9, Zenon DEF PodsKept
      <2> QED BY <1>2, <2>2, <2>4, Zenon DEF PodsStay
    <1> QED BY <1>5, <1>6, <1>7, Zenon DEF ServerStep

\* Every step keeps PodsStay.
LEMMA StayStep ==
    ASSUME SerialEnvironment, ServersStopSoon, PodsInv, PodsStay, [Next]_vars
    PROVE  PodsStay'
    <1>1. ASSUME NEW c \in Calls, CallStep(c) PROVE PodsStay'
      <2>1. breaks' = breaks /\ dying' = dying
        BY <1>1, SerialStep, Zenon DEF Creates, Deletes
      <2> QED BY <1>1, <2>1, CallStepKept, Zenon DEF PodsStay
    <1> QED BY <1>1, QuietSteps, QuietStay, ServerStay, Zenon

\* The invariant of the pods: every pod is its volume's, on its volume's node,
\* one that reports ready is served by a running server, and one that a call
\* or a cache relies on is not about to go.
THEOREM ServedInvariant ==
    ASSUME SerialEnvironment, ServersStopSoon
    PROVE  Spec => []ServedInv
    <1>1. Init => ServedInv
      BY DEF ServedInv, Init, PodInit, PodsPlaced, PodFollowsVolume, PodsBacked,
             PodsStay, PodsKept, CreateLabels, Terminating
    <1>2. PodsInv /\ ServedInv /\ [Next]_vars => ServedInv'
      BY PlacedStep, BackedStep, StayStep, Zenon DEF ServedInv
    <1> QED BY <1>1, <1>2, PodsInvariant, PTL DEF Spec

\* A published volume is served on its node by a pod that nobody has deleted,
\* if no plugin has crashed and servers stop within 15 seconds: publishing
\* then never takes a pod that is about to go for one that stays.
THEOREM PublishedIsServedByPod ==
    ASSUME SerialEnvironment, ServersStopSoon
    PROVE  Spec => []PublishedHasPod
    <1>1. PodsInv /\ ServedInv => PublishedHasPod
      <2> SUFFICES ASSUME PodsInv, PodsPlaced, PodsBacked, PodsStay, breaks = 0,
                          NEW v \in Volumes, kub[v] = "published"
                   PROVE  /\ <<v, attached[v]>> \in running
                          /\ pods[v] # None /\ ~pods[v].terminating
                          /\ v \in secrets
        BY Zenon DEF PublishedHasPod, ServedInv
      <2>1. pods[v] # None /\ pods[v].ready /\ (v \in Terminating => v \in released
                                                                    \/ Removing(v))
        BY Zenon DEF PodsStay, PodsKept
      <2>2. <<v, attached[v]>> \in running /\ v \in secrets
        BY <2>1, Zenon DEF PodsBacked, PodsPlaced, PodFollowsVolume
      <2>3. v \notin released
        BY Zenon DEF PodsInv, OneCallAtATime
      <2>4. ~Removing(v)
        <3>1. ASSUME NEW c \in Calls, vol[c] = v PROVE ~Active(c)
          <4>1. op[c] # "delete"
            BY <2>3, <3>1, Zenon DEF PodsInv, CallInv, PageOK
          <4>2. Active(c) => kub[v] = "uncertain"
            BY <3>1, <4>1, Zenon DEF PodsInv, OneCallAtATime
          <4> QED BY <4>2, Zenon
        <3> QED BY <3>1, Zenon DEF Removing, Active
      <2> QED BY <2>1, <2>2, <2>3, <2>4, Zenon DEF Terminating
    <1> QED BY <1>1, ServedInvariant, PodsInvariant, PTL

=============================================================================
