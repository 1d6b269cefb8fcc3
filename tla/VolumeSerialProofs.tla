------------------------- MODULE VolumeSerialProofs -------------------------
(***************************************************************************)
(* Proofs that the groups of VolumeInv up to RemoversInformed are an       *)
(* inductive invariant of the environment of module VolumeSerial, of what  *)
(* follows from them for the pods, and of when pods are deleted by force   *)
(* in other environments.                                                  *)
(***************************************************************************)
EXTENDS VolumeCallProofs

-----------------------------------------------------------------------------
(* One call at a time.                                                     *)

\* DeleteVolume tells the kubelet nothing.
LEMMA DeleteKeepsKub ==
    ASSUME NEW c \in Calls, CallOK(c), CallStep(c), op[c] = "delete"
    PROVE  kub' = kub
    <1> USE DEF At, CallOK, Active, CreateLabels
    <1>1. \A label : Goto(c, label) => kub' = kub
      BY Zenon DEF Goto, orchestrator
    <1>2. CASE CreatePod(c)
      BY <1>2, Zenon DEF CreatePod, WriteSecret, GetPod, CreateApiPod, ReplacePod,
                  AwaitReplaced, AwaitReady
    <1>3. CASE RemovePod(c)
      <2>1. PodRemoved(c) => kub' = kub
        BY <1>1, Zenon DEF PodRemoved
      <2> QED
        BY <1>1, <1>3, <2>1, Zenon
        DEF RemovePod, RemoveGet, RemoveApiPod, AwaitRemoved, ForcePod,
            AwaitForced, RemoveSecret, AwaitGone
    <1>4. CASE DeleteStep(c)
      BY <1>1, <1>4, Zenon DEF DeleteStep, Resolve, ListPage, DeletePage, Answer
    <1> QED BY <1>2, <1>3, <1>4, Zenon DEF CallStep

\* The steps of a call keep OneCallAtATime.
LEMMA CallStepOne ==
    ASSUME CallInv, OneCallAtATime, NEW c \in Calls, CallStep(c)
    PROVE  OneCallAtATime'
    <1>1. TypeOK /\ CallOK(c) /\ CallFacts(c) /\ waiting' \subseteq waiting
      <2>1. TypeOK /\ CallOK(c) /\ CallFacts(c)
        BY CallStepFacts, Zenon DEF CallInv
      <2>2. waiting \subseteq Calls /\ waiting' \subseteq Calls
        BY CallType, Zenon DEF CallInv, TypeOK, PodTypeOK
      <2> QED BY <2>1, <2>2, Zenon DEF CallFacts, Untouched, Moves, Returns
    <1>2. UNCHANGED <<attached, stopping, released>>
      BY <1>1, Zenon DEF CallFacts, Around
    <1>3. Active(c) /\ c \in waiting /\ vol[c] \in Volumes
      BY <1>1, Zenon DEF CallStep, CreatePod, RemovePod, DeleteStep, WriteSecret, GetPod,
             CreateApiPod, ReplacePod, AwaitReplaced, AwaitReady, RemoveGet,
             RemoveApiPod, AwaitRemoved, ForcePod, AwaitForced, RemoveSecret,
             AwaitGone, Resolve, ListPage, DeletePage, At, Active, CallOK,
             OneCallAtATime
    <1>4. \A d \in Calls : d \in waiting' <=> Active(d)'
      BY <1>1, <1>3
      DEF CallFacts, Untouched, Moves, Returns, Active, OneCallAtATime, Labels,
          CreateLabels, RemoveLabels, DeleteLabels
    <1>5. ASSUME NEW v \in Volumes, attached[v] = None PROVE kub'[v] = "none"
      <2>1. CASE v = vol[c] /\ op[c] # "delete"
        <3>1. attached[v] = at[c] /\ at[c] \in Nodes
          BY <1>1, <1>3, <2>1, Zenon DEF OneCallAtATime, CallOK
        <3> QED BY <1>5, <3>1, NoneAssumption, Zenon DEF Plugins
      <2>2. CASE v # vol[c]
        BY <1>1, <1>5, <2>2, Zenon DEF CallFacts, OneCallAtATime
      <2>3. CASE op[c] = "delete"
        BY <1>1, <1>5, <2>3, DeleteKeepsKub, Zenon DEF OneCallAtATime
      <2> QED BY <2>1, <2>2, <2>3, Zenon
    <1>6. ASSUME NEW d \in Calls, Active(d)', op'[d] # "delete"
          PROVE  attached'[vol'[d]] = at'[d] /\ kub'[vol'[d]] = "uncertain"
      <2>1. CASE d = c
        BY <1>1, <1>2, <1>3, <1>6, <2>1, ZenonT(60)
        DEF CallFacts, Moves, Returns, Active, OneCallAtATime
      <2>2. CASE d # c
        <3>1. Untouched(d) /\ Active(d) /\ d \in waiting /\ op[d] # "delete"
          BY <1>1, <1>6, <2>2, Zenon DEF CallFacts, Untouched, Active, OneCallAtATime
        <3>2. vol[d] \in Volumes /\ vol[d] # vol[c]
          BY <1>3, <2>2, <3>1, Zenon DEF CallInv, CallOK
        <3> QED
          BY <1>1, <1>2, <3>1, <3>2 DEF CallFacts, Untouched, OneCallAtATime
      <2> QED BY <2>1, <2>2, Zenon
    <1>7. waiting' = {d \in Calls : Active(d)'}
      BY <1>1, <1>4, Zenon DEF TypeOK, PodTypeOK
    <1> QED BY <1>2, <1>5, <1>6, <1>7, Zenon DEF OneCallAtATime

\* Every step keeps OneCallAtATime.
LEMMA OneStep ==
    ASSUME SerialEnvironment, CallInv, OneCallAtATime, [Next]_vars
    PROVE  OneCallAtATime'
    <1> USE DEF OneCallAtATime
    <1>0. /\ TypeOK
          /\ attached \in [Volumes -> Nodes \cup {None}]
          /\ kub \in [Volumes -> {"none", "uncertain", "published"}]
      BY Zenon DEF CallInv, TypeOK, PodTypeOK
    <1>1. CASE \E c \in Calls, v \in Volumes : StartStep(c, v)
      <2>1. PICK c \in Calls, v \in Volumes : StartStep(c, v)
        BY <1>1, Zenon
      <2>2. PICK plugin, operation, label : StartCall(c, plugin, v, operation, label)
        BY <2>1, Zenon DEF StartStep, Publish, Unpublish, DeleteVolume
      <2>3. /\ pc[c] = "idle" /\ pc'[c] = label /\ at'[c] = plugin /\ vol'[c] = v
            /\ op'[c] = operation /\ waiting' = waiting \cup {c}
            /\ \A d \in waiting : vol[d] # v
            /\ UNCHANGED <<attached, stopping>>
            /\ \A d \in Calls \ {c} :
                  /\ pc'[d] = pc[d] /\ at'[d] = at[d] /\ vol'[d] = vol[d]
                  /\ op'[d] = op[d]
        BY <1>0, <2>2 DEF StartCall, At, Undisturbed, TypeOK, PodTypeOK, lifetime
      <2>4. /\ pc'[c] # "idle" /\ released' = released
            /\ \/ op'[c] = "delete" /\ kub' = kub
               \/ /\ attached[v] = at'[c] /\ attached[v] # None
                  /\ kub' = [kub EXCEPT ![v] = "uncertain"]
        <3>1. CASE Publish(c, v) \/ Unpublish(c, v)
          <4>1. /\ attached[v] # None /\ kub' = [kub EXCEPT ![v] = "uncertain"]
                /\ \/ StartCall(c, attached[v], v, "publish", "write_secret")
                   \/ StartCall(c, attached[v], v, "unpublish", "remove_get")
            BY <3>1, Zenon DEF Publish, Unpublish
          <4>2. released' = released
            BY <2>1, Zenon DEF StartStep, DeleteVolume, store
          <4>3. at'[c] = attached[v] /\ pc'[c] # "idle"
            BY <1>0, <4>1 DEF StartCall, TypeOK, PodTypeOK
          <4> QED BY <4>1, <4>2, <4>3, Zenon
        <3>2. CASE DeleteVolume(c, v)
          BY <1>0, <3>2 DEF DeleteVolume, StartCall, TypeOK, PodTypeOK, store
        <3> QED BY <2>1, <3>1, <3>2, Zenon DEF StartStep
      <2>6. waiting' = {d \in Calls : Active(d)'}
        BY <2>3, <2>4 DEF Active
      <2>7. \A w \in Volumes : attached'[w] = None => kub'[w] = "none"
        BY <1>0, <2>3, <2>4
      <2>8. ASSUME NEW d \in Calls, Active(d)', op'[d] # "delete"
            PROVE  attached'[vol'[d]] = at'[d] /\ kub'[vol'[d]] = "uncertain"
        <3>1. CASE d = c
          BY <1>0, <2>3, <2>4, <2>8, <3>1
        <3>2. CASE d # c
          <4>1. Active(d) /\ d \in waiting /\ op[d] # "delete"
            BY <2>3, <2>8, <3>2, Zenon DEF Active
          <4>2. vol[d] # v /\ vol[d] \in Volumes
            BY <2>3, <4>1, Zenon DEF CallInv, CallOK
          <4>3. attached[vol[d]] = at[d] /\ kub[vol[d]] = "uncertain"
            BY <4>1, Zenon
          <4>4. attached'[vol[d]] = attached[vol[d]] /\ kub'[vol[d]] = kub[vol[d]]
            BY <1>0, <2>3, <2>4, <4>2, ZenonT(60)
          <4> QED BY <2>3, <3>2, <4>3, <4>4, Zenon
        <3> QED BY <3>1, <3>2, Zenon
      <2> QED BY <2>3, <2>4, <2>6, <2>7, <2>8, Zenon
    <1>2. ASSUME SameCalls, waiting' = waiting, stopping' = stopping,
                 UNCHANGED <<attached, kub>>,
                 \A v \in released' : attached[v] = None
          PROVE  OneCallAtATime'
      BY <1>2, Zenon DEF SameCalls, call, Active
    <1>3. CASE (\E c \in Calls : GiveUp(c)) \/ (\E p \in Plugins : Shutdown(p))
      BY <1>3, Zenon DEF GiveUp, Shutdown, Breaks, Fails, SerialEnvironment
    <1>4. CASE /\ \/ \E v \in Volumes : ServerStep(v)
                  \/ \E p \in Plugins : Sync(p)
                  \/ Tick
               /\ UNCHANGED <<deletion, store>>
      <2>1. /\ SameCalls /\ waiting' = waiting /\ stopping' = stopping
            /\ UNCHANGED <<attached, kub>> /\ released' = released
        BY <1>4, ClusterCalls, Zenon
        DEF ServerStep, StartServer, StopServer, KillServer, Sync, Tick, calls,
            lifetime, orchestrator, store
      <2> QED BY <1>2, <2>1, Zenon
    <1>5. CASE (\E v \in Volumes : Release(v)) \/ (\E k \in Keys : Store(k))
      <2>1. /\ SameCalls /\ waiting' = waiting /\ stopping' = stopping
            /\ UNCHANGED <<attached, kub>>
            /\ \A v \in released' : attached[v] = None
        BY <1>5, ClusterCalls, Zenon
        DEF Release, Store, podVars, calls, lifetime, orchestrator
      <2> QED BY <1>2, <2>1, Zenon
    <1>6. CASE \E v \in Volumes : MoveStep(v)
      <2>1. PICK v \in Volumes : MoveStep(v)
        BY <1>6, Zenon
      <2>2. /\ SameCalls /\ UNCHANGED <<waiting, stopping, kub, released>>
            /\ v \notin released' \/ attached'[v] = None
            /\ \A d \in waiting : op[d] # "delete" => vol[d] # v
            /\ attached'[v] # None \/ kub[v] = "none"
            /\ \A w \in Volumes \ {v} : attached'[w] = attached[w]
        <3>1. SameCalls
          BY <2>1, ClusterCalls, Zenon DEF MoveStep
        <3>2. CASE Detach(v)
          BY <1>0, <2>1, <3>1, <3>2, ZenonT(60)
          DEF Detach, MoveStep, Undisturbed, calls, lifetime, store
        <3>3. CASE \E n \in Nodes : v \notin released /\ Attach(v, n)
          <4>1. \A d \in waiting : op[d] # "delete" => attached[vol[d]] # None
            BY NoneAssumption, Zenon DEF CallInv, CallOK, Plugins
          <4>2. PICK n \in Nodes : v \notin released /\ Attach(v, n)
            BY <3>3, Zenon
          <4>3. /\ attached[v] = None /\ attached' = [attached EXCEPT ![v] = n]
                /\ UNCHANGED <<waiting, stopping, kub, released>>
            BY <2>1, <4>2, Zenon DEF Attach, MoveStep, calls, lifetime, store
          <4>4. n # None
            BY NoneAssumption, Zenon DEF Plugins
          <4>5. /\ attached'[v] = n
                /\ \A w \in Volumes \ {v} : attached'[w] = attached[w]
            BY <1>0, <4>3, ZenonT(60)
          <4> QED BY <3>1, <4>1, <4>2, <4>3, <4>4, <4>5, Zenon
        <3> QED BY <2>1, <3>2, <3>3, Zenon DEF MoveStep
      <2>3. \A d \in Calls : Active(d) => vol[d] \in Volumes
        BY Zenon DEF CallInv, CallOK
      <2>4. released \subseteq Volumes
        BY <1>0, Zenon DEF TypeOK
      <2> QED BY <2>2, <2>3, <2>4 DEF SameCalls, call, Active
    <1>7. CASE \E p \in Plugins : RestartPlugin(p)
      <2>1. PICK p \in Plugins : RestartPlugin(p)
        BY <1>7, Zenon
      <2>2. /\ stopping' = {}
            /\ UNCHANGED <<attached, kub, released>>
            /\ \A d \in Calls : Returns(d) \/ Untouched(d)
            /\ waiting' \subseteq Calls
        <3>1. stopping' = {}
          BY <2>1, Zenon DEF RestartPlugin, Restart
        <3>2. waiting' \subseteq Calls
          BY <1>0, <2>1, RestartFacts, Zenon DEF TypeOK, PodTypeOK
        <3> QED BY <1>0, <2>1, <3>1, <3>2, RestartFacts, Zenon DEF store
      <2>3. \A d \in Calls : d \in waiting' <=> Active(d)'
        BY <2>2 DEF Returns, Untouched, Active
      <2>4. waiting' = {d \in Calls : Active(d)'}
        BY <2>2, <2>3, Zenon
      <2> QED BY <2>2, <2>4 DEF Returns, Untouched, Active
    <1>8. CASE UNCHANGED vars
      <2>1. /\ SameCalls /\ waiting' = waiting /\ stopping' = stopping
            /\ UNCHANGED <<attached, kub>> /\ released' = released
        BY <1>8, Zenon DEF SameCalls, vars, podVars, calls, lifetime, orchestrator, store
      <2> QED BY <1>2, <2>1, Zenon
    <1> QED
      <2>1. CASE Next
        BY <1>1, <1>3, <1>4, <1>5, <1>6, <1>7, <2>1, NextSteps, CallStepOne, Zenon
        DEF ServerStep
      <2> QED BY <1>8, <2>1, Zenon

-----------------------------------------------------------------------------
(* The pods.                                                               *)

Creates(c) ==
    /\ pc[c] = "create_pod" /\ pc'[c] = "await_ready"
    /\ pods[vol[c]] = None /\ dying' = dying
    /\ pods' = [pods EXCEPT ![vol[c]] = [node |-> at[c], ready |-> FALSE,
                                        terminating |-> FALSE]]

Deletes(c) ==
    /\ \/ pc[c] = "replace_pod" /\ pc'[c] = "await_replaced"
       \/ pc[c] = "remove_pod" /\ pc'[c] = "await_removed"
    /\ pods[vol[c]] # None /\ dying' = dying
    /\ Terminate(vol[c])

\* What a step of a call does to its pod, and where it goes.
LEMMA PodEffects ==
    ASSUME TypeOK, NEW c \in Calls, CallOK(c), CallStep(c)
    PROVE  /\ Active(c) /\ vol[c] \in Volumes
           /\ \/ UNCHANGED <<pods, dying>> /\ pc'[c] # "await_removed"
              \/ Creates(c) \/ Deletes(c) \/ pc[c] = "force_pod"
           /\ pc'[c] = "force_pod" => pc[c] = "await_removed" /\ NotSeenGone(c)
           /\ pc'[c] = "await_forced" => pc[c] = "force_pod"
    <1>1. \A label : Goto(c, label) => pc'[c] = label
      BY GotoMoves, Zenon
    <1>2. /\ \A status : Reply(c, status) => pc'[c] = "idle"
          /\ \A success : Answer(c, success) => pc'[c] = "idle"
      BY DoneReturns, Zenon DEF Reply, Answer, Returns
    <1>3. Active(c) /\ vol[c] \in Volumes
      BY Zenon DEF CallStep, CreatePod, RemovePod, DeleteStep, WriteSecret, GetPod,
             CreateApiPod, ReplacePod, AwaitReplaced, AwaitReady, RemoveGet,
             RemoveApiPod, AwaitRemoved, ForcePod, AwaitForced, RemoveSecret,
             AwaitGone, Resolve, ListPage, DeletePage, At, Active, CallOK
    <1>4. CASE CreateApiPod(c)
      BY <1>1, <1>3, <1>4, Zenon DEF CreateApiPod, CreateFails, Creates, At
    <1>5. CASE ReplacePod(c)
      BY <1>1, <1>3, <1>5, Zenon DEF ReplacePod, CreateFails, Deletes, At
    <1>6. PodRemoved(c) => pc'[c] \in {"idle", "await_gone", "resolve"}
      BY <1>1, <1>2, Zenon DEF PodRemoved
    <1>7. CASE RemoveApiPod(c)
      BY <1>1, <1>3, <1>6, <1>7, Zenon DEF RemoveApiPod, Deletes, At
    <1>8. CASE \/ WriteSecret(c) \/ GetPod(c) \/ AwaitReplaced(c) \/ AwaitReady(c)
      BY <1>1, <1>2, <1>3, <1>8, Zenon
      DEF WriteSecret, GetPod, AwaitReplaced, AwaitReady, CreateFails, api
    <1>9. CASE \/ RemoveGet(c) \/ AwaitRemoved(c) \/ ForcePod(c) \/ AwaitForced(c)
               \/ RemoveSecret(c) \/ AwaitGone(c)
      BY <1>1, <1>2, <1>3, <1>6, <1>9, Zenon
      DEF RemoveGet, AwaitRemoved, ForcePod, AwaitForced, RemoveSecret, AwaitGone,
          At, api
    <1>10. CASE DeleteStep(c)
      BY <1>1, <1>2, <1>3, <1>10, Zenon DEF DeleteStep, Resolve, ListPage, DeletePage, api
    <1> QED
      BY <1>4, <1>5, <1>7, <1>8, <1>9, <1>10, Zenon DEF CallStep, CreatePod, RemovePod

\* In the serial environment a step of a call leaves the other volumes alone,
\* and every other active call is for one of those.
LEMMA SerialCalls ==
    ASSUME CallInv, OneCallAtATime, NothingForced, NEW c \in Calls, CallStep(c)
    PROVE  /\ TypeOK /\ CallOK(c) /\ CallFacts(c)
           /\ Active(c) /\ vol[c] \in Volumes
           /\ \/ UNCHANGED <<pods, dying>> /\ pc'[c] # "await_removed"
              \/ Creates(c) \/ Deletes(c)
           /\ \A v \in Volumes \ {vol[c]} :
                 pods'[v] = pods[v] /\ dying'[v] = dying[v]
           /\ \A d \in Calls \ {c} : Active(d) =>
                 vol[d] \in Volumes /\ vol[d] # vol[c]
    <1>1. /\ TypeOK /\ CallOK(c) /\ CallFacts(c) /\ Active(c) /\ vol[c] \in Volumes
          /\ \/ UNCHANGED <<pods, dying>> /\ pc'[c] # "await_removed"
             \/ Creates(c) \/ Deletes(c)
      BY PodEffects, CallStepFacts, Zenon DEF CallInv, NothingForced
    <1>2. \A v \in Volumes \ {vol[c]} : pods'[v] = pods[v] /\ dying'[v] = dying[v]
      BY <1>1, TerminatePod, ZenonT(60) DEF Creates, Deletes, TypeOK, PodTypeOK
    <1>3. \A d \in Calls \ {c} : Active(d) => vol[d] \in Volumes /\ vol[d] # vol[c]
      BY <1>1, Zenon DEF CallInv, OneCallAtATime, CallOK
    <1> QED BY <1>1, <1>2, <1>3, Zenon

\* A step of a call keeps NothingForced: no wait for a deletion is over.
LEMMA CallStepForced ==
    ASSUME SerialEnvironment, CallInv, OneCallAtATime, NothingForced,
           NEW c \in Calls, CallStep(c)
    PROVE  NothingForced'
    <1>1. /\ TypeOK /\ CallOK(c) /\ CallFacts(c) /\ Active(c) /\ vol[c] \in Volumes
          /\ \/ UNCHANGED <<pods, dying>> /\ pc'[c] # "await_removed"
             \/ Creates(c) \/ Deletes(c)
          /\ \A v \in Volumes \ {vol[c]} :
                pods'[v] = pods[v] /\ dying'[v] = dying[v]
          /\ \A d \in Calls \ {c} : Active(d) =>
                vol[d] \in Volumes /\ vol[d] # vol[c]
      BY SerialCalls, Zenon
    <1>2. dying \in [Volumes -> {0, 15, 30, 45, 60}] /\ dying' = dying
      BY <1>1, Zenon DEF Creates, Deletes, TypeOK, PodTypeOK, GracePeriod
    <1>3. /\ Deletes(c) => pods'[vol[c]] # None /\ pods'[vol[c]].terminating
                           /\ pods'[vol[c]].node = pods[vol[c]].node
          /\ Creates(c) => dying[vol[c]] = 0 /\ pods[vol[c]] = None
          /\ ~Creates(c) /\ ~Deletes(c) => pods' = pods
      BY <1>1, <1>2, TerminatePod, SMTT(30)
      DEF Deletes, Creates, NothingForced, Terminating
    <1>4. \A v \in Volumes : dying'[v] <= 30 /\ (dying'[v] > 0 => v \in Terminating')
      BY <1>1, <1>2, <1>3, SMTT(30) DEF NothingForced, Terminating
    <1>5. ASSUME NEW d \in Calls \ {c}
          PROVE  /\ pc'[d] \notin {"force_pod", "await_forced"}
                 /\ pc'[d] = "await_removed" =>
                       \/ pods'[vol'[d]] = None /\ waited'[d] <= 30
                       \/ vol'[d] \in Terminating' /\ waited'[d] <= dying'[vol'[d]]
      <2>1. /\ pc'[d] = pc[d] /\ vol'[d] = vol[d] /\ waited'[d] = waited[d]
            /\ pc[d] = "await_removed" => /\ vol[d] \in Volumes
                                          /\ pods'[vol[d]] = pods[vol[d]]
        BY <1>1, Zenon DEF CallFacts, Untouched, Active
      <2> QED BY <1>2, <2>1, Zenon DEF NothingForced, Terminating
    <1>6. /\ pc'[c] \notin {"force_pod", "await_forced"}
          /\ pc'[c] = "await_removed" =>
                \/ pods'[vol'[c]] = None /\ waited'[c] <= 30
                \/ vol'[c] \in Terminating' /\ waited'[c] <= dying'[vol'[c]]
      <2>1. pc'[c] # "await_forced"
        BY <1>1, PodEffects, Zenon DEF NothingForced
      <2>2. pc'[c] # "force_pod"
        <3>1. pc[c] = "await_removed" => ~NotSeenGone(c)
          <4>1. pc[c] = "await_removed" => waited[c] <= 30 /\ WaitLimit[pc[c]] = 45
            BY <1>1, <1>2 DEF NothingForced, WaitLimit, RemoveWait, TypeOK, PodTypeOK
          <4>2. stopping = {} /\ waited[c] \in Nat
            BY <1>1, Zenon DEF OneCallAtATime, TypeOK, PodTypeOK
          <4> QED
            BY <4>1, <4>2 DEF NotSeenGone, Expired, Fails, SerialEnvironment
        <3> QED BY <1>1, <3>1, PodEffects, Zenon
      <2>3. ASSUME pc'[c] = "await_removed"
            PROVE  vol'[c] \in Terminating' /\ waited'[c] <= dying'[vol'[c]]
        <3>1. Deletes(c) /\ vol'[c] = vol[c] /\ waited'[c] = 0
          BY <1>1, <2>3, Zenon DEF Creates, CallFacts, Moves, Returns
        <3> QED BY <1>1, <1>2, <1>3, <3>1 DEF Terminating
      <2> QED BY <2>1, <2>2, <2>3, Zenon
    <1>7. ASSUME NEW v \in Volumes, NEW n \in Nodes, <<v, n>> \in running'
          PROVE  pods'[v] # None /\ pods'[v].node = n
      <2>1. pods[v] # None /\ pods[v].node = n
        BY <1>1, <1>7, Zenon DEF CallFacts, Around, NothingForced
      <2> QED BY <1>1, <1>3, <2>1, Zenon
    <1> QED BY <1>4, <1>5, <1>6, <1>7, Zenon DEF NothingForced

\* Time does not run out for a kubelet that stops a server within 30 seconds.
LEMMA TickForced ==
    ASSUME SerialEnvironment, CallInv, NothingForced, Tick
    PROVE  NothingForced'
    <1>1. TypeOK /\ UNCHANGED <<pods, running, pc, vol>>
      BY Zenon DEF CallInv, Tick, call
    <1>2. /\ dying \in [Volumes -> {0, 15, 30, 45, 60}]
          /\ waited \in [Calls -> Nat]
          /\ StopTime \in Int /\ StopTime <= 30
      BY <1>1, TimeAssumption DEF TypeOK, PodTypeOK, GracePeriod, SerialEnvironment
    <1>3. /\ \A v \in Terminating : dying[v] < StopTime
          /\ dying' = [v \in Volumes |-> IF v \in Terminating /\ dying[v] < 60
                                         THEN dying[v] + 15 ELSE dying[v]]
      BY Zenon DEF Tick, Fails, SerialEnvironment, GracePeriod
    <1>4. Terminating' = Terminating /\ Terminating \subseteq Volumes
      BY <1>1, Zenon DEF Terminating
    <1>5. \A v \in Volumes : dying'[v] <= 30 /\ (dying'[v] > 0 => v \in Terminating')
      BY <1>2, <1>3, <1>4 DEF NothingForced
    <1>6. ASSUME NEW c \in Calls, pc'[c] = "await_removed"
          PROVE  vol'[c] \in Terminating' /\ waited'[c] <= dying'[vol'[c]]
      <2>1. c \in Waits /\ ~Awaited(c)
        BY <1>1, <1>6, Zenon DEF Tick, Waits, WaitLimit
      <2>2. vol[c] \in Terminating /\ waited[c] <= dying[vol[c]]
        BY <1>1, <1>6, <2>1, Zenon DEF Awaited, At, NothingForced
      <2>3. waited'[c] = waited[c] + 15 /\ dying'[vol[c]] = dying[vol[c]] + 15
        BY <1>2, <1>3, <1>4, <2>1, <2>2 DEF Tick
      <2> QED BY <1>1, <1>2, <1>4, <2>2, <2>3
    <1> QED BY <1>1, <1>5, <1>6, Zenon DEF NothingForced

\* Every step keeps NothingForced.
LEMMA ForcedStep ==
    ASSUME SerialEnvironment, CallInv, OneCallAtATime, NothingForced, [Next]_vars
    PROVE  NothingForced'
    <1>0. TypeOK
      BY Zenon DEF CallInv
    <1>1. ASSUME UNCHANGED <<pods, dying, running>>,
                 \A c \in Calls : pc'[c] \in {"force_pod", "await_forced", "await_removed"} =>
                     pc'[c] = pc[c] /\ vol'[c] = vol[c] /\ waited'[c] = waited[c]
          PROVE  NothingForced'
      BY <1>1, ZenonT(60) DEF NothingForced, Terminating
    <1>2. CASE \E c \in Calls, v \in Volumes : StartStep(c, v)
      <2>1. PICK c \in Calls, v \in Volumes : StartStep(c, v)
        BY <1>2, Zenon
      <2>2. PICK label \in {"write_secret", "remove_get"} :
                \E plugin, operation : StartCall(c, plugin, v, operation, label)
        BY <2>1, Zenon DEF StartStep, Publish, Unpublish, DeleteVolume
      <2>3. /\ UNCHANGED <<pods, dying, running, waited>>
            /\ pc' = [pc EXCEPT ![c] = label] /\ vol' = [vol EXCEPT ![c] = v]
        BY <2>2, Zenon DEF StartCall, api
      <2> QED BY <1>0, <1>1, <2>2, <2>3, Zenon DEF TypeOK, PodTypeOK
    <1>3. CASE \/ \E c \in Calls : GiveUp(c)
               \/ \E v \in Volumes : MoveStep(v) \/ Release(v)
               \/ \E p \in Plugins : Sync(p) \/ Shutdown(p)
               \/ \E k \in Keys : Store(k)
               \/ UNCHANGED vars
      <2>1. UNCHANGED <<pods, dying, running, pc, vol, waited>>
        BY <1>3, Zenon DEF GiveUp, MoveStep, Attach, Detach, Release, Sync, Shutdown, Store,
                    vars, podVars, calls, call, api
      <2> QED BY <1>1, <2>1, Zenon
    <1>4. CASE \E p \in Plugins : RestartPlugin(p)
      BY <1>0, <1>1, <1>4, RestartFacts, Zenon DEF Returns, Untouched
    <1>5. CASE \E v \in Volumes : ServerStep(v)
      <2>1. PICK v \in Volumes : ServerStep(v)
        BY <1>5, Zenon
      <2>2. UNCHANGED <<pc, vol, waited>>
        BY <2>1, Zenon DEF ServerStep, StartServer, StopServer, KillServer, calls, call
      <2>3. CASE \E n \in Nodes : KillServer(v, n)
        BY <2>2, <2>3, Zenon DEF KillServer, NothingForced, Terminating, api
      <2>4. CASE StopServer(v)
        <3>1. /\ \A w \in Volumes : pods'[w] = IF w = v THEN None ELSE pods[w]
              /\ \A w \in Volumes : dying'[w] = IF w = v THEN 0 ELSE dying[w]
              /\ running' = running \ {<<v, pods[v].node>>}
          BY <1>0, <2>4, Zenon DEF StopServer, RemoveObject, TypeOK, PodTypeOK
        <3>2. \A c \in Calls : pc[c] = "await_removed" =>
                  vol[c] \in Volumes /\ waited[c] \in Nat /\ dying[vol[c]] \in Nat
          <4>1. \A c \in Calls : pc[c] = "await_removed" => vol[c] \in Volumes
            BY DEF CallInv, CallOK, Active
          <4>2. waited \in [Calls -> Nat] /\ dying \in [Volumes -> {0, 15, 30, 45, 60}]
            BY <1>0, Zenon DEF TypeOK, PodTypeOK, GracePeriod
          <4> QED BY <4>1, <4>2
        <3>3. ASSUME NEW c \in Calls, pc[c] = "await_removed"
              PROVE  waited[c] <= 30
          <4>1. vol[c] \in Volumes /\ waited[c] \in Nat /\ dying[vol[c]] \in Nat
            BY <3>2, <3>3, Zenon
          <4>2. dying[vol[c]] <= 30
            BY <4>1, Zenon DEF NothingForced
          <4>3. waited[c] <= 30 \/ waited[c] <= dying[vol[c]]
            BY <3>3, Zenon DEF NothingForced
          <4> QED BY <4>1, <4>2, <4>3
        <3> QED BY <2>2, <3>1, <3>2, <3>3 DEF NothingForced, Terminating
      <2>5. CASE StartServer(v)
        <3>1. /\ pods[v] # None /\ ~pods[v].terminating /\ dying' = dying
              /\ running' = running \cup {<<v, pods[v].node>>}
              /\ pods'[v] # None /\ pods'[v].node = pods[v].node
              /\ pods'[v].terminating = pods[v].terminating
              /\ \A w \in Volumes \ {v} : pods'[w] = pods[w]
          BY <1>0, <2>5, ReadyPod
        <3>2. Terminating' = Terminating
          BY <3>1 DEF Terminating
        <3>3. \A c \in Calls : pc[c] = "await_removed" /\ pods[vol[c]] = None =>
                  vol[c] \in Volumes /\ pods'[vol[c]] = None
          BY <3>1 DEF CallInv, CallOK, Active
        <3> QED BY <2>2, <3>1, <3>2, <3>3 DEF NothingForced
      <2> QED BY <2>1, <2>3, <2>4, <2>5, Zenon DEF ServerStep
    <1> QED
      <2>1. CASE Next
        BY <1>2, <1>3, <1>4, <1>5, <2>1, NextSteps, CallStepForced, TickForced, Zenon
      <2> QED BY <1>3, <2>1, Zenon

-----------------------------------------------------------------------------
(* The caches.                                                             *)

\* When a call leaves a wait, it has seen the pod or its time is over; the
\* kubelet takes a volume for unpublished only after the last one.
LEMMA WaitsEnd ==
    ASSUME TypeOK, NEW c \in Calls, CallOK(c), CallStep(c)
    PROVE  /\ pc[c] = "await_ready" => PodReady(c) \/ Expired(c)
           /\ kub' # kub /\ kub'[vol[c]] = "none" =>
                 /\ pc[c] = "await_gone" /\ pods' = pods
                 /\ PodGone(c) \/ NotSeenGone(c)
    <1> USE DEF At
    <1>1. \A label : Goto(c, label) => kub' = kub
      BY Zenon DEF Goto, orchestrator
    <1>2. \A status \in {"uncertain", "published"} :
              Reply(c, status) => kub' = kub \/ kub'[vol[c]] # "none"
      BY DEF Reply, TypeOK, PodTypeOK
    <1>3. CASE CreatePod(c)
      BY <1>1, <1>2, <1>3, Zenon
      DEF CreatePod, WriteSecret, GetPod, CreateApiPod, ReplacePod, AwaitReplaced,
          AwaitReady, CreateFails
    <1>4. PodRemoved(c) => kub' = kub \/ kub'[vol[c]] # "none"
      BY <1>1, <1>2, Zenon DEF PodRemoved
    <1>5. CASE AwaitGone(c)
      BY <1>5, Zenon DEF AwaitGone, api
    <1>6. CASE RemovePod(c) /\ ~AwaitGone(c)
      BY <1>1, <1>4, <1>6, Zenon
      DEF RemovePod, RemoveGet, RemoveApiPod, AwaitRemoved, ForcePod, AwaitForced,
          RemoveSecret
    <1>7. CASE DeleteStep(c)
      BY <1>1, <1>7, Zenon DEF DeleteStep, Resolve, ListPage, DeletePage, Answer
    <1> QED BY <1>3, <1>5, <1>6, <1>7, Zenon DEF CallStep

\* A step of a call keeps RemoversInformed.
LEMMA CallStepInformed ==
    ASSUME SerialEnvironment, CallInv, OneCallAtATime, NothingForced,
           RemoversInformed, NEW c \in Calls, CallStep(c)
    PROVE  RemoversInformed'
    <1>1. /\ TypeOK /\ CallOK(c) /\ CallFacts(c) /\ Active(c) /\ vol[c] \in Volumes
          /\ \/ UNCHANGED <<pods, dying>> /\ pc'[c] # "await_removed"
             \/ Creates(c) \/ Deletes(c)
          /\ \A v \in Volumes \ {vol[c]} :
                pods'[v] = pods[v] /\ dying'[v] = dying[v]
          /\ \A d \in Calls \ {c} : Active(d) =>
                vol[d] \in Volumes /\ vol[d] # vol[c]
      BY SerialCalls, Zenon
    <1>2. UNCHANGED <<cache, attached>> /\ \A d \in Calls \ {c} : Untouched(d)
      BY <1>1, Zenon DEF CallFacts, Around
    <1>3. \A v \in Volumes : pods'[v] # None => pods[v] # None \/ (v = vol[c] /\ Creates(c))
      BY <1>1, Zenon DEF Deletes
    <1>4. stopping = {} /\ waited[c] \in Nat /\ ReadyWait > 0 /\ ReadyWait \in Nat
          /\ "read" \notin Faults
      BY <1>1, TimeAssumption
      DEF OneCallAtATime, TypeOK, PodTypeOK, SerialEnvironment, ReadyWait,
          podReadyTimeout
    <1>5. op[c] = "delete" => attached[vol[c]] = None
      BY Zenon DEF CallInv, PageOK, OneCallAtATime
    <1>6. op[c] # "delete" => attached[vol[c]] = at[c] /\ kub[vol[c]] = "uncertain"
      BY <1>1, Zenon DEF OneCallAtATime
    <1>7. ASSUME NEW v \in Volumes
          PROVE  \/ attached'[v] = None \/ Sees(attached[v], v)'
                 \/ \E d \in Calls :
                       vol'[d] = v /\ pc'[d] = "await_ready" /\ waited'[d] = 0
      <2>1. CASE v # vol[c]
        <3>1. pods'[v] = pods[v] /\ attached'[v] = attached[v] /\ cache' = cache
          BY <1>1, <1>2, <2>1, Zenon
        <3>2. CASE attached[v] = None \/ Sees(attached[v], v)
          BY <3>1, <3>2, Zenon DEF Sees
        <3>3. CASE \E d \in Calls :
                       vol[d] = v /\ pc[d] = "await_ready" /\ waited[d] = 0
          BY <1>2, <2>1, <3>3, Zenon DEF Untouched
        <3> QED BY <3>2, <3>3, Zenon DEF RemoversInformed
      <2>2. CASE v = vol[c] /\ Creates(c)
        <3>1. vol'[c] = v /\ pc'[c] = "await_ready" /\ waited'[c] = 0
          BY <1>1, <2>2, Zenon DEF Creates, CallFacts, Moves, Returns
        <3> QED BY <3>1, Zenon
      <2>3. CASE v = vol[c] /\ ~Creates(c) /\ op[c] # "delete"
        <3>1. CASE Sees(at[c], v)
          BY <1>2, <1>3, <1>6, <2>3, <3>1, Zenon DEF Sees
        <3>2. CASE ~Sees(at[c], v)
          <4>1. PICK d \in Calls : vol[d] = v /\ pc[d] = "await_ready" /\ waited[d] = 0
            <5>1. attached[v] = at[c] /\ at[c] # None
              BY <1>1, <1>6, <2>3, NoneAssumption, Zenon DEF CallOK, Plugins
            <5> QED BY <2>3, <3>2, <5>1, Zenon DEF RemoversInformed
          <4>2. d = c
            BY <1>1, <2>3, <4>1, Zenon DEF Active
          <4>3. PodReady(c)
            <5>1. PodReady(c) \/ Expired(c)
              BY <1>1, <4>1, <4>2, WaitsEnd, Zenon
            <5>2. ~Expired(c)
              <6>1. WaitLimit[pc[c]] = ReadyWait /\ waited[c] = 0
                BY <4>1, <4>2 DEF WaitLimit
              <6>2. Expired(c) => waited[c] >= WaitLimit[pc[c]]
                BY <1>4, Zenon DEF Expired
              <6> QED BY <1>4, <6>1, <6>2, SMTT(30)
            <5> QED BY <5>1, <5>2, Zenon
          <4> QED BY <2>3, <3>2, <4>3, Zenon DEF PodReady, Cached, Sees
        <3> QED BY <3>1, <3>2, Zenon
      <2> QED BY <1>2, <1>5, <2>1, <2>2, <2>3, Zenon
    <1>8. ASSUME NEW v \in Volumes, kub'[v] = "none" PROVE Sees(Controller, v)'
      <2>1. CASE kub[v] = "none"
        <3>1. pods'[v] # None => pods[v] # None
          <4>1. Creates(c) => op[c] = "publish"
            BY <1>1, Zenon DEF Creates, CallOK, CreateLabels
          <4> QED BY <1>3, <1>6, <2>1, <4>1, Zenon
        <3> QED BY <1>2, <2>1, <3>1, Zenon DEF RemoversInformed, Sees
      <2>2. CASE kub[v] # "none"
        <3>1. v = vol[c]
          BY <1>1, <1>8, <2>2, Zenon DEF CallFacts
        <3>2. /\ pc[c] = "await_gone" /\ pods' = pods
              /\ PodGone(c) \/ NotSeenGone(c)
          BY <1>1, <1>8, <2>2, <3>1, WaitsEnd, Zenon
        <3>3. CASE PodGone(c)
          <4>1. op[c] = "unpublish"
            BY <1>1, <3>2, Zenon DEF CallOK
          <4>2. Sees(at[c], v)
            <5>1. attached[v] = at[c] /\ at[c] # None
              BY <1>1, <1>6, <3>1, <4>1, NoneAssumption, Zenon DEF CallOK, Plugins
            <5>2. ~\E d \in Calls : vol[d] = v /\ pc[d] = "await_ready"
              BY <1>1, <3>1, <3>2, Zenon DEF Active
            <5> QED BY <5>1, <5>2, Zenon DEF RemoversInformed
          <4> QED BY <3>1, <3>2, <3>3, <4>2, Zenon DEF Sees, PodGone, Cached
        <3>4. CASE NotSeenGone(c)
          <4>1. waited[c] # 0
            <5>1. WaitLimit[pc[c]] = 30
              BY <3>2 DEF WaitLimit, GoneWait
            <5>2. waited[c] >= WaitLimit[pc[c]]
              BY <1>4, <3>4, Zenon DEF NotSeenGone, Expired, Fails
            <5> QED BY <1>4, <5>1, <5>2, SMTT(30)
          <4> QED BY <1>2, <3>1, <3>2, <4>1, Zenon DEF RemoversInformed, Sees
        <3> QED BY <3>2, <3>3, <3>4, Zenon
      <2> QED BY <2>1, <2>2, Zenon
    <1>9. ASSUME NEW d \in Calls, pc'[d] = "await_gone", waited'[d] # 0
          PROVE  Sees(Controller, vol[d])' /\ vol'[d] = vol[d]
      <2>1. d # c
        BY <1>1, <1>9, Zenon DEF CallFacts, Moves, Returns
      <2>2. /\ pc[d] = "await_gone" /\ vol'[d] = vol[d] /\ waited[d] # 0
            /\ vol[d] \in Volumes /\ pods'[vol[d]] = pods[vol[d]]
        BY <1>1, <1>2, <1>9, <2>1, ZenonT(30) DEF Untouched, Active
      <2> QED BY <1>2, <2>2, Zenon DEF RemoversInformed, Sees
    <1> QED BY <1>2, <1>7, <1>8, <1>9, Zenon DEF RemoversInformed, Sees

\* Every step keeps RemoversInformed.
LEMMA InformedStep ==
    ASSUME SerialEnvironment, CallInv, OneCallAtATime, NothingForced,
           RemoversInformed, [Next]_vars
    PROVE  RemoversInformed'
    <1>0. TypeOK /\ \A c \in Calls : Active(c) => vol[c] \in Volumes
      BY Zenon DEF CallInv, CallOK
    <1>1. ASSUME UNCHANGED <<cache, attached, kub, pc, vol, waited>>,
                 \A v \in Volumes : pods'[v] # None => pods[v] # None
          PROVE  RemoversInformed'
      <2>1. \A c \in Calls : pc[c] = "await_gone" => vol[c] \in Volumes
        BY <1>0, Zenon DEF Active
      <2> QED BY <1>1, <2>1, Zenon DEF RemoversInformed, Sees
    <1>2. CASE \/ \E c \in Calls : GiveUp(c)
               \/ \E v \in Volumes : Release(v)
               \/ \E p \in Plugins : Shutdown(p)
               \/ \E k \in Keys : Store(k)
               \/ UNCHANGED vars
      <2>1. UNCHANGED <<pods, cache, attached, kub, pc, vol, waited>>
        BY <1>2, Zenon DEF GiveUp, Release, Shutdown, Store, vars, podVars, calls, call,
                    api, orchestrator
      <2> QED BY <1>1, <2>1, Zenon
    <1>3. CASE \E v \in Volumes : ServerStep(v)
      <2>1. PICK v \in Volumes : ServerStep(v)
        BY <1>3, Zenon
      <2>2. UNCHANGED <<cache, attached, kub, pc, vol, waited>>
        BY <2>1, Zenon DEF ServerStep, StartServer, StopServer, KillServer, calls, call,
                    orchestrator
      <2>3. \A w \in Volumes : pods'[w] # None => pods[w] # None
        BY <1>0, <2>1, Zenon DEF ServerStep, StartServer, StopServer, KillServer,
                          RemoveObject, TypeOK, PodTypeOK, api
      <2> QED BY <1>1, <2>2, <2>3, Zenon
    <1>4. CASE \E c \in Calls, v \in Volumes : StartStep(c, v)
      <2>1. PICK c \in Calls, v \in Volumes : StartStep(c, v)
        BY <1>4, Zenon
      <2>2. PICK label \in {"write_secret", "remove_get"} :
                \E plugin, operation : StartCall(c, plugin, v, operation, label)
        BY <2>1, Zenon DEF StartStep, Publish, Unpublish, DeleteVolume
      <2>3. /\ UNCHANGED <<pods, cache, attached, waited>> /\ pc[c] = "idle"
            /\ pc' = [pc EXCEPT ![c] = label] /\ vol' = [vol EXCEPT ![c] = v]
        BY <2>2, Zenon DEF StartCall, api, At
      <2>4. \A w \in Volumes : kub'[w] = "none" => kub[w] = "none"
        BY <1>0, <2>1, Zenon
        DEF StartStep, Publish, Unpublish, DeleteVolume, TypeOK, PodTypeOK
      <2>5. /\ pc'[c] \notin {"await_ready", "await_gone"}
            /\ \A d \in Calls \ {c} : pc'[d] = pc[d] /\ vol'[d] = vol[d]
        BY <1>0, <2>2, <2>3, ZenonT(60) DEF TypeOK, PodTypeOK
      <2> QED BY <2>3, <2>4, <2>5, SMTT(30) DEF RemoversInformed, Sees
    <1>5. CASE \E v \in Volumes : MoveStep(v)
      <2>1. PICK v \in Volumes : MoveStep(v)
        BY <1>5, Zenon
      <2>2. UNCHANGED <<pods, cache, kub, pc, vol, waited>>
        BY <2>1, Zenon DEF MoveStep, Attach, Detach, calls, call, api
      <2>3. /\ attached'[v] = None \/ Sees(attached'[v], v)
            /\ \A w \in Volumes \ {v} : attached'[w] = attached[w]
        BY <1>0, <2>1, Zenon DEF MoveStep, Attach, Detach, Sees, TypeOK, PodTypeOK
      <2>4. \A w \in Volumes : attached'[w] = None \/ Sees(attached'[w], w) \/
                \E c \in Calls : vol[c] = w /\ pc[c] = "await_ready" /\ waited[c] = 0
        BY <2>3, Zenon DEF RemoversInformed
      <2> QED BY <2>2, <2>4, Zenon DEF RemoversInformed, Sees
    <1>6. CASE \E p \in Plugins : Sync(p)
      <2>1. PICK p \in Plugins : Sync(p)
        BY <1>6, Zenon
      <2>2. UNCHANGED <<pods, attached, kub, pc, vol, waited>>
        BY <2>1, Zenon DEF Sync, calls, call, api, orchestrator
      <2>3. \A q \in Plugins : cache'[q] = IF q = p THEN pods ELSE cache[q]
        BY <1>0, <2>1, Zenon DEF Sync, TypeOK, PodTypeOK
      <2>4. \A v \in Volumes : attached[v] \in Plugins \cup {None}
        BY <1>0, Zenon DEF TypeOK, PodTypeOK, Plugins
      <2>5. Controller \in Plugins
        BY Zenon DEF Plugins
      <2> QED BY <2>2, <2>3, <2>4, <2>5 DEF RemoversInformed, Sees
    <1>7. CASE Tick
      <2>1. UNCHANGED <<pods, attached, kub, pc, vol>>
        BY <1>7, Zenon DEF Tick, call, orchestrator
      <2>2. \A q \in Plugins : cache'[q] = pods
        BY <1>7, Zenon DEF Tick
      <2>3. \A v \in Volumes : attached[v] \in Plugins \cup {None}
        BY <1>0, Zenon DEF TypeOK, PodTypeOK, Plugins
      <2>4. Controller \in Plugins
        BY Zenon DEF Plugins
      <2> QED BY <2>1, <2>2, <2>3, <2>4, Zenon DEF RemoversInformed, Sees
    <1>8. CASE \E p \in Plugins : RestartPlugin(p)
      <2>1. PICK p \in Plugins : RestartPlugin(p)
        BY <1>8, Zenon
      <2>2. UNCHANGED <<pods, attached, kub>>
        BY <1>0, <2>1, RestartFacts, Zenon
      <2>3. \A q \in Plugins : cache'[q] = IF q = p THEN pods ELSE cache[q]
        <3>1. cache' = [cache EXCEPT ![p] = pods]
          BY <1>0, <2>1, RestartFacts, Zenon
        <3> QED BY <1>0, <3>1, Zenon DEF TypeOK, PodTypeOK
      <2>4. \A d \in Calls : IF at[d] = p THEN Returns(d) ELSE Untouched(d)
        BY <1>0, <2>1, RestartFacts, Zenon
      <2>5. \A v \in Volumes : attached[v] \in Plugins \cup {None}
        BY <1>0, Zenon DEF TypeOK, PodTypeOK, Plugins
      <2>6. Controller \in Plugins
        BY Zenon DEF Plugins
      <2>7. ASSUME NEW v \in Volumes
            PROVE  \/ attached[v] = None \/ Sees(attached[v], v)'
                   \/ \E d \in Calls :
                         vol'[d] = v /\ pc'[d] = "await_ready" /\ waited'[d] = 0
        <3>1. CASE attached[v] = None \/ Sees(attached[v], v)
          BY <2>2, <2>3, <2>5, <3>1, Zenon DEF Sees
        <3>2. CASE \E d \in Calls :
                       vol[d] = v /\ pc[d] = "await_ready" /\ waited[d] = 0
          <4>1. PICK d \in Calls :
                    vol[d] = v /\ pc[d] = "await_ready" /\ waited[d] = 0
            BY <3>2, Zenon
          <4>2. attached[v] = at[d]
            BY <4>1, Zenon DEF CallInv, CallOK, Active, CreateLabels, OneCallAtATime
          <4>3. CASE at[d] = p
            BY <2>1, <2>2, <2>3, <4>2, <4>3, Zenon DEF Sees
          <4>4. CASE at[d] # p
            BY <2>4, <4>1, <4>4, Zenon DEF Untouched
          <4> QED BY <4>3, <4>4, Zenon
        <3> QED BY <3>1, <3>2, Zenon DEF RemoversInformed
      <2>8. \A v \in Volumes : kub[v] = "none" => Sees(Controller, v)'
        BY <2>2, <2>3, <2>6, Zenon DEF RemoversInformed, Sees
      <2>9. \A d \in Calls : pc'[d] = "await_gone" =>
                waited'[d] = 0 \/ Sees(Controller, vol[d])'
        BY <2>2, <2>3, <2>4, <2>6, ZenonT(60) DEF RemoversInformed, Sees, Returns, Untouched
      <2> QED BY <2>2, <2>7, <2>8, <2>9, Zenon DEF RemoversInformed, Sees
    <1> QED
      <2>1. CASE Next
        BY <1>2, <1>3, <1>4, <1>5, <1>6, <1>7, <1>8, <2>1, NextSteps,
           CallStepInformed, Zenon
      <2> QED BY <1>2, <2>1, Zenon

-----------------------------------------------------------------------------

\* What holds of calls, pods and caches in the serial environment.
PodsInv == CallInv /\ OneCallAtATime /\ NothingForced /\ RemoversInformed

\* It is an invariant there.
THEOREM PodsInvariant ==
    ASSUME SerialEnvironment
    PROVE  Spec => []PodsInv
    <1>1. Init => OneCallAtATime /\ NothingForced /\ RemoversInformed
      BY DEF Init, PodInit, OneCallAtATime, NothingForced, RemoversInformed, Active,
             Sees, Terminating
    <1>2. CallInv /\ OneCallAtATime /\ NothingForced /\ RemoversInformed
          /\ [Next]_vars =>
              OneCallAtATime' /\ NothingForced' /\ RemoversInformed'
      BY OneStep, ForcedStep, InformedStep, Zenon
    <1> QED BY <1>1, <1>2, CallInvariant, PTL DEF Spec, PodsInv

\* Two servers never work on the data of one volume: there is one pod for it,
\* a server runs on its pod's node, and no pod is removed before its server.
THEOREM OneServer ==
    ASSUME SerialEnvironment
    PROVE  Spec => []SingleServer
    <1>1. PodsInv => SingleServer
      BY Zenon DEF PodsInv, NothingForced, SingleServer
    <1> QED BY <1>1, PodsInvariant, PTL

-----------------------------------------------------------------------------
(* Forced deletion, in every environment in which reads do not fail.       *)

\* What the call d waits for, or is about to delete by force, is the pod whose
\* deletion it has requested.
Timed(d) ==
    pods[vol[d]] # None =>
        /\ pc[d] = "await_removed" =>
              vol[d] \in Terminating /\ waited[d] <= dying[vol[d]]
        /\ pc[d] = "force_pod" =>
              /\ vol[d] \in Terminating
              /\ dying[vol[d]] >= RemoveWait \/ at[d] \in stopping

\* That is so as long as the caller waits.
RemovalsTimed == \A d \in waiting : Timed(d)

\* The pod of v, if there is one after a step, was there before, and is not
\* brought back from its deletion.
PodStays(v) ==
    \/ pods'[v] = None
    \/ /\ pods[v] # None /\ dying'[v] = dying[v]
       /\ pods[v].terminating => pods'[v].terminating

\* A step that leaves a call and its pod alone keeps its removal timed.
LEMMA TimedKept ==
    ASSUME NEW d \in Calls, Timed(d), vol[d] \in Volumes, PodStays(vol[d]),
           pc'[d] = pc[d], at'[d] = at[d], vol'[d] = vol[d], waited'[d] = waited[d],
           at[d] \in stopping => at[d] \in stopping'
    PROVE  Timed(d)'
    <1>1. CASE pods'[vol[d]] = None
      BY <1>1, Zenon DEF Timed
    <1>2. CASE pods'[vol[d]] # None
      <2>1. /\ pods[vol[d]] # None /\ dying'[vol[d]] = dying[vol[d]]
            /\ vol[d] \in Terminating => vol[d] \in Terminating'
        BY <1>2, Zenon DEF PodStays, Terminating
      <2> QED BY <2>1, Zenon DEF Timed
    <1> QED BY <1>1, <1>2, Zenon

\* A call brings no pod to another volume, and none at all if its caller does
\* not wait: its requests are refused, except for the forced deletion.
LEMMA CallPodStays ==
    ASSUME TypeOK, NEW c \in Calls, CallOK(c), CallStep(c),
           NEW v \in Volumes, v # vol[c] \/ c \notin waiting
    PROVE  PodStays(v)
    <1>0. pods \in [Volumes -> PodObjects \cup {None}] /\ dying \in [Volumes -> Nat]
      <2>1. {0, 15, 30, 45, GracePeriod} \subseteq Nat
        BY DEF GracePeriod
      <2> QED BY <2>1, Zenon DEF TypeOK, PodTypeOK
    <1>1. UNCHANGED <<pods, dying>> => PodStays(v)
      BY Zenon DEF PodStays
    <1>2. CASE CreateApiPod(c)
      BY <1>0, <1>1, <1>2, Zenon DEF CreateApiPod, PodStays
    <1>3. CASE ReplacePod(c) \/ RemoveApiPod(c)
      <2>1. vol[c] \in Volumes
        BY <1>3, Zenon DEF ReplacePod, RemoveApiPod, At, CallOK, Active
      <2> QED
        BY <1>1, <1>3, <2>1, TerminatePod, Zenon DEF ReplacePod, RemoveApiPod, PodStays
    <1>4. CASE ForcePod(c)
      BY <1>0, <1>1, <1>4, Zenon DEF ForcePod, RemoveObject, PodStays
    <1>5. CASE WriteSecret(c) \/ RemoveSecret(c)
      BY <1>1, <1>5, Zenon DEF WriteSecret, RemoveSecret
    <1>6. CASE UNCHANGED api
      BY <1>1, <1>6, Zenon DEF api
    <1> QED
      BY <1>2, <1>3, <1>4, <1>5, <1>6, Zenon
      DEF CallStep, CreatePod, RemovePod, DeleteStep, GetPod, AwaitReplaced,
          AwaitReady, RemoveGet, AwaitRemoved, AwaitForced, AwaitGone, Resolve,
          ListPage, DeletePage

\* A call goes on to the forced deletion when its time is up or its plugin
\* shuts down.
LEMMA OwnTimed ==
    ASSUME "read" \notin Faults, CallInv, NEW c \in waiting, Timed(c), CallStep(c)
    PROVE  Timed(c)'
    <1>0. TypeOK /\ c \in Calls /\ CallOK(c)
      BY Zenon DEF CallInv, TypeOK, PodTypeOK
    <1>1. /\ vol[c] \in Volumes
          /\ \/ UNCHANGED <<pods, dying>> /\ pc'[c] # "await_removed"
             \/ Creates(c) \/ Deletes(c) \/ pc[c] = "force_pod"
          /\ pc'[c] = "force_pod" => pc[c] = "await_removed" /\ NotSeenGone(c)
      BY <1>0, PodEffects, Zenon
    <1>2. CallFacts(c)
      BY <1>0, CallStepFacts, Zenon
    <1>3. waited[c] \in Nat /\ dying[vol[c]] \in Nat
      <2>1. {0, 15, 30, 45, GracePeriod} \subseteq Nat
        BY DEF GracePeriod
      <2> QED BY <1>0, <1>1, <2>1, ZenonT(60) DEF TypeOK, PodTypeOK
    <1>4. CASE pc'[c] = "await_removed"
      <2>1. Deletes(c)
        <3>1. ASSUME ForcePod(c) PROVE FALSE
          <4>1. pc'[c] = "await_forced"
            BY <1>0, <3>1, GotoMoves, Zenon DEF ForcePod
          <4> QED BY <1>4, <4>1
        <3>2. pc[c] # "force_pod"
          BY <3>1, Zenon
          DEF CallStep, CreatePod, RemovePod, DeleteStep, WriteSecret, GetPod,
              CreateApiPod, ReplacePod, AwaitReplaced, AwaitReady, RemoveGet,
              RemoveApiPod, AwaitRemoved, AwaitForced, RemoveSecret, AwaitGone,
              Resolve, ListPage, DeletePage, At
        <3> QED BY <1>1, <1>4, <3>2, Zenon DEF Creates
      <2>2. vol'[c] = vol[c] /\ waited'[c] = 0
        BY <1>2, <1>4, Zenon DEF CallFacts, Moves, Returns
      <2>3. vol[c] \in Terminating' /\ dying'[vol[c]] = dying[vol[c]]
        BY <1>0, <1>1, <2>1, TerminatePod, Zenon DEF Deletes, Terminating
      <2>4. waited'[c] <= dying'[vol[c]]
        BY <1>3, <2>2, <2>3
      <2> QED BY <1>4, <2>2, <2>3, <2>4, Zenon DEF Timed
    <1>5. CASE pc'[c] = "force_pod"
      <2>1. pc[c] = "await_removed" /\ Expired(c) /\ UNCHANGED <<pods, dying>>
        BY <1>1, <1>5, Zenon DEF NotSeenGone, Fails, Creates, Deletes
      <2>2. vol'[c] = vol[c] /\ at'[c] = at[c] /\ stopping' = stopping
        BY <1>2, <1>5, Zenon DEF CallFacts, Moves, Returns, Around
      <2>3. at[c] \in stopping \/ waited[c] >= RemoveWait
        <3>1. WaitLimit["await_removed"] = RemoveWait
          BY DEF WaitLimit
        <3> QED BY <2>1, <3>1, Zenon DEF Expired
      <2>4. ASSUME pods[vol[c]] # None
            PROVE  /\ vol[c] \in Terminating
                   /\ dying[vol[c]] >= RemoveWait \/ at[c] \in stopping
        <3>1. vol[c] \in Terminating /\ waited[c] <= dying[vol[c]]
          BY <2>1, <2>4, Zenon DEF Timed
        <3>2. RemoveWait \in Nat
          BY DEF RemoveWait
        <3> HIDE DEF RemoveWait
        <3>3. waited[c] >= RemoveWait => dying[vol[c]] >= RemoveWait
          BY <1>3, <3>1, <3>2
        <3> QED BY <2>3, <3>1, <3>3, Zenon
      <2>5. vol[c] \in Terminating => vol[c] \in Terminating'
        BY <2>1, Zenon DEF Terminating
      <2> QED BY <1>5, <2>1, <2>2, <2>4, <2>5, Zenon DEF Timed
    <1>6. CASE pc'[c] \notin {"await_removed", "force_pod"}
      BY <1>6, Zenon DEF Timed
    <1> QED BY <1>4, <1>5, <1>6, Zenon

\* The clock of a wait and that of the pod it waits for advance together.
LEMMA TickTimed ==
    ASSUME CallInv, NEW d \in waiting, Timed(d), Tick
    PROVE  Timed(d)'
    <1>0. TypeOK /\ d \in Calls
      BY Zenon DEF CallInv, TypeOK, PodTypeOK
    <1>1. UNCHANGED <<pods, pc, at, vol, stopping>>
      BY Zenon DEF Tick, call, lifetime
    <1>2. Terminating' = Terminating
      BY <1>1, Zenon DEF Terminating
    <1>3. ASSUME pods[vol[d]] # None, pc[d] = "await_removed"
          PROVE  vol[d] \in Terminating /\ waited'[d] <= dying'[vol[d]]
      <2>1. vol[d] \in Terminating /\ waited[d] <= dying[vol[d]]
        BY <1>3, Zenon DEF Timed
      <2>2. WaitLimit["await_removed"] = 45 /\ "await_removed" \in DOMAIN WaitLimit
        BY DEF WaitLimit, RemoveWait
      <2>3. waited'[d] = waited[d] + 15 /\ waited[d] < 45
        BY <1>0, <1>1, <1>3, <2>2, TickInTime, Zenon DEF Waits
      <2>4. /\ vol[d] \in Volumes /\ waited[d] \in Nat
            /\ dying[vol[d]] \in {0, 15, 30, 45, 60}
        BY <1>0, <2>1, Zenon DEF Terminating, TypeOK, PodTypeOK, GracePeriod
      <2>5. dying'[vol[d]] = IF dying[vol[d]] < 60 THEN dying[vol[d]] + 15
                             ELSE dying[vol[d]]
        BY <2>1, <2>4, Zenon DEF Tick, GracePeriod
      <2> QED BY <2>1, <2>3, <2>4, <2>5
    <1>4. ASSUME pods[vol[d]] # None, pc[d] = "force_pod"
          PROVE  /\ vol[d] \in Terminating
                 /\ dying'[vol[d]] >= RemoveWait \/ at[d] \in stopping
      <2>1. /\ vol[d] \in Terminating
            /\ dying[vol[d]] >= RemoveWait \/ at[d] \in stopping
        BY <1>4, Zenon DEF Timed
      <2>2. vol[d] \in Volumes /\ dying[vol[d]] \in {0, 15, 30, 45, 60}
        BY <1>0, <2>1, Zenon DEF Terminating, TypeOK, PodTypeOK, GracePeriod
      <2>3. dying'[vol[d]] = IF dying[vol[d]] < 60 THEN dying[vol[d]] + 15
                             ELSE dying[vol[d]]
        BY <2>1, <2>2, Zenon DEF Tick, GracePeriod
      <2>4. dying[vol[d]] >= RemoveWait => dying'[vol[d]] >= RemoveWait
        BY <2>2, <2>3 DEF RemoveWait
      <2> QED BY <2>1, <2>4, Zenon
    <1> QED BY <1>1, <1>2, <1>3, <1>4, Zenon DEF Timed

\* Every step keeps the removals timed.
LEMMA TimedStep ==
    ASSUME "read" \notin Faults, CallInv, RemovalsTimed, [Next]_vars
    PROVE  RemovalsTimed'
    <1>0. /\ TypeOK /\ waiting \subseteq Calls
          /\ \A d \in waiting : vol[d] \in Volumes
      BY Zenon DEF CallInv, TypeOK, PodTypeOK, CallOK, Active
    <1>1. CASE \E c \in Calls : CallStep(c)
      <2>1. PICK c \in Calls : CallStep(c)
        BY <1>1, Zenon
      <2>2. TypeOK' /\ CallFacts(c) /\ CallOK(c)
        BY <2>1, CallType, CallStepFacts, Zenon DEF CallInv
      <2>3. waiting' \subseteq Calls
        BY <2>2, Zenon DEF TypeOK, PodTypeOK
      <2>4. ASSUME NEW d \in waiting', d = c PROVE Timed(d)'
        <3>1. c \in waiting
          BY <2>2, <2>4, Zenon DEF CallFacts, Moves, Returns
        <3> QED BY <2>1, <2>4, <3>1, OwnTimed, Zenon DEF RemovalsTimed
      <2>5. ASSUME NEW d \in waiting', d # c PROVE Timed(d)'
        <3>1. Untouched(d) /\ stopping' = stopping
          BY <2>2, <2>3, <2>5, Zenon DEF CallFacts, Around
        <3>2. d \in waiting /\ d \in Calls /\ vol[d] \in Volumes
          BY <1>0, <3>1, Zenon DEF Untouched
        <3>3. vol[d] # vol[c] \/ c \notin waiting
          BY <2>5, <3>2, Zenon DEF CallInv
        <3>4. PodStays(vol[d])
          BY <1>0, <2>1, <2>2, <3>2, <3>3, CallPodStays, Zenon
        <3> QED
          BY <3>1, <3>2, <3>4, TimedKept, Zenon DEF RemovalsTimed, Untouched
      <2> QED BY <2>4, <2>5, Zenon DEF RemovalsTimed
    <1>2. CASE \E c \in Calls, v \in Volumes : StartStep(c, v)
      <2>1. PICK c \in Calls, v \in Volumes : StartStep(c, v)
        BY <1>2, Zenon
      <2>2. PICK label \in {"write_secret", "remove_get"} :
                \E plugin, operation : StartCall(c, plugin, v, operation, label)
        BY <2>1, Zenon DEF StartStep, Publish, Unpublish, DeleteVolume
      <2>3. /\ waiting' = waiting \cup {c} /\ pc'[c] = label
            /\ UNCHANGED <<pods, dying, waited, stopping>>
            /\ \A d \in Calls \ {c} :
                  pc'[d] = pc[d] /\ at'[d] = at[d] /\ vol'[d] = vol[d]
        BY <1>0, <2>2, ZenonT(60) DEF StartCall, TypeOK, PodTypeOK, api, lifetime
      <2>4. Timed(c)'
        <3>1. pc'[c] \notin {"await_removed", "force_pod"}
          BY <2>3
        <3> QED BY <3>1, Zenon DEF Timed
      <2>5. ASSUME NEW d \in waiting, d # c PROVE Timed(d)'
        <3>1. PodStays(vol[d]) /\ d \in Calls
          BY <1>0, <2>3, Zenon DEF PodStays
        <3> QED BY <1>0, <2>3, <2>5, <3>1, TimedKept, Zenon DEF RemovalsTimed
      <2> QED BY <2>3, <2>4, <2>5, Zenon DEF RemovalsTimed
    <1>3. ASSUME UNCHANGED <<pc, at, vol, waited>>, waiting' \subseteq waiting,
                 stopping \subseteq stopping',
                 \A v \in Volumes : PodStays(v)
          PROVE  RemovalsTimed'
      BY <1>0, <1>3, TimedKept, Zenon DEF RemovalsTimed
    <1>4. UNCHANGED <<pods, dying>> => \A v \in Volumes : PodStays(v)
      BY Zenon DEF PodStays
    <1>5. CASE \/ \E c \in Calls : GiveUp(c)
               \/ \E v \in Volumes : MoveStep(v) \/ Release(v)
               \/ \E p \in Plugins : Sync(p) \/ Shutdown(p)
               \/ \E k \in Keys : Store(k)
      <2>1. /\ UNCHANGED <<pc, at, vol, waited>> /\ waiting' \subseteq waiting
            /\ stopping \subseteq stopping' /\ UNCHANGED <<pods, dying>>
        BY <1>5, Zenon DEF GiveUp, MoveStep, Attach, Detach, Sync, Shutdown, Release,
               Store, podVars, api, calls, call, lifetime
      <2> QED BY <1>3, <1>4, <2>1, Zenon
    <1>6. CASE \E v \in Volumes : ServerStep(v)
      <2>1. PICK v \in Volumes : ServerStep(v)
        BY <1>6, Zenon
      <2>2. UNCHANGED <<pc, at, vol, waited, waiting, stopping>>
        BY <2>1, Zenon DEF ServerStep, StartServer, StopServer, KillServer, calls,
               call, lifetime
      <2>3. CASE StartServer(v)
        <3>1. /\ pods[v] # None /\ dying' = dying
              /\ pods'[v].terminating = pods[v].terminating
              /\ \A w \in Volumes \ {v} : pods'[w] = pods[w]
          BY <1>0, <2>3, ReadyPod, Zenon
        <3>2. \A w \in Volumes : PodStays(w)
          BY <3>1, Zenon DEF PodStays
        <3> QED BY <1>3, <2>2, <3>2, Zenon
      <2>4. CASE StopServer(v)
        <3>1. pods \in [Volumes -> PodObjects \cup {None}]
              /\ dying \in [Volumes -> {0, 15, 30, 45, GracePeriod}]
          BY <1>0, Zenon DEF TypeOK, PodTypeOK
        <3>2. \A w \in Volumes : PodStays(w)
          BY <2>4, <3>1, Zenon DEF StopServer, RemoveObject, PodStays
        <3> QED BY <1>3, <2>2, <3>2, Zenon
      <2>5. CASE \E n \in Nodes : KillServer(v, n)
        BY <1>3, <1>4, <2>2, <2>5, Zenon DEF KillServer, api
      <2> QED BY <2>1, <2>3, <2>4, <2>5, Zenon DEF ServerStep
    <1>7. CASE Tick
      <2>1. waiting' = waiting
        BY <1>7, Zenon DEF Tick
      <2> QED BY <1>7, <2>1, TickTimed, Zenon DEF RemovalsTimed
    <1>8. CASE \E p \in Plugins : RestartPlugin(p)
      <2>1. PICK p \in Plugins : RestartPlugin(p)
        BY <1>8, Zenon
      <2>2. /\ stopping' = stopping \ {p} /\ UNCHANGED <<pods, dying>>
            /\ waiting' \subseteq waiting
            /\ \A d \in Calls : IF at[d] = p THEN Returns(d) ELSE Untouched(d)
        BY <1>0, <2>1, RestartFacts, Zenon DEF RestartPlugin, Restart
      <2>3. ASSUME NEW d \in waiting' PROVE Timed(d)'
        <3>1. d \in waiting /\ d \in Calls /\ vol[d] \in Volumes
          BY <1>0, <2>2, Zenon
        <3>2. Untouched(d) /\ at[d] # p
          BY <2>2, <3>1, Zenon DEF Returns
        <3>3. at[d] \in stopping => at[d] \in stopping'
          BY <2>2, <3>2, Zenon
        <3>4. PodStays(vol[d])
          BY <1>4, <2>2, <3>1, Zenon
        <3> QED
          BY <3>1, <3>2, <3>3, <3>4, TimedKept, Zenon DEF RemovalsTimed, Untouched
      <2> QED BY <2>3, Zenon DEF RemovalsTimed
    <1>9. CASE UNCHANGED vars
      <2>1. UNCHANGED <<pods, dying, pc, at, vol, waited, waiting, stopping>>
        BY <1>9, Zenon DEF vars, podVars, api, calls, call, lifetime
      <2> QED BY <1>3, <1>4, <2>1, Zenon
    <1> QED
      <2>1. CASE Next
        BY <1>1, <1>2, <1>5, <1>6, <1>7, <1>8, <2>1, NextSteps, Zenon
      <2> QED BY <1>9, <2>1, Zenon

\* If reads of the cache do not fail, then, whatever else fails, however slow
\* servers stop and whoever gives up, shuts down or crashes, a call whose caller
\* waits deletes by force only the pod whose deletion it has waited for.
THEOREM ForcedLate ==
    ASSUME "read" \notin Faults
    PROVE  Spec => []ForcedAfterWait
    <1>1. Init => RemovalsTimed
      BY Zenon DEF Init, PodInit, RemovalsTimed
    <1>2. CallInv /\ RemovalsTimed /\ [Next]_vars => RemovalsTimed'
      BY TimedStep, Zenon
    <1>3. RemovalsTimed => ForcedAfterWait
      BY Zenon DEF RemovalsTimed, Timed, ForcedAfterWait, At
    <1> QED BY <1>1, <1>2, <1>3, CallInvariant, PTL DEF Spec

=============================================================================
