-------------------------- MODULE VolumeDataProofs --------------------------
(***************************************************************************)
(* The proof that a deletion looks for data where the pods put them, that  *)
(* one which is confirmed is complete, and that the driver keeps the       *)
(* promise of module VolumeStore.                                          *)
(***************************************************************************)
EXTENDS VolumeSerialProofs, FiniteSetTheorems, WellFoundedInduction

-----------------------------------------------------------------------------
(* Where the data are.                                                     *)

\* The first parts of a path.
LEMMA FirstParts ==
    ASSUME NEW S, NEW path \in Seq(S)
    PROVE  /\ Len(path) \in Nat
           /\ SubSeq(path, 1, 0) = <<>> /\ SubSeq(path, 1, Len(path)) = path
           /\ \A i \in 1..Len(path) :
                 /\ path[i] \in S
                 /\ Append(SubSeq(path, 1, i - 1), path[i]) = SubSeq(path, 1, i)
    OBVIOUS

\* What holds of 0, and of a number if it holds of the one before, holds of all.
LEMMA UpTo ==
    ASSUME NEW n \in Nat, NEW Good \in SUBSET (0..n), 0 \in Good,
           \A i \in 1..n : i - 1 \in Good => i \in Good
    PROVE  Good = 0..n
    <1> DEFINE Bad == (0..n) \ Good
    <1> SUFFICES ASSUME Bad # {} PROVE FALSE
      BY Zenon
    <1>1. Bad \subseteq Nat
      OBVIOUS
    <1>2. PICK i \in Bad : \A j \in Bad : ~(<<j, i>> \in OpToRel(<, Nat))
      BY <1>1, NatLessThanWellFounded, WFMin, Zenon
    <1>3. i \in 1..n /\ i - 1 \in 0..n /\ i - 1 < i /\ i \in Nat /\ i - 1 \in Nat
      <2>1. i # 0
        BY Zenon
      <2> QED BY <2>1
    <1>4. <<i - 1, i>> \in OpToRel(<, Nat)
      BY <1>3 DEF OpToRel
    <1>5. i - 1 \in Good
      BY <1>2, <1>3, <1>4, Zenon
    <1> QED BY <1>3, <1>5, Zenon

\* path.Join does not change a path without empty, "." and ".." parts.
LEMMA JoinPlain ==
    ASSUME NEW Names, Names \cap Dots = {}, NEW path \in Seq(Names)
    PROVE  Join(path) = path
    <1>0. PICK n \in Nat : n = Len(path)
      OBVIOUS
    <1> DEFINE Joins(f) == f = [i \in 0..n |->
                   IF i = 0 THEN <<>> ELSE JoinPart(f[i - 1], path[i])]
               joined == CHOOSE f : Joins(f)
               first == [i \in 0..n |-> SubSeq(path, 1, i)]
    <1>1. Join(path) = joined[n]
      BY <1>0, Zenon DEF Join
    <1>2. ASSUME NEW i \in 1..n
          PROVE  JoinPart(SubSeq(path, 1, i - 1), path[i]) = SubSeq(path, 1, i)
      <2>1. path[i] \notin {"", ".", ".."}
        BY <1>0, FirstParts, Zenon DEF Dots
      <2>2. JoinPart(SubSeq(path, 1, i - 1), path[i])
            = Append(SubSeq(path, 1, i - 1), path[i])
        BY <2>1, Zenon DEF JoinPart
      <2>3. Append(SubSeq(path, 1, i - 1), path[i]) = SubSeq(path, 1, i)
        BY <1>0, FirstParts
      <2> QED BY <2>2, <2>3, Zenon
    <1>3. \A i \in 0..n : i # 0 => i \in 1..n /\ i - 1 \in 0..n
      OBVIOUS
    <1>4. Joins(first)
      <2>1. ASSUME NEW i \in 0..n
            PROVE  SubSeq(path, 1, i)
                   = IF i = 0 THEN <<>> ELSE JoinPart(first[i - 1], path[i])
        BY <1>2, <1>3, FirstParts, Zenon
      <2> QED BY <2>1, Zenon
    <1>5. Joins(joined)
      BY <1>4, Zenon
    <1> HIDE DEF joined
    <1> DEFINE Good == {i \in 0..n : joined[i] = SubSeq(path, 1, i)}
    <1>6. 0 \in Good
      <2>1. 0 \in 0..n
        OBVIOUS
      <2> QED BY <1>5, <2>1, FirstParts, Zenon
    <1>7. \A i \in 1..n : i - 1 \in Good => i \in Good
      <2> SUFFICES ASSUME NEW i \in 1..n, i - 1 \in Good PROVE i \in Good
        BY Zenon
      <2>1. i \in 0..n /\ i # 0
        OBVIOUS
      <2> QED BY <1>2, <1>5, <2>1, Zenon
    <1>8. n \in Good
      <2>1. Good = 0..n
        BY <1>6, <1>7, UpTo, Zenon
      <2>2. n \in 0..n
        OBVIOUS
      <2> QED BY <2>1, <2>2, Zenon
    <1> QED BY <1>0, <1>1, <1>8, FirstParts, Zenon

\* The location l of a volume v: no part of it but the last, and perhaps the
\* bucket, is the id of a volume.
Locates(l, v, Names) ==
    /\ l \in Seq(Names) /\ Len(l) \in Nat \ {0, 1} /\ l[Len(l)] = v
    /\ \A i \in 2..Len(l) - 1 : l[i] \notin Volumes

LEMMA LocationParts ==
    ASSUME NEW Names, NEW bucket \in Names, NEW path \in Seq(Names),
           NEW v \in Names, \A i \in 1..Len(path) : path[i] \notin Volumes
    PROVE  Locates(<<bucket>> \o path \o <<v>>, v, Names)
    <1>1. PICK l : l = <<bucket>> \o path \o <<v>>
      BY Zenon
    <1>2. /\ l \in Seq(Names) /\ Len(l) = Len(path) + 2 /\ Len(path) \in Nat
          /\ l[Len(path) + 2] = v
          /\ \A i \in 1..Len(path) : l[i + 1] = path[i]
      BY <1>1
    <1>3. ASSUME NEW i \in 2..Len(l) - 1
          PROVE  l[i] \notin Volumes
      <2>1. i - 1 \in 1..Len(path) /\ i = (i - 1) + 1
        BY <1>2
      <2> QED BY <1>2, <2>1
    <1>4. Len(l) \in Nat \ {0, 1}
      BY <1>2
    <1> QED BY <1>1, <1>2, <1>3, <1>4, Zenon DEF Locates

\* Where the shorter of two locations ends.
LEMMA Ends ==
    ASSUME NEW x \in Nat \ {0, 1}, NEW y \in Nat
    PROVE  x \in 1..x /\ (x < y => x \in 2..y - 1 /\ x \in 1..y)
    OBVIOUS

\* No location is shorter than another with which a key starts, too.
LEMMA NotShorter ==
    ASSUME NEW Names, NEW p, NEW l, NEW m, NEW v \in Volumes, NEW w,
           Locates(l, v, Names), \A i \in 1..Len(l) : p[i] = l[i],
           Locates(m, w, Names), \A i \in 1..Len(m) : p[i] = m[i]
    PROVE  ~(Len(l) < Len(m))
    <1>1. /\ Len(l) \in Nat \ {0, 1} /\ Len(m) \in Nat /\ l[Len(l)] = v
          /\ \A i \in 2..Len(m) - 1 : m[i] \notin Volumes
      BY Zenon DEF Locates
    <1> QED BY <1>1, Ends, Zenon

\* A key is below the location of one volume only.
LEMMA SameVolume ==
    ASSUME NEW Names, NEW p, NEW l, NEW m, NEW v \in Volumes, NEW w \in Volumes,
           Locates(l, v, Names), \A i \in 1..Len(l) : p[i] = l[i],
           Locates(m, w, Names), \A i \in 1..Len(m) : p[i] = m[i]
    PROVE  v = w
    <1>1. ~(Len(l) < Len(m)) /\ ~(Len(m) < Len(l))
      BY NotShorter, Zenon
    <1>2. /\ Len(l) \in Nat \ {0, 1} /\ Len(m) \in Nat \ {0, 1}
          /\ l[Len(l)] = v /\ m[Len(m)] = w
      BY Zenon DEF Locates
    <1>3. Len(l) = Len(m)
      BY <1>1, <1>2
    <1>4. Len(l) \in 1..Len(l)
      BY <1>2, Ends, Zenon
    <1> QED BY <1>2, <1>3, <1>4, Zenon

\* A key that starts with a location has the location's parts.
LEMMA BelowParts ==
    ASSUME NEW Names, NEW p \in Seq(Names), NEW l \in Seq(Names),
           Len(l) \in Nat, SubSeq(p, 1, Len(l)) = l, Len(p) > Len(l)
    PROVE  \A i \in 1..Len(l) : p[i] = l[i]
    OBVIOUS

\* The two ways to say that a key starts with a location.
LEMMA PrefixParts ==
    ASSUME NEW Names, NEW p \in Seq(Names), NEW l \in Seq(Names),
           Len(l) \in Nat \ {0}, Len(p) >= Len(l)
    PROVE  SubSeq(p, 1, Len(l)) = l <=>
              /\ SubSeq(p, 1, Len(l) - 1) = SubSeq(l, 1, Len(l) - 1)
              /\ p[Len(l)] = l[Len(l)]
    OBVIOUS

\* The location of a pod, and that of a deletion.
LEMMA PodLocates ==
    ASSUME NEW Names, PlainNames(Names), NEW v \in Volumes, NEW conf \in Configs
    PROVE  /\ Locates(PodLocation(conf.url, v), v, Names)
           /\ Usable(conf) => DeleteLocation(conf.url, v) = PodLocation(conf.url, v)
    <1>1. PICK S, b, path :
              /\ S = Names \ (Volumes \cup Dots)
              /\ b = Base(conf.url).bucket /\ path = Base(conf.url).path
      BY Zenon
    <1>2. v \in Names /\ b \in Names /\ path \in Seq(S)
      BY <1>1, Zenon DEF PlainNames
    <1>3. path \in Seq(Names) /\ \A i \in 1..Len(path) : path[i] \notin Volumes
      BY <1>1, <1>2
    <1>4. /\ Locates(<<b>> \o path \o <<v>>, v, Names)
          /\ <<b>> \o path \o <<v>> = <<b>> \o (path \o <<v>>)
      <2>1. Locates(<<b>> \o path \o <<v>>, v, Names)
        BY <1>2, <1>3, LocationParts, Zenon
      <2>2. <<b>> \o path \o <<v>> = <<b>> \o (path \o <<v>>)
        BY <1>2, <1>3
      <2> QED BY <2>1, <2>2, Zenon
    <1>5. ASSUME Usable(conf)
          PROVE  DeleteLocation(conf.url, v) = <<b>> \o (path \o <<v>>)
      <2>1. conf.url = Base(conf.url)
        BY <1>5, Zenon DEF Usable, parseS3Location, Base
      <2>2. S \cap Dots = {}
        BY <1>1, Zenon
      <2>3. Join(path) = path
        BY <1>2, <2>2, JoinPlain, Zenon
      <2> QED BY <1>1, <2>1, <2>3, Zenon DEF DeleteLocation, joinS3Prefix
    <1> QED BY <1>1, <1>4, <1>5, Zenon DEF PodLocation

\* If names are plain, DeleteVolume looks for the data of a volume where its pod
\* has put them, and no two volumes share an object.
THEOREM PlainNamesSuffice ==
    ASSUME NEW Names, PlainNames(Names)
    PROVE  LayoutsAgree /\ LocationsDisjoint
    <1>0. \A k \in Keys : Path[k] \in Seq(Names)
      BY Zenon DEF PlainNames
    <1>1. LocationsDisjoint
      <2> SUFFICES ASSUME NEW v \in Volumes, NEW w \in Volumes, NEW conf \in Configs,
                          NEW other \in Configs, NEW k \in Keys,
                          IsBelow(k, PodLocation(conf.url, v)),
                          IsBelow(k, PodLocation(other.url, w))
                   PROVE  v = w
        BY Zenon DEF LocationsDisjoint
      <2>1. PICK l, m : l = PodLocation(conf.url, v) /\ m = PodLocation(other.url, w)
        BY Zenon
      <2>2. Locates(l, v, Names) /\ Locates(m, w, Names)
        BY <2>1, PodLocates, Zenon
      <2>3. /\ Len(Path[k]) > Len(l) /\ SubSeq(Path[k], 1, Len(l)) = l
            /\ Len(Path[k]) > Len(m) /\ SubSeq(Path[k], 1, Len(m)) = m
        BY <2>1, Zenon DEF IsBelow
      <2>4. \A i \in 1..Len(l) : Path[k][i] = l[i]
        BY <1>0, <2>2, <2>3, BelowParts DEF Locates
      <2>5. \A i \in 1..Len(m) : Path[k][i] = m[i]
        BY <1>0, <2>2, <2>3, BelowParts DEF Locates
      <2> QED BY <2>2, <2>4, <2>5, SameVolume, Zenon
    <1>2. LayoutsAgree
      <2> SUFFICES ASSUME NEW v \in Volumes, NEW conf \in Configs, Usable(conf),
                          NEW k \in Keys
                   PROVE  HasPrefix(k, DeleteLocation(conf.url, v)) <=>
                              IsBelow(k, PodLocation(conf.url, v))
        BY Zenon DEF LayoutsAgree
      <2>1. PICK l, p : l = PodLocation(conf.url, v) /\ p = Path[k]
        BY Zenon
      <2>2. Locates(l, v, Names) /\ DeleteLocation(conf.url, v) = l
        BY <2>1, PodLocates, Zenon
      <2>3. /\ l \in Seq(Names) /\ Len(l) \in Nat \ {0, 1} /\ l[Len(l)] = v
            /\ p \in Seq(Names)
        BY <1>0, <2>1, <2>2, Zenon DEF Locates
      <2>4. HasPrefix(k, l) <=>
                /\ Len(p) >= Len(l)
                /\ SubSeq(p, 1, Len(l) - 1) = SubSeq(l, 1, Len(l) - 1)
                /\ p[Len(l)] = l[Len(l)] \/ <<l[Len(l)], p[Len(l)]>> \in StartsWith
        BY <2>1, Zenon DEF HasPrefix
      <2>5. IsBelow(k, l) <=> Len(p) > Len(l) /\ SubSeq(p, 1, Len(l)) = l
        BY <2>1, Zenon DEF IsBelow
      <2>6. Len(p) >= Len(l) => <<l[Len(l)], p[Len(l)]>> \notin StartsWith
        <3>1. Len(p) >= Len(l) => p[Len(l)] \in Names
          BY <2>3
        <3>2. \A name \in Names : <<v, name>> \notin StartsWith
          BY Zenon DEF PlainNames
        <3> QED BY <2>3, <3>1, <3>2, Zenon
      <2>7. Len(p) = Len(l) => p[Len(l)] # l[Len(l)]
        BY <2>1, <2>3, Zenon DEF PlainNames
      <2>8. Len(p) >= Len(l) =>
                (SubSeq(p, 1, Len(l)) = l <=>
                    /\ SubSeq(p, 1, Len(l) - 1) = SubSeq(l, 1, Len(l) - 1)
                    /\ p[Len(l)] = l[Len(l)])
        <3>1. Len(l) \in Nat \ {0}
          BY <2>3
        <3> QED BY <2>3, <3>1, PrefixParts, Zenon
      <2>9. Len(p) >= Len(l) <=> Len(p) > Len(l) \/ Len(p) = Len(l)
        BY <2>3
      <2> QED BY <2>1, <2>2, <2>4, <2>5, <2>6, <2>7, <2>8, <2>9, Zenon
    <1> QED BY <1>1, <1>2, Zenon

-----------------------------------------------------------------------------
(* Pages.                                                                  *)

\* A page holds every listed key up to any of its keys.
LEMMA FirstPageInitial ==
    ASSUME NEW keys \in SUBSET Nat, NEW k \in FirstPage(keys), NEW l \in keys, l <= k
    PROVE  l \in FirstPage(keys)
    <1> DEFINE Below(n) == {m \in keys : m < n}
    <1>0. /\ k \in Nat /\ l \in Nat
          /\ \A m \in keys : m \in Nat
      BY Zenon DEF FirstPage
    <1>1. Below(l) \subseteq Below(k)
      <2>1. \A m \in keys : m < l => m < k
        BY <1>0
      <2> QED BY <2>1, Zenon
    <1>2. IsFiniteSet(Below(k))
      <2>1. IsFiniteSet(0..k)
        BY <1>0, FS_Interval
      <2>2. Below(k) \subseteq 0..k
        <3>1. \A m \in keys : m < k => m \in 0..k
          BY <1>0
        <3> QED BY <3>1, Zenon
      <2> QED BY <2>1, <2>2, FS_Subset, Zenon
    <1>3. IsFiniteSet(Below(l)) /\ Cardinality(Below(l)) <= Cardinality(Below(k))
      BY <1>1, <1>2, FS_Subset, Zenon
    <1>4. Cardinality(Below(l)) \in Nat /\ Cardinality(Below(k)) \in Nat
      BY <1>2, <1>3, FS_CardinalityType, Zenon
    <1>5. Cardinality(Below(k)) < PageSize
      BY Zenon DEF FirstPage
    <1> HIDE DEF Below
    <1>6. Cardinality(Below(l)) < PageSize
      BY <1>3, <1>4, <1>5, PageSizeAssumption
    <1> QED BY <1>6, Zenon DEF FirstPage, Below

\* DeleteVolume is through with the pod only when it has not found it.
LEMMA RemovedNotFound ==
    ASSUME SerialEnvironment, DeletionEnvironment, TypeOK, NothingForced,
           NEW c \in Calls, CallOK(c), c \in waiting, CallStep(c), op[c] = "delete",
           pc[c] \notin DeleteLabels \cup {"remove_secret"},
           pc'[c] \in DeleteLabels \cup {"remove_secret"}
    PROVE  pods[vol[c]] = None \/ Cached(c) = None
    <1> USE DEF At
    <1>1. \A label : Goto(c, label) => pc'[c] = label
      BY GotoMoves, Zenon
    <1>2. ~CreatePod(c)
      BY Zenon DEF CreatePod, WriteSecret, GetPod, CreateApiPod, ReplacePod, AwaitReplaced,
             AwaitReady, CallOK, Active, CreateLabels
    <1>3. ~DeleteStep(c)
      BY Zenon DEF DeleteStep, Resolve, ListPage, DeletePage, DeleteLabels
    <1>4. RemovePod(c)
      BY <1>2, <1>3, Zenon DEF CallStep
    <1>5. ~ForcePod(c) /\ ~AwaitForced(c) /\ ~RemoveSecret(c) /\ ~AwaitGone(c)
      BY Zenon DEF ForcePod, AwaitForced, RemoveSecret, AwaitGone, NothingForced, CallOK,
             Active
    <1>6. CASE RemoveGet(c)
      BY <1>1, <1>6, Zenon DEF RemoveGet, Fails, SerialEnvironment, DeleteLabels
    <1>7. CASE RemoveApiPod(c)
      <2>1. at[c] = Controller /\ "controller" \notin Faults
        BY <1>7, Zenon DEF RemoveApiPod, CallOK, Active, DeletionEnvironment
      <2> QED
        BY <1>1, <1>7, <2>1, Zenon DEF RemoveApiPod, Refused, Fails, DeleteLabels
    <1>8. CASE AwaitRemoved(c)
      BY <1>1, <1>8, Zenon DEF AwaitRemoved, PodGone, DeleteLabels
    <1> QED BY <1>4, <1>5, <1>6, <1>7, <1>8, Zenon DEF RemovePod

\* A call that is left alone has passed what it had passed.
LEMMA UntouchedPassed ==
    ASSUME NEW d \in Calls, Passed(d), Untouched(d), config' = config,
           objects' \subseteq objects,
           op[d] = "delete" /\ Active(d) /\ pods[vol[d]] = None =>
               pods'[vol[d]] = None
    PROVE  Passed(d)'
    BY Zenon DEF Passed, Untouched, Stores, Active, DeleteLabels

\* What DeleteVolume finds is what the volume's pod has stored.
LEMMA FoundIsStored ==
    ASSUME LayoutsAgree, TypeOK, NEW v \in Volumes, Usable(config[v]), NEW k \in objects
    PROVE  HasPrefix(k, DeleteLocation(config[v].url, v)) <=> Stores(v, k)
    BY Zenon DEF LayoutsAgree, TypeOK, Stores

\* DeleteVolume passes a page when it has deleted it, and ends behind the last.
LEMMA DeletePassed ==
    ASSUME DeletionEnvironment, LayoutsAgree, CallInv, OneCallAtATime,
           NEW c \in Calls, DeleteStep(c), Passed(c)
    PROVE  /\ Passed(c)'
           /\ vol[c] \in deleted' \ deleted /\ config[vol[c]].delete =>
                 \A k \in objects' : ~Stores(vol[c], k)
    <1> USE DEF At
    <1>1. /\ TypeOK /\ CallOK(c) /\ PageOK(c) /\ Active(c) /\ vol[c] \in Volumes
          /\ pc[c] \in DeleteLabels /\ op[c] = "delete" /\ pods[vol[c]] = None
          /\ pods' = pods
      BY Zenon DEF CallInv, DeleteStep, Resolve, ListPage, DeletePage, DeleteLabels, Active,
             CallOK, Passed, api
    <1>2. objects \subseteq Nat /\ config' = config
      BY <1>1, DeleteCallSteps, KeysAssumption, Zenon DEF TypeOK
    <1>3. ASSUME NEW success, Answer(c, success)
          PROVE  Passed(c)' /\ (vol[c] \in deleted' \ deleted => success)
      <2>1. pc'[c] = "idle" /\ op'[c] = None /\ cursor'[c] = -1
        BY <1>1, <1>3, DoneReturns, Zenon DEF Answer, Returns, TypeOK
      <2>2. Passed(c)'
        BY <2>1, NoneAssumption, Zenon DEF Passed, DeleteLabels, Operations
      <2> QED BY <1>3, <2>2, Zenon DEF Answer
    <1>4. CASE Resolve(c)
      <2>1. CASE \E success : Answer(c, success)
        <3>1. CASE ~config[vol[c]].delete
          BY <1>3, <2>1, <3>1, Zenon
        <3>2. CASE config[vol[c]].delete
          BY <1>1, <1>3, <1>4, <2>1, <3>2, GotoMoves, Zenon
          DEF Resolve, Fails, DeletionEnvironment
        <3> QED BY <3>1, <3>2, Zenon
      <2>2. CASE ~\E success : Answer(c, success)
        <3>1. /\ Goto(c, "list") /\ UNCHANGED <<cursor, objects, deleted>>
          BY <1>4, <2>2, Zenon DEF Resolve, deletion
        <3>2. pc[c] = "resolve" /\ cursor[c] = -1
          BY <1>4, Zenon DEF Resolve, Passed
        <3>3. pc'[c] = "list" /\ vol'[c] = vol[c] /\ op'[c] = op[c] /\ cursor'[c] = -1
          BY <1>1, <3>1, <3>2, GotoMoves, Zenon
        <3> QED BY <1>1, <1>2, <3>1, <3>3 DEF Passed
      <2> QED BY <2>1, <2>2, Zenon
    <1>5. CASE ListPage(c)
      <2>1. /\ pc[c] = "list" /\ objects' = objects /\ Usable(config[vol[c]])
            /\ \A k \in objects : Stores(vol[c], k) => k \in Listed(c)
            /\ Listed(c) \subseteq Nat
        <3>1. /\ pc[c] = "list" /\ objects' = objects /\ Usable(config[vol[c]])
          BY <1>1, <1>5, Zenon DEF ListPage, PageOK
        <3>2. \A k \in objects : Stores(vol[c], k) => k > cursor[c]
          BY <3>1, Zenon DEF Passed
        <3> QED BY <1>1, <1>2, <3>1, <3>2, FoundIsStored, Zenon DEF Listed
      <2>2. CASE \E success : Answer(c, success)
        BY <1>1, <1>3, <1>5, <2>1, <2>2, GotoMoves, Zenon DEF ListPage
      <2>3. CASE ~\E success : Answer(c, success)
        <3>1. PICK k \in FirstPage(Listed(c)) :
                /\ \A l \in FirstPage(Listed(c)) : l <= k
                /\ cursor' = [cursor EXCEPT ![c] = k]
          BY <1>5, <2>3, Zenon DEF ListPage
        <3>2. /\ Goto(c, "delete_page") /\ deleted' = deleted
              /\ page' = [page EXCEPT ![c] = FirstPage(Listed(c))]
              /\ lastPage' = [lastPage EXCEPT ![c] =
                                 FirstPage(Listed(c)) = Listed(c)]
          BY <1>5, <2>3, Zenon DEF ListPage
        <3>3. /\ pc'[c] = "delete_page" /\ vol'[c] = vol[c] /\ op'[c] = op[c]
              /\ cursor'[c] = k /\ page'[c] = FirstPage(Listed(c))
              /\ lastPage'[c] => FirstPage(Listed(c)) = Listed(c)
          BY <1>1, <3>1, <3>2, GotoMoves, Zenon DEF TypeOK
        <3>4. k \in Nat /\ \A l \in Listed(c) : l > k \/ l \in FirstPage(Listed(c))
          BY <2>1, <3>1, FirstPageInitial DEF FirstPage
        <3>5. \A l \in objects : Stores(vol[c], l) => l > k \/ l \in page'[c]
          BY <2>1, <3>3, <3>4, Zenon
        <3>6. lastPage'[c] => \A l \in objects : Stores(vol[c], l) => l \in page'[c]
          BY <2>1, <3>3, Zenon
        <3>7. \A l : Stores(vol[c], l)' <=> Stores(vol[c], l)
          BY <1>2, <3>3, Zenon DEF Stores
        <3> QED BY <1>1, <2>1, <3>2, <3>3, <3>5, <3>6, <3>7, Zenon DEF Passed
      <2> QED BY <2>2, <2>3, Zenon
    <1>6. CASE DeletePage(c)
      <2>1. CASE c \in waiting /\ objects' = objects \ page[c]
        <3>1. pc[c] = "delete_page"
          BY <1>6, Zenon DEF DeletePage
        <3>2. CASE \E success : Answer(c, success)
          <4>1. CASE lastPage[c]
            BY <1>3, <2>1, <3>1, <3>2, <4>1, Zenon DEF Passed
          <4>2. CASE ~lastPage[c]
            <5>1. Answer(c, FALSE)
              BY <1>1, <1>6, <3>2, <4>2, GotoMoves, DoneReturns, Zenon
              DEF DeletePage, Answer, Returns
            <5> QED BY <1>3, <5>1, Zenon
          <4> QED BY <4>1, <4>2, Zenon
        <3>3. CASE ~\E success : Answer(c, success)
          <4>1. Goto(c, "list") /\ UNCHANGED <<cursor, deleted>>
            BY <1>6, <3>3, Zenon DEF DeletePage, deletion
          <4>2. /\ pc'[c] = "list" /\ vol'[c] = vol[c] /\ op'[c] = op[c]
                /\ cursor'[c] = cursor[c]
            BY <1>1, <4>1, GotoMoves, Zenon
          <4>3. \A l : Stores(vol[c], l)' <=> Stores(vol[c], l)
            BY <1>2, <4>2, Zenon DEF Stores
          <4> QED BY <1>1, <2>1, <3>1, <4>1, <4>2, <4>3, Zenon DEF Passed
        <3> QED BY <3>2, <3>3, Zenon
      <2>2. CASE Answer(c, FALSE)
        BY <1>3, <2>2, Zenon
      <2>3. Answer(c, FALSE) \/ (c \in waiting /\ objects' = objects \ page[c])
        <3>1. \A failed \in SUBSET page[c] :
                  (failed # {} => Fails("object")) => failed = {}
          BY Zenon DEF Fails, DeletionEnvironment
        <3> QED BY <1>6, <3>1, Zenon DEF DeletePage
      <2> QED BY <2>1, <2>2, <2>3, Zenon
    <1> QED BY <1>4, <1>5, <1>6, Zenon DEF DeleteStep

\* CreatePod and RemovePod do not list.
LEMMA PodStepsDoNotList ==
    ASSUME TypeOK, NEW c \in Calls, CreatePod(c) \/ RemovePod(c)
    PROVE  {pc[c], pc'[c]} \cap {"list", "delete_page"} = {}
    <1>1. /\ \A label : Goto(c, label) => pc'[c] = label
          /\ \A status : Reply(c, status) => pc'[c] = "idle"
      BY GotoMoves, DoneReturns, Zenon DEF Reply, Returns
    <1>2. PodRemoved(c) => pc'[c] \notin {"list", "delete_page"}
      BY <1>1, Zenon DEF PodRemoved
    <1>3. CASE CreatePod(c)
      BY <1>1, <1>3, Zenon
      DEF CreatePod, WriteSecret, GetPod, CreateApiPod, ReplacePod, AwaitReplaced,
          AwaitReady, CreateFails, At
    <1>4. CASE RemovePod(c)
      BY <1>1, <1>2, <1>4, Zenon
      DEF RemovePod, RemoveGet, RemoveApiPod, AwaitRemoved, ForcePod, AwaitForced,
          RemoveSecret, AwaitGone, At
    <1> QED BY <1>3, <1>4, Zenon

\* Every step keeps PassedIsDeleted.
LEMMA PassedStep ==
    ASSUME SerialEnvironment, DeletionEnvironment, LayoutsAgree, LocationsDisjoint,
           CallInv, OneCallAtATime, NothingForced, RemoversInformed,
           PassedIsDeleted, [Next]_vars
    PROVE  PassedIsDeleted'
    <1>0. /\ TypeOK /\ \A c \in Calls : CallOK(c) /\ PageOK(c) /\ Passed(c)
          /\ deleted \subseteq released /\ released \subseteq Volumes
      BY Zenon DEF CallInv, PassedIsDeleted, TypeOK
    <1> DEFINE Gone(v) == /\ pods[v] = None
                          /\ config[v].delete => \A k \in objects : ~Stores(v, k)
    <1>1. ASSUME config' = config, objects' \subseteq objects,
                 NEW v \in Volumes, Gone(v), pods'[v] = None
          PROVE  Gone(v)'
      BY <1>1, Zenon DEF Stores
    <1>2. CASE \E c \in Calls : CallStep(c)
      <2>1. PICK c \in Calls : CallStep(c)
        BY <1>2, Zenon
      <2>2. /\ CallFacts(c) /\ Active(c) /\ vol[c] \in Volumes
            /\ \/ UNCHANGED <<pods, dying>> /\ pc'[c] # "await_removed"
               \/ Creates(c) \/ Deletes(c)
            /\ \A v \in Volumes \ {vol[c]} :
                  pods'[v] = pods[v] /\ dying'[v] = dying[v]
            /\ \A d \in Calls \ {c} : Active(d) =>
                  vol[d] \in Volumes /\ vol[d] # vol[c]
        BY <2>1, SerialCalls, Zenon
      <2>3. config' = config /\ objects' \subseteq objects /\ c \in waiting
        BY <2>1, <2>2, Zenon
        DEF CallStep, DeleteStep, Resolve, ListPage, DeletePage, store, CallFacts,
            Around, OneCallAtATime
      <2>4. ASSUME NEW d \in Calls \ {c} PROVE Passed(d)'
        <3>1. op[d] = "delete" /\ Active(d) => pods'[vol[d]] = pods[vol[d]]
          BY <2>2, Zenon
        <3> QED BY <1>0, <2>2, <2>3, <3>1, UntouchedPassed, Zenon DEF CallFacts
      <2>5. /\ Passed(c)'
            /\ \A v \in deleted' \ deleted : v = vol[c] => Gone(v)'
        <3>1. CASE DeleteStep(c)
          <4>1. pods' = pods /\ pods[vol[c]] = None
            BY <1>0, <2>2, <3>1, Zenon
            DEF DeleteStep, Resolve, ListPage, DeletePage, At, api, Passed, CallOK,
                DeleteLabels
          <4> QED
            BY <1>0, <2>3, <3>1, <4>1, DeletePassed, Zenon DEF Stores
        <3>2. CASE (CreatePod(c) \/ RemovePod(c)) /\ UNCHANGED <<deletion, store>>
          <4>1. deleted' = deleted /\ cursor' = cursor
            BY <3>2, Zenon DEF deletion, store
          <4>2. pc[c] \notin {"list", "delete_page"} /\ pc'[c] \notin {"list", "delete_page"}
            BY <1>0, <3>2, PodStepsDoNotList, Zenon
          <4>3. ASSUME op'[c] = "delete", pc'[c] \in DeleteLabels \cup {"remove_secret"}
                PROVE  pods'[vol'[c]] = None
            <5>1. op[c] = "delete" /\ vol'[c] = vol[c]
              BY <2>2, <4>3, NoneAssumption, Zenon DEF CallFacts, Moves, Returns, Operations
            <5>2. pods[vol[c]] = None
              <6>1. CASE pc[c] \in DeleteLabels \cup {"remove_secret"}
                BY <1>0, <5>1, <6>1, Zenon DEF Passed
              <6>2. CASE pc[c] \notin DeleteLabels \cup {"remove_secret"}
                <7>1. pods[vol[c]] = None \/ Cached(c) = None
                  BY <1>0, <2>1, <2>3, <4>3, <5>1, <6>2, RemovedNotFound, Zenon
                <7>2. Sees(Controller, vol[c]) /\ at[c] = Controller
                  <8>1. vol[c] \in released /\ at[c] = Controller
                    BY <1>0, <2>2, <5>1, Zenon DEF PageOK, CallOK
                  <8> QED BY <2>2, <8>1, Zenon DEF RemoversInformed, OneCallAtATime
                <7> QED BY <7>1, <7>2, Zenon DEF Sees, Cached
              <6> QED BY <6>1, <6>2, Zenon
            <5>3. ~Creates(c)
              BY <1>0, <2>2, <5>1, Zenon DEF Creates, CallOK, CreateLabels
            <5> QED BY <2>2, <5>1, <5>2, <5>3, Zenon DEF Deletes
          <4> QED BY <1>0, <4>1, <4>2, <4>3, Zenon DEF Passed
        <3> QED BY <2>1, <3>1, <3>2, Zenon DEF CallStep
      <2>6. ASSUME NEW v \in deleted' PROVE Gone(v)'
        <3>1. CASE v \in deleted
          <4>1. v # vol[c]
            <5>1. op[c] = "delete" => v # vol[c]
              BY <1>0, <2>3, <3>1, Zenon DEF PageOK
            <5>2. op[c] # "delete" => attached[vol[c]] # None
              BY <1>0, <2>2, NoneAssumption, Zenon DEF OneCallAtATime, CallOK, Plugins
            <5>3. attached[v] = None
              BY <1>0, <3>1, Zenon DEF OneCallAtATime
            <5> QED BY <5>1, <5>2, <5>3, Zenon
          <4>2. v \in Volumes /\ Gone(v)
            BY <1>0, <3>1, Zenon DEF PassedIsDeleted
          <4>3. pods'[v] = None
            BY <2>2, <4>1, <4>2, Zenon
          <4> QED BY <1>1, <2>3, <4>2, <4>3, Zenon
        <3>2. CASE v \notin deleted
          <4>1. deleted' \subseteq Volumes
            BY <1>0, <2>1, CallType, Zenon DEF TypeOK
          <4>2. v = vol[c]
            BY <2>2, <2>6, <3>2, <4>1, Zenon DEF CallFacts
          <4> QED BY <2>5, <2>6, <3>2, <4>2, Zenon
        <3> QED BY <3>1, <3>2, Zenon
      <2> QED BY <2>4, <2>5, <2>6, Zenon DEF PassedIsDeleted
    <1>3. ASSUME UNCHANGED <<config, deleted>>, objects' \subseteq objects,
                 \A v \in Volumes : pods[v] = None => pods'[v] = None,
                 \A d \in Calls : Passed(d)'
          PROVE  PassedIsDeleted'
      <2>1. \A v \in deleted : v \in Volumes /\ Gone(v)
        BY <1>0, Zenon DEF PassedIsDeleted
      <2> QED BY <1>3, <2>1, Zenon DEF PassedIsDeleted, Stores
    <1>4. CASE \E c \in Calls, v \in Volumes : StartStep(c, v)
      <2>1. PICK c \in Calls, v \in Volumes : StartStep(c, v)
        BY <1>4, Zenon
      <2>2. PICK label \in {"write_secret", "remove_get"} :
                \E plugin, operation : StartCall(c, plugin, v, operation, label)
        BY <2>1, Zenon DEF StartStep, Publish, Unpublish, DeleteVolume
      <2>3. /\ UNCHANGED <<pods, deletion, store>> /\ pc[c] = "idle"
            /\ pc'[c] = label /\ \A d \in Calls \ {c} : Untouched(d)
        <3>1. UNCHANGED <<pods, deletion, store>>
          BY <2>1, <2>2, Zenon DEF StartStep, DeleteVolume, StartCall, api
        <3>2. /\ pc[c] = "idle" /\ pc'[c] = label
              /\ \A d \in Calls \ {c} :
                    /\ pc'[d] = pc[d] /\ at'[d] = at[d] /\ vol'[d] = vol[d]
                    /\ op'[d] = op[d] /\ waited'[d] = waited[d]
                    /\ d \in waiting' <=> d \in waiting
          BY <1>0, <2>2, ZenonT(60) DEF StartCall, At, TypeOK, PodTypeOK
        <3> QED BY <3>1, <3>2, Zenon DEF Untouched, deletion
      <2>4. Passed(c)'
        BY <1>0, <2>2, <2>3, Zenon DEF Passed, deletion, DeleteLabels
      <2>5. \A d \in Calls \ {c} : Passed(d)'
        BY <1>0, <2>3, UntouchedPassed, Zenon DEF store
      <2> QED BY <1>3, <2>3, <2>4, <2>5, Zenon DEF store
    <1>5. CASE \/ /\ \/ \E c \in Calls : GiveUp(c)
                     \/ \E v \in Volumes : MoveStep(v) \/ ServerStep(v)
                     \/ \E p \in Plugins : Sync(p) \/ Shutdown(p)
                     \/ Tick
                  /\ UNCHANGED <<deletion, store>>
               \/ \E v \in Volumes : Release(v)
               \/ UNCHANGED vars
      <2>1. UNCHANGED <<pc, vol, op, page, lastPage, cursor, config, objects, deleted>>
        <3>1. CASE UNCHANGED vars
          BY <3>1, Zenon DEF vars, podVars, calls, call, deletion, store
        <3>2. CASE ~UNCHANGED vars
          <4>1. SameCalls
            BY <1>5, <3>2, ClusterCalls, Zenon
          <4> QED BY <1>5, <3>2, <4>1, Zenon DEF SameCalls, call, deletion, store, Release
        <3> QED BY <3>1, <3>2, Zenon
      <2>2. \A v \in Volumes : pods[v] = None => pods'[v] = None
        <3>1. CASE \E v \in Volumes : ServerStep(v)
          BY <1>0, <3>1, Zenon
          DEF ServerStep, StartServer, StopServer, KillServer, RemoveObject, api,
              TypeOK, PodTypeOK
        <3>2. CASE ~\E v \in Volumes : ServerStep(v)
          <4>1. pods' = pods
            BY <1>5, <3>2, Zenon
            DEF GiveUp, MoveStep, Attach, Detach, Sync, Shutdown, Tick, Release,
                vars, podVars, api
          <4> QED BY <4>1, Zenon
        <3> QED BY <3>1, <3>2, Zenon
      <2>3. \A d \in Calls : Active(d) => vol[d] \in Volumes
        BY <1>0, Zenon DEF CallOK
      <2>4. \A d \in Calls : Passed(d)'
        BY <1>0, <2>1, <2>2, <2>3, Zenon DEF Passed, Stores, Active, DeleteLabels
      <2> QED BY <1>3, <2>1, <2>2, <2>4, Zenon
    <1>6. CASE \E k \in Keys : Store(k)
      <2>1. PICK k \in Keys : Store(k)
        BY <1>6, Zenon
      <2>2. /\ UNCHANGED <<pods, pc, vol, op, page, lastPage, cursor, config, deleted>>
            /\ objects' = objects \cup {k}
        BY <2>1, Zenon DEF Store, podVars, calls, call, api, deletion
      <2>3. ASSUME NEW v \in Volumes, pods[v] = None PROVE ~Stores(v, k)
        <3>1. PICK w \in Volumes, n \in Nodes : <<w, n>> \in running /\ Stores(w, k)
          BY <2>1, Zenon DEF Store
        <3>2. w # v
          BY <2>3, <3>1, Zenon DEF NothingForced
        <3>3. config[v] \in Configs /\ config[w] \in Configs
          BY <1>0, Zenon DEF TypeOK
        <3> QED BY <3>1, <3>2, <3>3, Zenon DEF LocationsDisjoint, Stores
      <2>4. \A d \in Calls : pc[d] \in {"list", "delete_page"} => ~Stores(vol[d], k)
        BY <1>0, <2>3, Zenon DEF Passed, CallOK, Active, DeleteLabels
      <2>5. \A v \in Volumes : \A l : Stores(v, l)' <=> Stores(v, l)
        BY <2>2, Zenon DEF Stores
      <2>6. \A d \in Calls : Passed(d)'
        BY <1>0, <2>2, <2>4, Zenon DEF Passed, Stores
      <2>7. ASSUME NEW v \in deleted PROVE Gone(v)'
        <3>1. v \in Volumes /\ Gone(v)
          BY <1>0, Zenon DEF PassedIsDeleted
        <3>2. ~Stores(v, k)
          BY <2>3, <3>1, Zenon
        <3> QED BY <2>2, <2>5, <3>1, <3>2, Zenon
      <2> QED BY <2>2, <2>6, <2>7, Zenon DEF PassedIsDeleted
    <1>7. CASE \E p \in Plugins : RestartPlugin(p)
      <2>1. PICK p \in Plugins : RestartPlugin(p)
        BY <1>7, Zenon
      <2>2. /\ UNCHANGED <<pods, store>>
            /\ \A d \in Calls :
                  (Returns(d) /\ cursor'[d] = -1) \/ Untouched(d)
        BY <1>0, <2>1, RestartFacts, Zenon
      <2>3. ASSUME NEW d \in Calls PROVE Passed(d)'
        <3>1. CASE Untouched(d)
          BY <1>0, <2>2, <3>1, UntouchedPassed, Zenon DEF store
        <3>2. CASE Returns(d) /\ cursor'[d] = -1
          BY <3>2, Zenon DEF Returns, Passed, DeleteLabels
        <3> QED BY <2>2, <3>1, <3>2, Zenon
      <2> QED BY <1>3, <2>2, <2>3, Zenon DEF store
    <1> QED
      <2>1. CASE Next
        BY <1>2, <1>4, <1>5, <1>6, <1>7, <2>1, NextSteps, Zenon DEF MoveStep, ServerStep
      <2> QED BY <1>5, <2>1, Zenon

-----------------------------------------------------------------------------

\* VolumeInv is an invariant of the environment a deletion depends on.
THEOREM VolumeInvariant ==
    ASSUME SerialEnvironment, DeletionEnvironment, LayoutsAgree, LocationsDisjoint
    PROVE  Spec => []VolumeInv
    <1>1. Init => PassedIsDeleted
      BY Zenon DEF Init, PodInit, PassedIsDeleted, Passed, DeleteLabels
    <1>2. PodsInv /\ PassedIsDeleted /\ [Next]_vars => PassedIsDeleted'
      BY PassedStep, Zenon DEF PodsInv
    <1>3. PodsInv /\ PassedIsDeleted => VolumeInv
      BY Zenon DEF PodsInv, VolumeInv
    <1> QED BY <1>1, <1>2, <1>3, PodsInvariant, PTL DEF Spec

\* When DeleteVolume has confirmed the deletion of a volume whose data go with
\* it, no object of the volume is left and no server can store another one.
THEOREM DeletionComplete ==
    ASSUME SerialEnvironment, DeletionEnvironment, LayoutsAgree, LocationsDisjoint
    PROVE  Spec => []DataDeleted
    <1>1. VolumeInv => DataDeleted
      <2> SUFFICES ASSUME VolumeInv, NEW v \in deleted, config[v].delete
                   PROVE  /\ \A k \in objects : ~Stores(v, k)
                          /\ \A n \in Nodes : <<v, n>> \notin running
        BY Zenon DEF DataDeleted
      <2>1. v \in Volumes
        BY Zenon DEF VolumeInv, CallInv, TypeOK
      <2>2. pods[v] = None /\ \A k \in objects : ~Stores(v, k)
        BY Zenon DEF VolumeInv, PassedIsDeleted
      <2>3. \A n \in Nodes : <<v, n>> \notin running
        BY <2>1, <2>2, Zenon DEF VolumeInv, NothingForced
      <2> QED BY <2>2, <2>3, Zenon
    <1> QED BY <1>1, VolumeInvariant, PTL

-----------------------------------------------------------------------------
(* The promise of module VolumeStore: each step that touches a server, the *)
(* bucket, a claim or a confirmation is one of its actions, and every      *)
(* other step changes nothing it talks of.                                 *)

Promised == [Promise!Next]_Promise!vars

\* What a volume stores is what the promise says it holds.
LEMMA HeldIsStored ==
    ASSUME NEW v, NEW k
    PROVE  HoldsKey(config[v], v, k) <=> Stores(v, k)
    BY Zenon DEF HoldsKey, Stores

\* A step that touches none of the promise's variables.
LEMMA OtherSteps ==
    ASSUME UNCHANGED <<running, objects, released, deleted, config>>
    PROVE  Promised
    BY Zenon DEF Promised, Promise!vars

\* A volume without a pod has no server.
LEMMA NoPodNoServer ==
    ASSUME NothingForced, NEW v \in Volumes, pods[v] = None
    PROVE  ~Promise!Served(v)
    BY Zenon DEF NothingForced, Promise!Served

\* DeleteVolume deletes objects of its own volume, whose claim is deleted.
LEMMA DeleteEffects ==
    ASSUME DeletionEnvironment, LayoutsAgree, CallInv, OneCallAtATime,
           NEW c \in Calls, DeleteStep(c)
    PROVE  /\ vol[c] \in Volumes /\ vol[c] \in released \ deleted
           /\ UNCHANGED <<running, released, config, pods>>
           /\ objects' \subseteq objects
           /\ \A k \in objects \ objects' : Stores(vol[c], k)
           /\ objects' # objects => config[vol[c]].delete
           /\ deleted' \in {deleted, deleted \cup {vol[c]}}
    <1> USE DEF At
    <1>1. /\ TypeOK /\ CallOK(c) /\ PageOK(c) /\ op[c] = "delete"
          /\ vol[c] \in Volumes /\ c \in waiting
      BY Zenon DEF CallInv, DeleteStep, Resolve, ListPage, DeletePage, DeleteLabels,
             Active, CallOK, OneCallAtATime
    <1>2. vol[c] \in released \ deleted
      BY <1>1, Zenon DEF PageOK
    <1>3. UNCHANGED <<running, released, config, pods>>
      BY Zenon DEF DeleteStep, Resolve, ListPage, DeletePage, Goto, Answer, Done, api
    <1>4. deleted' \in {deleted, deleted \cup {vol[c]}}
      BY DeleteCallSteps, Zenon DEF Answer
    <1>5. CASE objects' = objects
      BY <1>1, <1>2, <1>3, <1>4, <1>5, Zenon
    <1>6. CASE objects' # objects
      <2>1. /\ pc[c] = "delete_page"
            /\ \E failed \in SUBSET page[c] : objects' = objects \ (page[c] \ failed)
        BY <1>6, Zenon DEF DeleteStep, Resolve, ListPage, DeletePage
      <2>2. Usable(config[vol[c]]) /\ config[vol[c]].delete
        BY <1>1, <2>1, Zenon DEF PageOK
      <2>3. \A k \in objects \ objects' : k \in page[c]
        BY <2>1, Zenon
      <2>4. \A k \in objects \ objects' : Stores(vol[c], k)
        BY <1>1, <2>1, <2>2, <2>3, FoundIsStored, Zenon DEF PageOK
      <2> QED BY <1>1, <1>2, <1>3, <1>4, <2>1, <2>2, <2>4, Zenon
    <1> QED BY <1>5, <1>6, Zenon

\* A step of DeleteVolume erases data or confirms the deletion.
LEMMA DeletePromised ==
    ASSUME DeletionEnvironment, LayoutsAgree, VolumeInv, PassedIsDeleted',
           NEW c \in Calls, DeleteStep(c)
    PROVE  Promised
    <1>0. vol[c] \in Volumes
      BY DeleteEffects, Zenon DEF VolumeInv
    <1> PICK v \in Volumes : v = vol[c]
      BY <1>0, Zenon
    <1>1. /\ v \in released \ deleted
          /\ UNCHANGED <<running, released, config, pods>>
          /\ objects' \subseteq objects
          /\ \A k \in objects \ objects' : Stores(v, k)
          /\ objects' # objects => config[v].delete
          /\ deleted' \in {deleted, deleted \cup {v}}
      BY DeleteEffects, Zenon DEF VolumeInv
    <1>2. objects \ objects' \subseteq Promise!Data(v)
      BY <1>1, HeldIsStored, Zenon DEF Promise!Data
    <1>3. CASE deleted' = deleted /\ objects' = objects
      BY <1>1, <1>3, OtherSteps, Zenon
    <1>4. CASE deleted' = deleted /\ objects' # objects
      <2>1. Promise!Erase(v)
        BY <1>1, <1>2, <1>4, Zenon DEF Promise!Erase, DeletesData
      <2> QED BY <1>1, <2>1, Zenon DEF Promised, Promise!Next
    <1>5. CASE deleted' = deleted \cup {v}
      <2>1. /\ pods'[v] = None
            /\ config'[v].delete => \A k \in objects' : ~Stores(v, k)'
        BY <1>5, Zenon DEF PassedIsDeleted
      <2>2. ~Promise!Served(v)
        BY <1>1, <2>1, NoPodNoServer, Zenon DEF VolumeInv
      <2>3. \A k : Stores(v, k)' <=> Stores(v, k)
        BY <1>1, Zenon DEF Stores
      <2>4. CASE config[v].delete
        <3>1. \A k \in objects' : k \notin Promise!Data(v)
          BY <1>1, <2>1, <2>3, <2>4, HeldIsStored, Zenon DEF Promise!Data
        <3>2. objects' = objects \ Promise!Data(v)
          BY <1>1, <1>2, <3>1, Zenon
        <3>3. Promise!Confirm(v)
          BY <1>1, <1>5, <2>2, <2>4, <3>2, Zenon DEF Promise!Confirm, DeletesData
        <3> QED BY <1>1, <3>3, Zenon DEF Promised, Promise!Next
      <2>5. CASE ~config[v].delete
        <3>1. Promise!Confirm(v)
          BY <1>1, <1>5, <2>2, <2>5, Zenon DEF Promise!Confirm, DeletesData
        <3> QED BY <1>1, <3>1, Zenon DEF Promised, Promise!Next
      <2> QED BY <2>4, <2>5, Zenon
    <1> QED BY <1>1, <1>3, <1>4, <1>5, Zenon

\* A kubelet starts a server only where none of the volume runs, and none of a
\* volume that is deleted.
LEMMA ServerPromised ==
    ASSUME VolumeInv, NEW v \in Volumes, ServerStep(v)
    PROVE  Promised
    <1>1. /\ UNCHANGED <<objects, released, deleted, config>>
          /\ pods[v] # None => pods[v].node \in Nodes
      <2>1. UNCHANGED <<objects, released, deleted, config>>
        BY Zenon DEF ServerStep, store
      <2>2. pods[v] # None => pods[v] \in PodObjects
        BY Zenon DEF VolumeInv, CallInv, TypeOK, PodTypeOK
      <2> QED BY <2>1, <2>2 DEF PodObjects
    <1>2. ASSUME NEW n \in Nodes, running' = running \ {<<v, n>>}
          PROVE  Promised
      BY <1>1, <1>2, Zenon DEF Promised, Promise!Next, Promise!Stop
    <1>3. CASE StartServer(v)
      <2>1. pods[v] # None /\ running' = running \cup {<<v, pods[v].node>>}
        BY <1>3, Zenon DEF StartServer
      <2>2. v \notin deleted
        BY <2>1, Zenon DEF VolumeInv, PassedIsDeleted
      <2>3. CASE Promise!Served(v)
        <3>1. <<v, pods[v].node>> \in running
          BY <2>3, Zenon DEF Promise!Served, VolumeInv, NothingForced
        <3>2. running' = running
          BY <2>1, <3>1, Zenon
        <3> QED BY <1>1, <3>2, OtherSteps, Zenon
      <2>4. CASE ~Promise!Served(v)
        <3>1. Promise!Start(v, pods[v].node)
          BY <1>1, <2>1, <2>2, <2>4, Zenon DEF Promise!Start
        <3> QED BY <1>1, <2>1, <3>1, Zenon DEF Promised, Promise!Next
      <2> QED BY <2>3, <2>4, Zenon
    <1>4. CASE StopServer(v)
      BY <1>1, <1>2, <1>4, Zenon DEF StopServer
    <1>5. CASE \E n \in Nodes : KillServer(v, n)
      BY <1>2, <1>5, Zenon DEF KillServer
    <1> QED BY <1>3, <1>4, <1>5, Zenon DEF ServerStep

\* Every step is one the promise allows, or changes nothing it talks of.
LEMMA StepPromised ==
    ASSUME DeletionEnvironment, LayoutsAgree, VolumeInv, PassedIsDeleted',
           [Next]_vars
    PROVE  Promised
    <1>1. CASE UNCHANGED vars
      BY <1>1, OtherSteps, Zenon DEF vars, podVars, store
    <1>2. CASE \E c \in Calls : CallStep(c)
      <2>1. PICK c \in Calls : CallStep(c)
        BY <1>2, Zenon
      <2>2. CASE DeleteStep(c)
        BY <2>2, DeletePromised, Zenon
      <2>3. CASE (CreatePod(c) \/ RemovePod(c)) /\ UNCHANGED <<deletion, store>>
        <3>1. running' = running
          BY <2>1, CallStepFacts, Zenon DEF CallFacts, Around, VolumeInv, CallInv
        <3> QED BY <2>3, <3>1, OtherSteps, Zenon DEF store
      <2> QED BY <2>1, <2>2, <2>3, Zenon DEF CallStep
    <1>3. CASE \E v \in Volumes : ServerStep(v)
      BY <1>3, ServerPromised, Zenon
    <1>4. CASE \E v \in Volumes : Release(v)
      <2>1. PICK v \in Volumes : Release(v)
        BY <1>4, Zenon
      <2>2. Promise!Release(v)
        BY <2>1, Zenon DEF Release, Promise!Release, podVars
      <2> QED BY <2>2, Zenon DEF Promised, Promise!Next
    <1>5. CASE \E k \in Keys : Store(k)
      <2>1. PICK k \in Keys : Store(k)
        BY <1>5, Zenon
      <2>2. PICK v \in Volumes, n \in Nodes : <<v, n>> \in running /\ Stores(v, k)
        BY <2>1, Zenon DEF Store
      <2>3. Promise!Write(v, k)
        BY <2>1, <2>2, HeldIsStored, Zenon
        DEF Store, Promise!Write, Promise!Served, podVars
      <2> QED BY <2>3, Zenon DEF Promised, Promise!Next
    <1>6. CASE \/ \E c \in Calls, v \in Volumes : StartStep(c, v)
               \/ \E c \in Calls : GiveUp(c) /\ UNCHANGED <<deletion, store>>
               \/ \E v \in Volumes : MoveStep(v)
               \/ \E p \in Plugins : Sync(p) /\ UNCHANGED <<deletion, store>>
               \/ \E p \in Plugins : Shutdown(p) /\ UNCHANGED <<deletion, store>>
               \/ Tick /\ UNCHANGED <<deletion, store>>
               \/ \E p \in Plugins : RestartPlugin(p)
      <2>1. UNCHANGED store /\ running' = running
        BY <1>6, Zenon
        DEF StartStep, Publish, Unpublish, DeleteVolume, StartCall, GiveUp, MoveStep,
            Attach, Detach, Sync, Shutdown, Tick, RestartPlugin, Restart
      <2> QED BY <2>1, OtherSteps, Zenon DEF store
    <1> QED BY <1>1, <1>2, <1>3, <1>4, <1>5, <1>6, NextSteps, Zenon

-----------------------------------------------------------------------------

\* The driver implements VolumeStore: in an environment in which servers stop
\* in time and callers wait, one server at a time writes the data of a volume,
\* and a deletion that DeleteVolume has confirmed is complete and final.
THEOREM PromiseKept ==
    ASSUME SerialEnvironment, DeletionEnvironment, LayoutsAgree, LocationsDisjoint
    PROVE  Spec => DataPromised
    <1>1. Init => Promise!Init
      <2> SUFFICES ASSUME Init PROVE Promise!Init
        OBVIOUS
      <2>1. /\ config \in [Volumes -> Configs] /\ running = {}
            /\ released = {} /\ deleted = {} /\ objects \subseteq Keys
        BY Zenon DEF Init, PodInit
      <2>2. \A v \in Volumes : Promise!Data(v) = {}
        BY HeldIsStored, Zenon DEF Init, Promise!Data
      <2> QED BY <2>1, <2>2, Zenon DEF Promise!Init
    <1>2. VolumeInv /\ VolumeInv' /\ [Next]_vars => [Promise!Next]_Promise!vars
      BY StepPromised, Zenon DEF VolumeInv, Promised
    <1> QED
      BY <1>1, <1>2, VolumeInvariant, PTL DEF Spec, DataPromised, Promise!Spec

=============================================================================
