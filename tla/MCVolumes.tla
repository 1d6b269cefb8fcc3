------------------------------ MODULE MCVolumes ------------------------------
(***************************************************************************)
(* Instances of VolumeDeletion for TLC.  The volume v1 shares its          *)
(* directory, its bucket and its id with objects that do not belong to it. *)
(***************************************************************************)
EXTENDS VolumeSerial, TLC

CONSTANTS v1, n1, n2

\* The keys 0 and 2 are those of the volume.
Objects ==
    <<<<"b", "dir", v1, "x">>, <<"b", "dir", "other", "x">>,
      <<"b", "dir", v1, "y">>, <<"b", v1, "x">>,
      <<"b", "dir", "other", v1, "x">>, <<"c", "dir", v1, "x">>,
      <<"b", "dir", "x">>>>

PathOfKeys == [k \in Keys |-> Objects[k + 1]]

Config(delete, url, endpoint) ==
    [delete |-> delete, url |-> url, endpoint |-> endpoint]

URL(path) == [scheme |-> "s3", bucket |-> "b", path |-> path]

DataDeletable == {Config(TRUE, URL(<<"dir">>), TRUE)}

\* Data that are kept; no endpoint; no URL.
AnyConfig ==
    DataDeletable \cup
    {Config(FALSE, URL(<<"dir">>), TRUE), Config(TRUE, URL(<<"dir">>), FALSE),
     Config(TRUE, None, TRUE)}

\* What the proofs assume of names and configurations holds of the instances.
Names == {"b", "c", "zerofs", "dir", "other", "x", "y"} \cup Volumes

ASSUME NamesAssumption == PlainNames(Names)
ASSUME LocationsAssumption == LayoutsAgree /\ LocationsDisjoint

\* path.Join leaves no empty part and no ".", and ".." only in front, and joins
\* a path in two steps like in one.
Paths(n) == UNION {[1..i -> {"", ".", "..", "a"}] : i \in 0..n}

ASSUME JoinNormalises ==
    \A path \in Paths(3) :
        LET joined == Join(path) IN
        /\ \A i \in 1..Len(joined) :
              /\ joined[i] \notin {"", "."}
              /\ joined[i] = ".." => \A j \in 1..i : joined[j] = ".."
        /\ \A more \in Paths(2) : Join(path \o more) = Join(joined \o more)

NodeSymmetry == Permutations({n1, n2})

=============================================================================
