----------------------------- MODULE VolumeStore -----------------------------
(***************************************************************************)
(* What the driver promises of the data of volumes.  One server at a time  *)
(* writes the data of a volume.  They are deleted only when the claim of   *)
(* the volume is and its class says so, and the deletion is final: once it *)
(* is confirmed, no server of the volume runs or is started, and of data   *)
(* that go with the volume nothing is left.                                *)
(***************************************************************************)
CONSTANTS
    Volumes, Nodes, Keys, Configs,
    Holds(_, _, _),  \* whether a volume that is so configured has data at a key
    Deletes(_)       \* whether the data of a volume that is so configured go

VARIABLES
    config,    \* the configuration of a volume
    running,   \* the servers that run: pairs of volume and node
    objects,   \* the keys of the objects that are stored
    released,  \* the volumes whose claim is deleted
    deleted    \* the volumes whose deletion was confirmed

vars == <<running, objects, released, deleted, config>>

Served(v) == \E n \in Nodes : <<v, n>> \in running

Data(v) == {k \in objects : Holds(config[v], v, k)}

Init ==
    /\ config \in [Volumes -> Configs]
    /\ running = {}
    /\ objects \subseteq Keys /\ \A v \in Volumes : Data(v) = {}
    /\ released = {}
    /\ deleted = {}

Start(v, n) ==
    /\ ~Served(v) /\ v \notin deleted
    /\ running' = running \cup {<<v, n>>}
    /\ UNCHANGED <<config, objects, released, deleted>>

Stop(v, n) ==
    /\ running' = running \ {<<v, n>>}
    /\ UNCHANGED <<config, objects, released, deleted>>

Write(v, k) ==
    /\ Served(v) /\ Holds(config[v], v, k)
    /\ objects' = objects \cup {k}
    /\ UNCHANGED <<config, running, released, deleted>>

Release(v) ==
    /\ released' = released \cup {v}
    /\ UNCHANGED <<config, running, objects, deleted>>

Erase(v) ==
    /\ v \in released \ deleted /\ Deletes(config[v])
    /\ objects' \subseteq objects /\ objects \ objects' \subseteq Data(v)
    /\ UNCHANGED <<config, running, released, deleted>>

\* The last objects may go with the confirmation.
Confirm(v) ==
    /\ v \in released \ deleted /\ ~Served(v)
    /\ objects' = IF Deletes(config[v]) THEN objects \ Data(v) ELSE objects
    /\ deleted' = deleted \cup {v}
    /\ UNCHANGED <<config, running, released>>

Next ==
    \E v \in Volumes :
        \/ Release(v) \/ Erase(v) \/ Confirm(v)
        \/ \E n \in Nodes : Start(v, n) \/ Stop(v, n)
        \/ \E k \in Keys : Write(v, k)

Spec == Init /\ [][Next]_vars

=============================================================================
