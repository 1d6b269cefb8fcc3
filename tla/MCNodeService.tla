--------------------------- MODULE MCNodeService ---------------------------
(* Instances of NodeService for TLC: the targets are for volumes of their  *)
(* own, or all of them for one volume.                                     *)
EXTENDS NodeClean, TLC

CONSTANTS v1, v2, t1, t2

OneTargetEach == [t \in Targets |-> IF t = t1 THEN v1 ELSE v2]
OneVolume == [t \in Targets |-> v1]

\* Handlers are interchangeable goroutines.
HandlerSymmetry == Permutations(Handlers)

=============================================================================
