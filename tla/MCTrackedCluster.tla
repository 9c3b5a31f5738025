---------------------------- MODULE MCTrackedCluster ----------------------------
(* Instance of TrackedCluster for TLC: the nodes are interchangeable. *)
EXTENDS TrackedCluster, TLC

Symmetry == Permutations(Nodes)

================================================================================
