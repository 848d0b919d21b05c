---------------------------- MODULE MCClusterOps ----------------------------
(* A small kubernetes cluster, where the standard profile for many users   *)
(* does not fit, and two terminals.                                        *)
EXTENDS ClusterOps, TLC

MCUserCounts == {5000, 5001, 30001}
Symmetry == Permutations(Process)
=============================================================================
