---------------------------- MODULE MCClusterRpc ----------------------------
(* Model-checking instances of ClusterRpc. *)
EXTENDS ClusterRpcInv, TLC

ClientSymmetry == Permutations(Clients) \cup Permutations(IntrNos)
=============================================================================
