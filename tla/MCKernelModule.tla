--------------------------- MODULE MCKernelModule ---------------------------
(* Model-checking instance of KernelModule. *)
EXTENDS KernelModuleInv

KernelSymmetry == Permutations(Tasks) \union Permutations(Files) \union Permutations(MapIds)
=============================================================================
