---------------------------- MODULE MCAdminQueue ----------------------------
(* Model-checking instances of AdminQueue. *)
EXTENDS AdminQueue, TLC

\* Threads run the same code.
ThreadSymmetry == Permutations(Threads)
=============================================================================
