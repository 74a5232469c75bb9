---------------------------- MODULE MCDmaMapping ----------------------------
EXTENDS DmaMapping, TLC

HandleSymmetry == Permutations(Handles) \union Permutations(Threads)

=============================================================================
