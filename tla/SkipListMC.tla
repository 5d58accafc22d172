---------------------------- MODULE SkipListMC ----------------------------
EXTENDS SkipList, TLC

Symmetry == Permutations(Leaves) \cup Permutations(NodePages)
==============================================================================
