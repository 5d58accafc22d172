---------------------------- MODULE LeafIndexMC ----------------------------
(* Small instances of LeafIndex.                                           *)
EXTENDS LeafReads, TLC

CONSTANTS small, large

MCSize == small :> 1 @@ large :> 2
MCSizeFixed == small :> 1 @@ large :> 1
Symmetry == Permutations(Leaves)
==============================================================================
