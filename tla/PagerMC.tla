------------------------------- MODULE PagerMC -------------------------------
(* Small instances of Pager.                                                 *)
EXTENDS Pager, TLC

Symmetry == Permutations(Handles) \cup Permutations(Bytes)
==============================================================================
