------------------------------ MODULE SymDirMC ------------------------------
(* A small directory: two symbols share a home slot, a third has the slot    *)
(* behind it, and the home of the fourth is the last slot, so that its       *)
(* probes wrap around.                                                       *)
EXTENDS SymDir

CONSTANTS s1, s2, s3, s4

MCHome == [s \in SymbolIds |-> CASE s = s1 -> 0 [] s = s2 -> 0 [] s = s3 -> 1
                                 [] s = s4 -> TotalSlots - 1]
==============================================================================
