--------------------------- MODULE MCSystemUpdates ---------------------------
(* An instance of SystemUpdates for TLC: two domains, few jobs at a time.  *)
EXTENDS SystemUpdates, TLC

CONSTANTS d1, d2, w1, j1, j2

Symmetry == Permutations(Domains) \cup Permutations(Slots)
=============================================================================
