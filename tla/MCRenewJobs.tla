----------------------------- MODULE MCRenewJobs -----------------------------
(* Instances of RenewJobs for TLC: two domains, few jobs at a time.        *)
EXTENDS RenewJobs, TLC

CONSTANTS d1, d2, w1, w2, j1, j2, j3

Symmetry == Permutations(Domains) \cup Permutations(Slots) \cup Permutations(Workers)
=============================================================================
