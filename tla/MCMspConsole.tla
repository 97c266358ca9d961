---------------------------- MODULE MCMspConsole -----------------------------
(* Instances of MspConsole for TLC: two accounts and one customer.         *)
EXTENDS MspConsole

CONSTANTS w1, w2, ann, bob, slug

OwnerOf(o) == [owner |-> o, grants |-> {}, cred |-> 0]

(* Before the setup, one owner, two owners.                                *)
AtFirst == {[u \in {} |-> 0], [u \in {ann} |-> OwnerOf(TRUE)], [u \in {ann, bob} |-> OwnerOf(TRUE)]}
OneOwner == {[u \in {ann} |-> OwnerOf(TRUE)]}
=============================================================================
