------------------------------ MODULE MCDeploy ------------------------------
(* Instances of Deploy.                                                    *)
EXTENDS Deploy, TLC

CONSTANTS nA, nB, nC, nX,       \* names
          pA, pB,               \* prefixes
          fw, web,              \* devices
          fA, fB, wA, wB, gone, \* slots
          r1, r2

MCDeviceOf == [s \in Slots |-> CASE s \in {fA, fB} -> fw [] s \in {wA, wB} -> web [] OTHER -> None]

EntryA == [name |-> nA, extra |-> {nX}, prefix |-> pA, rows |-> <<fA>>]
EntryB == [name |-> nB, extra |-> {}, prefix |-> pB, rows |-> <<gone, fB>>]

(* Two entries share a firewall; the third has two bindings of a server,   *)
(* and the prefix of the first.                                            *)
ThreeEntries == <<EntryA, EntryB, [name |-> nC, extra |-> {}, prefix |-> pA, rows |-> <<wA, wB>>]>>

(* Two entries for one server, with the prefix the form offers.            *)
DefaultPrefix == <<[EntryA EXCEPT !.rows = <<wA>>], [EntryB EXCEPT !.prefix = pA, !.rows = <<wB>>]>>

(* The first instance is as the theorems of DeployProofs ask, the second   *)
(* is not.                                                                 *)
ASSUME InstancesAssumption == Separate <=> Entries = ThreeEntries
=============================================================================
