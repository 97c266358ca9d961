---------------------------- MODULE MCConfigStore ----------------------------
(* Instances of ConfigStore for TLC: the files the workers may start from. *)
EXTENDS ConfigRefinement, TLC

CONSTANTS a, b, p1, p2, t1, w1, w2

EmptyFile == [cfg |-> DefaultConfig, edits |-> {}]

(* One entry, renewed through p1 and, for a SAN, through the alias p2.     *)
UsedConfig ==
    [dns |-> (p1 :> Direct) @@ (p2 :> p1), deploy |-> {t1}, firewalls |-> {},
     domains |-> {[name |-> a, dns |-> p1, overrides |-> {p2}, targets |-> {t1},
                   legacy |-> FALSE]}]

(* The same, written before deploy_providers existed.                      *)
LegacyConfig ==
    [dns |-> (p1 :> Direct) @@ (p2 :> Absent), deploy |-> {}, firewalls |-> {t1},
     domains |-> {[name |-> a, dns |-> p1, overrides |-> {}, targets |-> {t1},
                   legacy |-> TRUE]}]

UsedFile   == [cfg |-> UsedConfig, edits |-> {}]
LegacyFile == [cfg |-> LegacyConfig, edits |-> {}]

AnyFile    == {NoFile, EmptyFile, UsedFile, LegacyFile}
UsualFile  == {NoFile, UsedFile, LegacyFile}

Symmetry == Permutations(Workers)
=============================================================================
