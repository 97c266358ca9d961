-------------------------- MODULE ConfigRefinement ---------------------------
(***************************************************************************)
(* ConfigStore implements ConfigHistory: the version the file holds is what*)
(* a load would return, and the versions are those the file has held.      *)
(***************************************************************************)
EXTENDS ConfigStore

Abstract == INSTANCE ConfigHistory WITH
    InitialVersions <- {IF f = NoFile THEN Default ELSE f : f \in InitialFiles},
    config          <- OnDisk,
    versions        <- saved

(* Whatever several workers do, the file goes from one complete version to *)
(* the next, each an edit of some version it has held                      *)
(* (config_store.py:95-129, called by every handler).                      *)
ImplementsHistory == Abstract!HistorySpec

(* With one worker, the single-instance profile (acme-webui.service:20),   *)
(* each version is an edit of the one it replaces.                         *)
ImplementsSerial == Abstract!SerialSpec
=============================================================================
