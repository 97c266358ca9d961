---------------------------- MODULE ConfigHistory ----------------------------
(***************************************************************************)
(* What config_store promises about one appliance.yaml, whatever the web   *)
(* workers do concurrently: the file goes from one complete version to the *)
(* next, and each version is one accepted edit (or the one-time migration) *)
(* of a version the file has held.  Which one is what separates the two    *)
(* specifications below: an earlier one, when several workers serve the    *)
(* same file, and always the current one when a single worker does.        *)
(***************************************************************************)
CONSTANTS Edits(_),           \* what one accepted edit may make of a configuration
          NeedsMigration(_),  \* is it in the old format?
          Migrated(_),        \* the same in the current format
          InitialVersions,    \* what the first reader of the file may find
          EditIds             \* identifies accepted edits in the history

VARIABLES config,    \* the version the file holds
          versions   \* every version it has held so far

hvars == <<config, versions>>

(* A version is a record of a configuration, cfg, and of the edits in it.   *)
MigrationOf(v) == [v EXCEPT !.cfg = Migrated(@)]

EditsOf(v) ==
    UNION {{[cfg |-> c, edits |-> v.edits \cup {id}] : c \in Edits(v.cfg)} : id \in EditIds}

Successors(v) == IF NeedsMigration(v.cfg) THEN {MigrationOf(v)} ELSE EditsOf(v)

HInit == config \in InitialVersions /\ versions = {config}

CommitTo(base) ==
    /\ config' \in Successors(base)
    /\ versions' = versions \cup {config'}

Commit == \E base \in versions : CommitTo(base)

(* Any worker may commit an edit of any version it once loaded.            *)
HistorySpec == HInit /\ [][Commit]_hvars

(* Every edit applies to the version it replaces: nothing is lost.         *)
SerialSpec == HInit /\ [][CommitTo(config)]_hvars
=============================================================================
