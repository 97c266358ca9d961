----------------------------- MODULE ConfigStore -----------------------------
(***************************************************************************)
(* webui/config_store.py and the handlers that call it, over one           *)
(* appliance.yaml.  Workers are gunicorn worker processes: one in the      *)
(* single-instance profile, two in the MSP Console.  Every route first     *)
(* calls load_config(), which takes no lock; a POST then edits the copy in *)
(* memory and calls save_config(), whose flock covers the backup, the      *)
(* temporary file and the rename, but not the load.                        *)
(***************************************************************************)
EXTENDS ApplianceConfig, Naturals, FiniteSets

CONSTANTS
    Workers,       \* gunicorn worker processes
    InitialFiles,  \* what appliance.yaml may hold when the workers start
    NoFile,        \* no such file
    Torn,          \* a file that is truncated or partly written
    Free,          \* nobody holds the flock
    Keep,          \* backups kept by _prune_old_backups (30 in the code)
    MaxEdits,      \* bound: accepted edits in a behaviour
    MaxNow         \* bound: seconds that pass in a behaviour

EditIds == 1 .. MaxEdits
Stamps  == 0 .. MaxNow   \* the seconds a backup may be named after

(* File content, with the edits that went into it (a history component     *)
(* that no step reads).                                                    *)
Content == [cfg : Config, edits : SUBSET EditIds]

(* A file of backups/.  copy2 gives it the mtime of the version it copies  *)
(* (whole) as its last step; until then its mtime is that of the copying,  *)
(* which falls after the writing of the version then current and before    *)
(* the writing of the next.  `of` numbers that version.                    *)
BackupFile == [data : Content \cup {Torn}, of : Nat, whole : BOOLEAN]

ASSUME WorkersAssumption == Workers # {} /\ Free \notin Workers
ASSUME BoundsAssumption ==
    Keep \in Nat \ {0} /\ MaxEdits \in Nat /\ MaxNow \in Nat
ASSUME FilesAssumption ==
    /\ InitialFiles \subseteq Content \cup {NoFile}
    /\ \A f \in InitialFiles \ {NoFile} : WellFormed(f.cfg)
    /\ NoFile \notin Content \cup BackupFile /\ Torn \notin Content /\ NoFile # Torn

VARIABLES
    file,      \* appliance.yaml
    tmp,       \* appliance.yaml.tmp
    backups,   \* backups/appliance-<stamp>.yaml, by stamp
    version,   \* versions of appliance.yaml written so far
    stamp,     \* the name of the backup being copied
    lock,      \* holder of the flock on appliance.yaml.lock
    now,       \* the second the clock shows
    pc,        \* the step each worker takes next; "load" when it has no request
    snap,      \* the configuration a worker has in memory
    migrating  \* is this worker's save the one made by load_config?

VARIABLES   \* history, read by no step
    issued,    \* accepted edits so far
    acked,     \* edits in the versions whose save was answered with success
    saved      \* every version appliance.yaml has held

backupVars == <<backups, stamp>>
fileVars == <<file, tmp, version, lock, backupVars>>
history  == <<issued, acked, saved>>
vars == <<fileVars, now, pc, snap, migrating, history>>

InLock == {"backup", "copy", "stat", "prune", "open", "dump", "replace", "unlock"}
Steps == {"load", "edit", "lock"} \cup InLock

TypeOK ==
    /\ file \in Content \cup {NoFile}
    /\ tmp \in Content \cup {NoFile, Torn}
    /\ backups \in [Stamps -> BackupFile \cup {NoFile}]
    /\ version \in Nat
    /\ stamp \in Stamps
    /\ lock \in Workers \cup {Free}
    /\ now \in Stamps
    /\ pc \in [Workers -> Steps]
    /\ snap \in [Workers -> Content]
    /\ migrating \in [Workers -> BOOLEAN]
    /\ issued \in 0 .. MaxEdits
    /\ acked \subseteq EditIds
    /\ saved \subseteq Content

Default == [cfg |-> DefaultConfig, edits |-> {}]

(* What load_config hands out before migration.                            *)
OnDisk == IF file = NoFile THEN Default ELSE file

Init ==
    /\ file \in InitialFiles
    /\ tmp = NoFile
    /\ backups = [s \in Stamps |-> NoFile]
    /\ version = 0
    /\ stamp = 0
    /\ lock = Free
    /\ now = 0
    /\ pc = [w \in Workers |-> "load"]
    /\ snap = [w \in Workers |-> Default]
    /\ migrating = [w \in Workers |-> FALSE]
    /\ issued = 0
    /\ acked = {}
    /\ saved = {OnDisk}
-----------------------------------------------------------------------------
Goto(w, step) == pc' = [pc EXCEPT ![w] = step]

(* Mutants of Load: the migration is not saved; a copy once loaded is used *)
(* again.                                                                  *)
LoadWithoutSavingMigration(w) ==
    /\ pc[w] = "load"
    /\ snap' = [snap EXCEPT ![w] = [OnDisk EXCEPT !.cfg = Migrated(@)]]
    /\ Goto(w, "edit")
    /\ UNCHANGED <<fileVars, now, migrating, history>>

LoadCached(w) ==
    /\ pc[w] = "load"
    /\ snap' = [snap EXCEPT ![w] = IF @ = Default THEN [OnDisk EXCEPT !.cfg = Migrated(@)]
                                   ELSE @]
    /\ Goto(w, "edit")
    /\ UNCHANGED <<fileVars, now, migrating, history>>

(* load_config: read the file; a legacy one is migrated in memory and saved*)
(* before the handler gets it.                                             *)
Load(w) ==
    /\ pc[w] = "load"
    /\ LET legacy == NeedsMigration(OnDisk.cfg) IN
        /\ snap' = [snap EXCEPT ![w] =
                        IF legacy THEN [OnDisk EXCEPT !.cfg = Migrated(@)] ELSE OnDisk]
        /\ migrating' = [migrating EXCEPT ![w] = legacy]
        /\ Goto(w, IF legacy THEN "lock" ELSE "edit")
    /\ UNCHANGED <<fileVars, now, history>>

(* An accepted POST: the copy in memory becomes one of `results`, and      *)
(* save_config is called with it.                                          *)
Accept(w, results) ==
    /\ pc[w] = "edit"
    /\ issued < MaxEdits
    /\ \E c \in results :
        snap' = [snap EXCEPT ![w] = [cfg |-> c, edits |-> @.edits \cup {issued + 1}]]
    /\ issued' = issued + 1
    /\ Goto(w, "lock")
    /\ UNCHANGED <<fileVars, now, migrating, acked, saved>>

SaveDomainNew(w)            == Accept(w, DomainNew(snap[w].cfg))
SaveDomainEdit(w)           == Accept(w, DomainEdit(snap[w].cfg))
SaveDomainDelete(w)         == Accept(w, DomainDelete(snap[w].cfg))
SaveDnsProviderNew(w)       == Accept(w, DnsProviderNew(snap[w].cfg))
SaveDnsProviderEdit(w)      == Accept(w, DnsProviderEdit(snap[w].cfg))
SaveDnsProviderDelete(w)    == Accept(w, DnsProviderDelete(snap[w].cfg))
SaveDeployProviderNew(w)    == Accept(w, DeployProviderNew(snap[w].cfg))
SaveDeployProviderDelete(w) == Accept(w, DeployProviderDelete(snap[w].cfg))
SaveSettings(w)             == Accept(w, SettingsEdit(snap[w].cfg))

(* A GET, or a POST that is refused: the copy is dropped.                  *)
Respond(w) ==
    /\ pc[w] = "edit"
    /\ Goto(w, "load")
    /\ UNCHANGED <<fileVars, now, snap, migrating, history>>
-----------------------------------------------------------------------------
(* save_config, one system call at a time.                                 *)
AcquireLock(w) ==
    /\ pc[w] = "lock"
    /\ lock = Free
    /\ lock' = w
    /\ Goto(w, "backup")
    /\ UNCHANGED <<file, tmp, version, backupVars, now, snap, migrating, history>>

(* shutil.copy2 onto the backup named after the current second: open, which*)
(* truncates what an earlier save of that second left, then the data, then *)
(* the mtime.                                                              *)
Backup(w) ==
    /\ pc[w] = "backup"
    /\ IF file = NoFile
       THEN Goto(w, "open") /\ UNCHANGED backupVars
       ELSE /\ stamp' = now
            /\ backups' = [backups EXCEPT ![now] = [data |-> Torn, of |-> version, whole |-> FALSE]]
            /\ Goto(w, "copy")
    /\ UNCHANGED <<file, tmp, version, lock, now, snap, migrating, history>>

CopyData(w) ==
    /\ pc[w] = "copy"
    /\ backups' = [backups EXCEPT ![stamp].data = file]
    /\ Goto(w, "stat")
    /\ UNCHANGED <<file, tmp, version, stamp, lock, now, snap, migrating, history>>

CopyStat(w) ==
    /\ pc[w] = "stat"
    /\ backups' = [backups EXCEPT ![stamp].whole = TRUE]
    /\ Goto(w, "prune")
    /\ UNCHANGED <<file, tmp, version, stamp, lock, now, snap, migrating, history>>

Present == {s \in Stamps : backups[s] # NoFile}

(* A mutant of the next definition: the sort is the other way round.       *)
Older(u, s) == backups[u].of < backups[s].of

(* The order by mtime.  Of copies made of one version, and of copies cut   *)
(* short while it was current, any may come first.                         *)
Newer(u, s) == backups[u].of > backups[s].of

(* All but the newest Keep are removed, a removal that fails passed over.  *)
Prune(w) ==
    /\ pc[w] = "prune"
    /\ \E kept \in SUBSET Present :
        /\ kept = Present \/ Cardinality(kept) = Keep
        /\ Cardinality(kept) <= Keep
        /\ \A s \in kept, u \in Present \ kept : ~Newer(u, s)
        /\ \E gone \in SUBSET (Present \ kept) :
            backups' = [s \in Stamps |-> IF s \in gone THEN NoFile ELSE backups[s]]
    /\ Goto(w, "open")
    /\ UNCHANGED <<file, tmp, version, stamp, lock, now, snap, migrating, history>>

(* A mutant of the next definition: renamed before it is written.          *)
OpenTmpAndReplace(w) ==
    /\ pc[w] = "open"
    /\ tmp' = Torn
    /\ Goto(w, "replace")
    /\ UNCHANGED <<file, version, backupVars, lock, now, snap, migrating, history>>

OpenTmp(w) ==
    /\ pc[w] = "open"
    /\ tmp' = Torn
    /\ Goto(w, "dump")
    /\ UNCHANGED <<file, version, backupVars, lock, now, snap, migrating, history>>

(* A mutant of the next definition: the temporary file is never renamed.   *)
DumpOnly(w) ==
    /\ pc[w] = "dump"
    /\ tmp' = snap[w]
    /\ Goto(w, "unlock")
    /\ UNCHANGED <<file, version, backupVars, lock, now, snap, migrating, history>>

Dump(w) ==
    /\ pc[w] = "dump"
    /\ tmp' = snap[w]
    /\ Goto(w, "replace")
    /\ UNCHANGED <<file, version, backupVars, lock, now, snap, migrating, history>>

Replace(w) ==
    /\ pc[w] = "replace"
    /\ file' = tmp
    /\ tmp' = NoFile
    /\ version' = version + 1
    /\ saved' = saved \cup {tmp}
    /\ Goto(w, "unlock")
    /\ UNCHANGED <<backupVars, lock, now, snap, migrating, issued, acked>>

(* The flock is released; after a migration the handler goes on with the   *)
(* migrated copy, otherwise the request is answered.                       *)
Unlock(w) ==
    /\ pc[w] = "unlock"
    /\ lock' = Free
    /\ migrating' = [migrating EXCEPT ![w] = FALSE]
    /\ acked' = IF migrating[w] THEN acked ELSE acked \cup snap[w].edits
    /\ Goto(w, IF migrating[w] THEN "edit" ELSE "load")
    /\ UNCHANGED <<file, tmp, version, backupVars, now, snap, issued, saved>>

(* A mutant of Abort: the lock outlives its holder, as a lock file would.  *)
AbortHoldingLock(w) ==
    /\ pc[w] # "load"
    /\ Goto(w, "load")
    /\ migrating' = [migrating EXCEPT ![w] = FALSE]
    /\ UNCHANGED <<fileVars, now, snap, history>>

(* The request ends early: an exception (the finally clause releases the   *)
(* flock) or the death of the worker (the kernel does).                    *)
Abort(w) ==
    /\ pc[w] # "load"
    /\ lock' = IF lock = w THEN Free ELSE lock
    /\ Goto(w, "load")
    /\ migrating' = [migrating EXCEPT ![w] = FALSE]
    /\ UNCHANGED <<file, tmp, version, backupVars, now, snap, history>>

Tick ==
    /\ now < MaxNow
    /\ now' = now + 1
    /\ UNCHANGED <<fileVars, pc, snap, migrating, history>>
-----------------------------------------------------------------------------
Handle(w) ==
    \/ SaveDomainNew(w) \/ SaveDomainEdit(w) \/ SaveDomainDelete(w)
    \/ SaveDnsProviderNew(w) \/ SaveDnsProviderEdit(w) \/ SaveDnsProviderDelete(w)
    \/ SaveDeployProviderNew(w) \/ SaveDeployProviderDelete(w)
    \/ SaveSettings(w) \/ Respond(w)

Save(w) ==
    \/ Backup(w) \/ CopyData(w) \/ CopyStat(w) \/ Prune(w)
    \/ OpenTmp(w) \/ Dump(w) \/ Replace(w) \/ Unlock(w)

Next ==
    \/ \E w \in Workers : Load(w) \/ Handle(w) \/ AcquireLock(w) \/ Save(w) \/ Abort(w)
    \/ Tick

Spec == Init /\ [][Next]_vars

(* A worker keeps running the request it has begun, and flock(2) serves its*)
(* waiters; nothing makes a request arrive or a save fail.                 *)
Fairness ==
    \A w \in Workers : WF_vars(Handle(w)) /\ WF_vars(Save(w)) /\ SF_vars(AcquireLock(w))

FairSpec == Spec /\ Fairness
-----------------------------------------------------------------------------
(* Every version appliance.yaml holds is a configuration a renewal can use:*)
(* each provider and target an entry names exists and no two entries share *)
(* a name, however the workers' loads, edits and saves interleave          *)
(* (config_store.py:95-129).                                               *)
FileUsable == file # NoFile => WellFormed(file.cfg)

(* Copies that failed or died before their end; their mtime is fresh.      *)
Cut == {s \in Present : ~backups[s].whole}

(* The same of every backup, but those whose copy was cut short: a torn    *)
(* backup is never taken for a whole one by its mtime, also when a save    *)
(* cut short wrote over an earlier backup of its second                    *)
(* (config_store.py:119-121).                                              *)
BackupsUsable ==
    \A s \in Present \ Cut : backups[s].data # Torn /\ WellFormed(backups[s].data.cfg)

(* The version an os.replace overwrites is in the backups at that moment,  *)
(* so a bad edit can be undone (config_store.py:119-127) - unless copies   *)
(* cut short fill all the places that are kept: they count as newer than   *)
(* the backup just made, and the pruning removes it.                       *)
OverwrittenIsBackedUp ==
    [][file' # file /\ file # NoFile =>
        \/ \E s \in Present' : backups'[s].data = file
        \/ Cardinality(Cut') >= Keep]_file

(* Every request ends (config_store.py:116-129): nobody waits for the flock*)
(* for ever, also when a worker died in the middle of its save.            *)
RequestsEnd == \A w \in Workers : pc[w] # "load" ~> pc[w] = "load"

(* What a user was told is saved stays saved, through crashes and restarts *)
(* (the handlers flash success only after save_config returned).           *)
AckedStays == acked \subseteq OnDisk.edits

(* README.md:442, "A provider that is another alias's target_provider      *)
(* cannot be deleted until the alias is removed."                          *)
AliasTargetKept ==
    [][file # NoFile =>
        \A a, t \in DnsProviders :
            file.cfg.dns[a] = t /\ file'.cfg.dns[a] = t /\ file.cfg.dns[t] # Absent
                => file'.cfg.dns[t] # Absent]_file
=============================================================================
