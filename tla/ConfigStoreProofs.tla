-------------------------- MODULE ConfigStoreProofs --------------------------
(***************************************************************************)
(* Proofs about ConfigStore, for any set of workers and any number of      *)
(* edits.  The inductive invariant says what a worker inside save_config   *)
(* may rely on (it alone holds the flock, so the temporary file is still   *)
(* the one it wrote) and that every copy in memory is as usable as the     *)
(* file it was loaded from.                                                *)
(***************************************************************************)
EXTENDS ConfigStore, FiniteSetTheorems, TLAPS

(* What a handler edits: a well-formed configuration after load_config.    *)
Editable(cfg) == cfg \in Config /\ WellFormed(cfg) /\ ~NeedsMigration(cfg)

(* The configuration of a missing file can be edited.                      *)
LEMMA DefaultEditable == Editable(DefaultConfig)
BY DEF Editable, DefaultConfig, Config, ProviderState, WellFormed, RefsResolve,
       NamesUnique, NeedsMigration

(* _migrate_legacy_config keeps every reference: what an entry named among *)
(* the firewalls it now names among the deploy targets.                    *)
LEMMA MigratedEditable ==
    ASSUME NEW cfg \in Config, WellFormed(cfg)
    PROVE  Editable(Migrated(cfg))
<1> DEFINE m == Migrated(cfg)
           old(d) == [d EXCEPT !.legacy = FALSE]
<1>1. ASSUME NEW d \in Entry
      PROVE  /\ old(d) \in Entry
             /\ old(d).name = d.name /\ old(d).dns = d.dns
             /\ old(d).overrides = d.overrides /\ old(d).targets = d.targets
             /\ ~old(d).legacy
  BY DEF Entry
<1> HIDE DEF old
<1>2. {old(d) : d \in cfg.domains} \in SUBSET Entry
  BY <1>1 DEF Config
<1>3. /\ m \in Config
      /\ m.dns = cfg.dns /\ m.deploy = cfg.deploy \cup cfg.firewalls
      /\ m.firewalls = {} /\ m.domains = {old(d) : d \in cfg.domains}
  BY <1>2 DEF Migrated, Config, old
<1> HIDE DEF m
<1>5. ~NeedsMigration(m)
  BY <1>1, <1>3 DEF NeedsMigration, Config
<1>6. RefsResolve(m)
  <2> SUFFICES ASSUME NEW d \in cfg.domains
               PROVE  /\ old(d).dns \in Configured(m)
                      /\ old(d).overrides \subseteq Configured(m)
                      /\ old(d).targets \subseteq m.deploy
    BY <1>3 DEF RefsResolve
  <2>1. Configured(m) = Configured(cfg)
    BY <1>3 DEF Configured
  <2>2. /\ d.dns \in Configured(cfg)
        /\ d.overrides \subseteq Configured(cfg)
        /\ d.targets \subseteq cfg.deploy \cup cfg.firewalls
    BY DEF WellFormed, RefsResolve
  <2> QED
    BY <1>1, <1>3, <2>1, <2>2 DEF Config
<1>7. NamesUnique(m)
  BY <1>1, <1>3 DEF WellFormed, NamesUnique, Config
<1> QED
  BY <1>3, <1>5, <1>6, <1>7 DEF m, Editable, WellFormed
-----------------------------------------------------------------------------
(* The two halves of saving a domain entry.                                *)
LEMMA DeleteDomainEditable ==
    ASSUME NEW cfg, Editable(cfg), NEW n \in Names
    PROVE  /\ Editable(DeleteDomain(cfg, n))
           /\ DeleteDomain(cfg, n).dns = cfg.dns
           /\ DeleteDomain(cfg, n).deploy = cfg.deploy
<1> DEFINE c == DeleteDomain(cfg, n)
<1>1. /\ c \in Config /\ c.dns = cfg.dns /\ c.deploy = cfg.deploy
      /\ c.firewalls = cfg.firewalls /\ c.domains \subseteq cfg.domains
  BY DEF DeleteDomain, Named, Editable, Config
<1> HIDE DEF c
<1>2. ~NeedsMigration(c) /\ WellFormed(c)
  BY <1>1 DEF Editable, NeedsMigration, WellFormed, RefsResolve, NamesUnique, Configured
<1> QED
  BY <1>1, <1>2 DEF c, Editable

(* upsert_domain leaves one entry under the saved name, provided there was *)
(* at most one before.                                                     *)
LEMMA UpsertDomainEditable ==
    ASSUME NEW cfg, Editable(cfg), NEW d \in FormEntry, ValidForm(cfg, d)
    PROVE  Editable(UpsertDomain(cfg, d))
<1> DEFINE c == UpsertDomain(cfg, d)
           old == CHOOSE e \in Named(cfg, d.name) : TRUE
<1>1. d \in Entry /\ ~d.legacy
  BY DEF FormEntry
<1>2. /\ c \in Config /\ c.dns = cfg.dns /\ c.deploy = cfg.deploy
      /\ c.firewalls = cfg.firewalls
      /\ c.domains = IF Named(cfg, d.name) = {} THEN cfg.domains \cup {d}
                     ELSE (cfg.domains \ {old}) \cup {d}
  BY <1>1 DEF UpsertDomain, Editable, Config
<1> HIDE DEF c
<1>3. Named(cfg, d.name) # {} => old \in Named(cfg, d.name)
  OBVIOUS
<1> HIDE DEF old
<1>4. \A e \in c.domains : e = d \/ (e \in cfg.domains /\ e.name # d.name)
  BY <1>2, <1>3 DEF Named, Editable, WellFormed, NamesUnique
<1>5. ~NeedsMigration(c)
  BY <1>1, <1>2, <1>4 DEF Editable, NeedsMigration
<1>6. RefsResolve(c)
  BY <1>1, <1>2, <1>4 DEF Editable, WellFormed, RefsResolve, ValidForm, Configured
<1>7. NamesUnique(c)
  BY <1>4 DEF Editable, WellFormed, NamesUnique
<1> QED
  BY <1>2, <1>5, <1>6, <1>7 DEF c, Editable, WellFormed

(* A provider is set up, reconfigured, or removed while no entry uses it.  *)
LEMMA SetDnsProviderEditable ==
    ASSUME NEW cfg, Editable(cfg), NEW p \in DnsProviders, NEW s \in ProviderState,
           s # Absent \/ ~DnsProviderInUse(cfg, p)
    PROVE  Editable(SetDnsProvider(cfg, p, s))
<1> DEFINE c == SetDnsProvider(cfg, p, s)
<1>1. /\ c \in Config /\ c.dns = [cfg.dns EXCEPT ![p] = s] /\ c.deploy = cfg.deploy
      /\ c.firewalls = cfg.firewalls /\ c.domains = cfg.domains
  BY DEF SetDnsProvider, Editable, Config
<1> HIDE DEF c
<1>2. Configured(cfg) \ {p} \subseteq Configured(c)
  BY <1>1 DEF Configured, Editable, Config
<1>3. s # Absent => p \in Configured(c)
  BY <1>1 DEF Configured, Editable, Config
<1>4. RefsResolve(c)
  <2> SUFFICES ASSUME NEW d \in cfg.domains
               PROVE  d.dns \in Configured(c) /\ d.overrides \subseteq Configured(c)
                      /\ d.targets \subseteq c.deploy \cup
                             (IF d.legacy THEN c.firewalls ELSE {})
    BY <1>1 DEF RefsResolve
  <2>1. d.dns \in Configured(cfg) /\ d.overrides \subseteq Configured(cfg)
    BY DEF Editable, WellFormed, RefsResolve
  <2>2. ~DnsProviderInUse(cfg, p) => p # d.dns /\ p \notin d.overrides
    BY DEF DnsProviderInUse
  <2>3. d.dns \in Configured(c) /\ d.overrides \subseteq Configured(c)
    BY <1>2, <1>3, <2>1, <2>2
  <2> QED
    BY <1>1, <2>3 DEF Editable, WellFormed, RefsResolve
<1>5. ~NeedsMigration(c) /\ NamesUnique(c)
  BY <1>1 DEF Editable, WellFormed, NeedsMigration, NamesUnique
<1> QED
  BY <1>1, <1>4, <1>5 DEF c, Editable, WellFormed

(* A deploy target is added, or removed while no entry deploys to it.      *)
LEMMA SetDeployEditable ==
    ASSUME NEW cfg, Editable(cfg), NEW S \in SUBSET DeployTargets,
           \A t \in cfg.deploy \ S : ~DeployProviderInUse(cfg, t)
    PROVE  Editable([cfg EXCEPT !.deploy = S])
<1> DEFINE c == [cfg EXCEPT !.deploy = S]
<1>1. /\ c \in Config /\ c.dns = cfg.dns /\ c.deploy = S
      /\ c.firewalls = cfg.firewalls /\ c.domains = cfg.domains
  BY DEF Editable, Config
<1> HIDE DEF c
<1>2. RefsResolve(c)
  BY <1>1 DEF Editable, WellFormed, RefsResolve, Configured, NeedsMigration, DeployProviderInUse
<1>3. ~NeedsMigration(c) /\ NamesUnique(c)
  BY <1>1 DEF Editable, WellFormed, NeedsMigration, NamesUnique
<1> QED
  BY <1>1, <1>2, <1>3 DEF c, Editable, WellFormed
-----------------------------------------------------------------------------
(* Whatever any handler accepts (webui/app.py:477-725 and its twin in      *)
(* msp_console/app.py) leaves a configuration with no dangling provider or *)
(* target and no two entries of one name.                                  *)
THEOREM EditsEditable ==
    ASSUME NEW cfg, Editable(cfg), NEW c \in Edits(cfg)
    PROVE  Editable(c)
<1>1. CASE c \in DomainNew(cfg)
  BY <1>1, UpsertDomainEditable DEF DomainNew
<1>2. CASE c \in DomainEdit(cfg)
  <2>1. PICK n \in Names, d \in FormEntry :
          ValidForm(cfg, d) /\ c = UpsertDomain(DeleteDomain(cfg, n), d)
    BY <1>2 DEF DomainEdit
  <2>2. Editable(DeleteDomain(cfg, n)) /\ ValidForm(DeleteDomain(cfg, n), d)
    BY <2>1, DeleteDomainEditable DEF ValidForm, Configured
  <2> QED
    BY <2>1, <2>2, UpsertDomainEditable
<1>3. CASE c \in DomainDelete(cfg)
  BY <1>3, DeleteDomainEditable DEF DomainDelete
<1>4. CASE c \in DnsProviderNew(cfg)
  BY <1>4, SetDnsProviderEditable DEF DnsProviderNew
<1>5. CASE c \in DnsProviderEdit(cfg)
  BY <1>5, SetDnsProviderEditable, SentinelAssumption DEF DnsProviderEdit, ProviderState
<1>6. CASE c \in DnsProviderDelete(cfg)
  BY <1>6, SetDnsProviderEditable DEF DnsProviderDelete, ProviderState
<1>7. CASE c \in DeployProviderNew(cfg)
  <2>1. PICK t \in DeployTargets : c = [cfg EXCEPT !.deploy = cfg.deploy \cup {t}]
    BY <1>7 DEF DeployProviderNew
  <2>2. cfg.deploy \cup {t} \in SUBSET DeployTargets
    BY DEF Editable, Config
  <2> QED
    BY <2>1, <2>2, SetDeployEditable
<1>8. CASE c \in DeployProviderDelete(cfg)
  <2>1. PICK t \in DeployTargets : /\ c = [cfg EXCEPT !.deploy = cfg.deploy \ {t}]
                                   /\ ~DeployProviderInUse(cfg, t)
    BY <1>8 DEF DeployProviderDelete
  <2>2. cfg.deploy \ {t} \in SUBSET DeployTargets
    BY DEF Editable, Config
  <2> QED
    BY <2>1, <2>2, SetDeployEditable
<1>9. CASE c \in SettingsEdit(cfg)
  BY <1>9 DEF SettingsEdit
<1> QED
  BY <1>1, <1>2, <1>3, <1>4, <1>5, <1>6, <1>7, <1>8, <1>9 DEF Edits
-----------------------------------------------------------------------------
(* Only the holder of the flock is between open(lock) and unlock.          *)
LockInv == \A w \in Workers : pc[w] \in InLock => lock = w

(* What is about to be renamed is the whole of what this worker dumped.    *)
TmpInv == \A w \in Workers : pc[w] = "replace" => tmp = snap[w]

(* No copy in memory is legacy or dangling.                                *)
SnapInv == \A w \in Workers : Editable(snap[w].cfg)

(* While a worker copies the file, its backup is there: first torn, then   *)
(* complete with the mtime still to come.                                  *)
CopyInv ==
    \A w \in Workers : pc[w] \in {"copy", "stat"} =>
        /\ file # NoFile
        /\ stamp \in Present
        /\ backups[stamp].of = version
        /\ pc[w] = "copy" => ~backups[stamp].whole
        /\ pc[w] = "stat" => backups[stamp].data = file

IInv == TypeOK /\ LockInv /\ TmpInv /\ SnapInv /\ CopyInv /\ FileUsable /\ BackupsUsable
-----------------------------------------------------------------------------
LEMMA DefaultContent == Default \in Content /\ Editable(Default.cfg)
BY DefaultEditable DEF Default, Content, Editable

(* load_config hands out an editable configuration of the file, if the file*)
(* is usable.                                                              *)
LEMMA OnDiskUsable ==
    ASSUME TypeOK, FileUsable
    PROVE  OnDisk \in Content /\ WellFormed(OnDisk.cfg)
BY DefaultContent, FilesAssumption DEF TypeOK, FileUsable, OnDisk, Editable

LEMMA InitIInv == Init => IInv
<1> SUFFICES ASSUME Init PROVE IInv
  OBVIOUS
<1>1. FileUsable /\ BackupsUsable
  BY FilesAssumption DEF Init, FileUsable, BackupsUsable, Present, Cut
<1>2. OnDisk \in Content
  BY DefaultContent, FilesAssumption DEF Init, OnDisk
<1>3. TypeOK
  BY <1>2, DefaultContent, FilesAssumption, BoundsAssumption
  DEF Init, TypeOK, Steps, Stamps, EditIds
<1>4. LockInv /\ TmpInv /\ SnapInv /\ CopyInv
  BY DefaultContent DEF Init, LockInv, TmpInv, SnapInv, CopyInv, InLock
<1> QED
  BY <1>1, <1>3, <1>4 DEF IInv

(* A step that changes neither the backups nor the file keeps what is said *)
(* of them, provided no worker enters the copying.                         *)
LEMMA QuietCopies ==
    ASSUME IInv, UNCHANGED <<file, version, backupVars>>,
           \A w \in Workers : pc'[w] \in {"copy", "stat"} => pc'[w] = pc[w]
    PROVE  CopyInv' /\ BackupsUsable'
BY DEF IInv, CopyInv, BackupsUsable, Present, Cut, backupVars
-----------------------------------------------------------------------------
(* One lemma per kind of step.                                             *)
LEMMA LoadIInv == ASSUME IInv, NEW w \in Workers, Load(w) PROVE IInv'
<1> USE DEF IInv
<1> DEFINE copy == IF NeedsMigration(OnDisk.cfg) THEN [OnDisk EXCEPT !.cfg = Migrated(@)]
                   ELSE OnDisk
<1>1. copy \in Content /\ Editable(copy.cfg)
  <2>1. OnDisk \in Content /\ WellFormed(OnDisk.cfg)
    BY OnDiskUsable
  <2>2. Editable(Migrated(OnDisk.cfg))
    BY <2>1, MigratedEditable DEF Content
  <2> QED
    BY <2>1, <2>2 DEF Content, Editable
<1>2. snap' = [snap EXCEPT ![w] = copy]
  BY DEF Load
<1> HIDE DEF copy
<1>3. TypeOK'
  <2>1. NeedsMigration(OnDisk.cfg) \in BOOLEAN
    BY DEF NeedsMigration
  <2> QED
    BY <1>1, <1>2, <2>1 DEF Load, TypeOK, Goto, fileVars, backupVars, history, Steps
<1>4. SnapInv'
  BY <1>1, <1>2 DEF SnapInv, TypeOK
<1>5. LockInv' /\ TmpInv'
  BY <1>2 DEF Load, LockInv, TmpInv, TypeOK, Goto, fileVars, InLock
<1>6. FileUsable' /\ CopyInv' /\ BackupsUsable'
  BY QuietCopies DEF Load, FileUsable, fileVars, TypeOK, Goto
<1> QED
  BY <1>3, <1>4, <1>5, <1>6

LEMMA AcceptIInv ==
    ASSUME IInv, NEW w \in Workers, Accept(w, Edits(snap[w].cfg))
    PROVE  IInv'
<1> USE DEF IInv
<1>1. PICK c \in Edits(snap[w].cfg) :
        snap' = [snap EXCEPT ![w] = [cfg |-> c, edits |-> @.edits \cup {issued + 1}]]
  BY DEF Accept
<1>2. Editable(c)
  BY EditsEditable DEF SnapInv
<1>3. issued + 1 \in EditIds /\ issued' \in 0 .. MaxEdits
  BY BoundsAssumption DEF Accept, TypeOK, EditIds
<1>4. [cfg |-> c, edits |-> snap[w].edits \cup {issued + 1}] \in Content
  BY <1>2, <1>3 DEF Content, Editable, TypeOK
<1>5. TypeOK'
  BY <1>1, <1>3, <1>4 DEF Accept, TypeOK, Goto, fileVars, backupVars, Steps
<1>6. SnapInv'
  BY <1>1, <1>2 DEF SnapInv, TypeOK
<1>7. LockInv' /\ TmpInv'
  BY <1>1 DEF Accept, LockInv, TmpInv, TypeOK, Goto, fileVars, InLock
<1>8. FileUsable' /\ CopyInv' /\ BackupsUsable'
  BY QuietCopies DEF Accept, FileUsable, fileVars, TypeOK, Goto
<1> QED
  BY <1>5, <1>6, <1>7, <1>8

LEMMA HandleIInv == ASSUME IInv, NEW w \in Workers, Handle(w) PROVE IInv'
<1>1. CASE Respond(w)
  BY <1>1, QuietCopies DEF IInv, Respond, TypeOK, LockInv, TmpInv, SnapInv, FileUsable,
              Goto, fileVars, backupVars, history, Steps, InLock
<1>2. CASE ~Respond(w)
  <2>1. Accept(w, Edits(snap[w].cfg))
    BY <1>2 DEF Handle, Edits, Accept, SaveDomainNew, SaveDomainEdit, SaveDomainDelete,
        SaveDnsProviderNew, SaveDnsProviderEdit, SaveDnsProviderDelete,
        SaveDeployProviderNew, SaveDeployProviderDelete, SaveSettings
  <2> QED
    BY <2>1, AcceptIInv
<1> QED
  BY <1>1, <1>2

LEMMA AcquireLockIInv == ASSUME IInv, NEW w \in Workers, AcquireLock(w) PROVE IInv'
<1> USE DEF IInv, AcquireLock, Goto
<1>1. TypeOK'
  BY DEF TypeOK, backupVars, history, Steps, InLock
<1>2. \A v \in Workers : pc[v] \notin InLock
  BY WorkersAssumption DEF LockInv
<1>3. LockInv' /\ TmpInv'
  BY <1>2 DEF LockInv, TmpInv, TypeOK, InLock
<1>4. SnapInv' /\ FileUsable' /\ CopyInv' /\ BackupsUsable'
  BY QuietCopies DEF SnapInv, FileUsable, TypeOK
<1> QED
  BY <1>1, <1>3, <1>4

(* Nobody else is between open(lock) and unlock while w is.                *)
LEMMA AloneInLock ==
    ASSUME IInv, NEW w \in Workers, pc[w] \in InLock
    PROVE  lock = w /\ \A v \in Workers \ {w} : pc[v] \notin InLock
BY DEF IInv, LockInv

(* The copying: what it writes is a backup, torn, cut short or usable.     *)
LEMMA CopyStepIInv ==
    ASSUME IInv, NEW w \in Workers, Backup(w) \/ CopyData(w) \/ CopyStat(w)
    PROVE  IInv'
<1> USE DEF IInv, Goto, InLock
<1>1. lock = w /\ \A v \in Workers \ {w} : pc[v] \notin InLock
  BY AloneInLock DEF Backup, CopyData, CopyStat
<1>2. UNCHANGED <<file, tmp, version, lock, now, snap, migrating, history>>
  BY DEF Backup, CopyData, CopyStat
<1>3. LockInv' /\ TmpInv' /\ SnapInv' /\ FileUsable'
  BY <1>1, <1>2 DEF Backup, CopyData, CopyStat, TypeOK, LockInv, TmpInv, SnapInv, FileUsable
<1>4. CASE Backup(w) /\ file = NoFile
  <2>1. UNCHANGED backupVars /\ pc' = [pc EXCEPT ![w] = "open"]
    BY <1>4 DEF Backup
  <2>2. TypeOK'
    BY <1>2, <2>1 DEF TypeOK, Steps, backupVars, history
  <2> QED
    BY <1>2, <1>3, <2>1, <2>2, QuietCopies DEF TypeOK
<1>5. ASSUME NEW b \in BackupFile, NEW st \in Stamps, NEW step \in Steps,
             backups' = [backups EXCEPT ![st] = b], stamp' = st,
             pc' = [pc EXCEPT ![w] = step], file # NoFile, step \notin {"load"},
             b.whole => b.data # Torn /\ WellFormed(b.data.cfg),
             step \in {"copy", "stat"} => b.of = version,
             step = "copy" => ~b.whole, step = "stat" => b.data = file
      PROVE  IInv'
  <2>1. TypeOK'
    BY <1>2, <1>5 DEF TypeOK, history
  <2>2. /\ \A s \in Stamps \ {st} : backups'[s] = backups[s]
        /\ backups'[st] = b /\ b # NoFile
    BY <1>5, FilesAssumption DEF TypeOK
  <2>3. BackupsUsable'
    BY <1>5, <2>2 DEF BackupsUsable, Present, Cut
  <2>4. CopyInv'
    BY <1>1, <1>2, <1>5, <2>2 DEF CopyInv, Present, TypeOK
  <2> QED
    BY <1>3, <2>1, <2>3, <2>4
<1>6. CASE Backup(w) /\ file # NoFile
  <2> DEFINE b == [data |-> Torn, of |-> version, whole |-> FALSE]
  <2>1. /\ b \in BackupFile /\ ~b.whole /\ b.of = version
        /\ backups' = [backups EXCEPT ![now] = b]
        /\ stamp' = now /\ now \in Stamps /\ pc' = [pc EXCEPT ![w] = "copy"]
    BY <1>6 DEF Backup, BackupFile, TypeOK
  <2>2. "copy" \in Steps
    BY DEF Steps
  <2> HIDE DEF b
  <2> QED
    BY <1>5, <1>6, <2>1, <2>2
<1>7. CASE CopyData(w)
  <2> DEFINE b == [backups[stamp] EXCEPT !.data = file]
  <2>1. /\ file # NoFile /\ stamp \in Stamps /\ backups[stamp] \in BackupFile
        /\ backups[stamp].of = version /\ ~backups[stamp].whole /\ file \in Content
    BY <1>7 DEF CopyData, CopyInv, TypeOK, Present
  <2>2. b \in BackupFile /\ ~b.whole /\ b.of = version /\ b.data = file
    BY <2>1 DEF BackupFile
  <2>3. /\ backups' = [backups EXCEPT ![stamp] = b]
        /\ stamp' = stamp /\ pc' = [pc EXCEPT ![w] = "stat"]
    BY <1>7 DEF CopyData
  <2>4. "stat" \in Steps
    BY DEF Steps
  <2> HIDE DEF b
  <2> QED
    BY <1>5, <2>1, <2>2, <2>3, <2>4
<1>8. CASE CopyStat(w)
  <2> DEFINE b == [backups[stamp] EXCEPT !.whole = TRUE]
  <2>1. /\ file # NoFile /\ stamp \in Stamps /\ backups[stamp] \in BackupFile
        /\ backups[stamp].data = file /\ file \in Content /\ WellFormed(file.cfg)
    BY <1>8 DEF CopyStat, CopyInv, TypeOK, Present, FileUsable
  <2>2. b \in BackupFile /\ b.data = file
    BY <2>1 DEF BackupFile
  <2>3. /\ backups' = [backups EXCEPT ![stamp] = b]
        /\ stamp' = stamp /\ pc' = [pc EXCEPT ![w] = "prune"]
    BY <1>8 DEF CopyStat
  <2>4. "prune" \in Steps /\ file # Torn
    BY <2>1, FilesAssumption DEF Steps
  <2> HIDE DEF b
  <2> QED
    BY <1>5, <2>1, <2>2, <2>3, <2>4
<1> QED
  BY <1>4, <1>6, <1>7, <1>8

LEMMA PruneIInv == ASSUME IInv, NEW w \in Workers, Prune(w) PROVE IInv'
<1> USE DEF IInv, Goto, InLock
<1>1. lock = w /\ \A v \in Workers \ {w} : pc[v] \notin InLock
  BY AloneInLock DEF Prune
<1>2. PICK gone \in SUBSET Stamps :
        backups' = [s \in Stamps |-> IF s \in gone THEN NoFile ELSE backups[s]]
  BY DEF Prune, Present
<1>3. TypeOK' /\ BackupsUsable'
  BY <1>2 DEF Prune, TypeOK, history, Steps, BackupsUsable, Present, Cut
<1> QED
  BY <1>1, <1>3 DEF Prune, TypeOK, LockInv, TmpInv, SnapInv, CopyInv, FileUsable

LEMMA SaveIInv == ASSUME IInv, NEW w \in Workers, Save(w) PROVE IInv'
<1> USE DEF IInv, Goto, InLock
<1>1. CASE Backup(w) \/ CopyData(w) \/ CopyStat(w) \/ Prune(w)
  BY <1>1, CopyStepIInv, PruneIInv
<1>2. CASE OpenTmp(w) \/ Dump(w) \/ Replace(w) \/ Unlock(w)
  <2>1. lock = w /\ \A v \in Workers \ {w} : pc[v] \notin InLock
    BY <1>2, AloneInLock DEF OpenTmp, Dump, Replace, Unlock
  <2>2. CopyInv'
    BY <1>2, <2>1 DEF OpenTmp, Dump, Replace, Unlock, CopyInv, TypeOK
  <2>3. BackupsUsable'
    BY <1>2 DEF OpenTmp, Dump, Replace, Unlock, BackupsUsable, Present, Cut, backupVars
  <2>4. CASE OpenTmp(w)
    BY <2>1, <2>2, <2>3, <2>4 DEF OpenTmp, TypeOK, backupVars, history, Steps, LockInv, TmpInv,
                                  SnapInv, FileUsable
  <2>5. CASE Dump(w)
    BY <2>1, <2>2, <2>3, <2>5 DEF Dump, TypeOK, backupVars, history, Steps, LockInv, TmpInv,
                                  SnapInv, FileUsable
  <2>6. CASE Replace(w)
    <3>1. tmp = snap[w] /\ tmp \in Content /\ Editable(tmp.cfg)
      BY <2>6 DEF Replace, TmpInv, TypeOK, SnapInv
    <3>2. TypeOK' /\ FileUsable'
      BY <2>6, <3>1 DEF Replace, TypeOK, backupVars, Steps, FileUsable, Editable
    <3> QED
      BY <2>1, <2>2, <2>3, <2>6, <3>2 DEF Replace, TypeOK, LockInv, TmpInv, SnapInv
  <2>7. CASE Unlock(w)
    <3>1. acked' \subseteq EditIds
      BY <2>7 DEF Unlock, TypeOK, Content
    <3>2. TypeOK'
      BY <2>7, <3>1 DEF Unlock, TypeOK, backupVars, Steps
    <3> QED
      BY <2>1, <2>2, <2>3, <2>7, <3>2 DEF Unlock, TypeOK, LockInv, TmpInv, SnapInv, FileUsable
  <2> QED
    BY <1>2, <2>4, <2>5, <2>6, <2>7
<1> QED
  BY <1>1, <1>2 DEF Save

LEMMA AbortIInv == ASSUME IInv, NEW w \in Workers, Abort(w) PROVE IInv'
<1> USE DEF IInv, Goto, InLock, Abort
<1>1. TypeOK'
  BY DEF TypeOK, backupVars, history, Steps
<1>2. LockInv' /\ TmpInv'
  BY DEF LockInv, TmpInv, TypeOK
<1>3. SnapInv' /\ FileUsable' /\ CopyInv' /\ BackupsUsable'
  BY QuietCopies DEF SnapInv, FileUsable, TypeOK
<1> QED
  BY <1>1, <1>2, <1>3

LEMMA NextIInv == IInv /\ [Next]_vars => IInv'
<1> SUFFICES ASSUME IInv, [Next]_vars PROVE IInv'
  OBVIOUS
<1>1. ASSUME NEW w \in Workers, Load(w) \/ Handle(w) \/ AcquireLock(w) \/ Save(w) \/ Abort(w)
      PROVE  IInv'
  BY <1>1, LoadIInv, HandleIInv, AcquireLockIInv, SaveIInv, AbortIInv
<1>2. CASE Tick
  <2>1. CopyInv' /\ BackupsUsable'
    BY <1>2, QuietCopies DEF Tick, fileVars
  <2> QED
    BY <1>2, <2>1, BoundsAssumption DEF Tick, IInv, TypeOK, LockInv, TmpInv, SnapInv, FileUsable,
       fileVars, backupVars, history, Stamps
<1>3. CASE UNCHANGED vars
  <2>1. CopyInv' /\ BackupsUsable'
    BY <1>3, QuietCopies DEF vars, fileVars
  <2> QED
    BY <1>3, <2>1 DEF vars, fileVars, backupVars, history, IInv, TypeOK, LockInv, TmpInv, SnapInv,
       FileUsable
<1> QED
  BY <1>1, <1>2, <1>3 DEF Next

THEOREM Invariance == Spec => []IInv
BY InitIInv, NextIInv, PTL DEF Spec
-----------------------------------------------------------------------------
(* ConfigStore keeps its types, for any number of workers and edits.       *)
THEOREM TypeCorrect == Spec => []TypeOK
<1>1. IInv => TypeOK
  BY DEF IInv
<1> QED
  BY <1>1, Invariance, PTL

(* appliance.yaml is never torn, never names a provider or a target that   *)
(* does not exist, and never holds two entries of one name, however loads, *)
(* edits, saves, migrations and crashes of any number of workers interleave*)
(* (config_store.py:95-129 with the checks of the handlers).               *)
THEOREM FileAlwaysUsable == Spec => []FileUsable
<1>1. IInv => FileUsable
  BY DEF IInv
<1> QED
  BY <1>1, Invariance, PTL

(* Every backup whose copy was carried to its end can be restored as it is,*)
(* for any number of workers: config_store.py:119-122 copies only usable   *)
(* versions, and what a copy cut short leaves keeps the fresh mtime until a*)
(* later copy has written it anew.                                         *)
THEOREM BackupsAlwaysUsable == Spec => []BackupsUsable
<1>1. IInv => BackupsUsable
  BY DEF IInv
<1> QED
  BY <1>1, Invariance, PTL
-----------------------------------------------------------------------------
(* No backup is of a version yet to come, and one that has the mtime of the*)
(* current version is a copy of it.                                        *)
VersionInv ==
    \A s \in Present : /\ backups[s].of <= version
                       /\ backups[s].whole /\ backups[s].of = version => backups[s].data = file

(* The file is in the backups, or the kept places are all taken by copies  *)
(* that were cut short.                                                    *)
BackedUp == \/ \E s \in Present : backups[s].data = file
            \/ Cardinality(Cut) >= Keep

(* From the end of the copying to the rename the file is backed up; until  *)
(* the pruning by the copy just made, which is of the current version.     *)
BackupInv ==
    \A w \in Workers :
        /\ pc[w] = "prune" => \E s \in Present : backups[s].data = file /\ backups[s].of = version
        /\ pc[w] \in {"open", "dump", "replace"} /\ file # NoFile => BackedUp

(* Away from the steps that write backups and the one that writes the file,*)
(* nothing VersionInv and BackupInv speak of is disturbed.                 *)
LEMMA QuietBackupInv ==
    ASSUME IInv, VersionInv, BackupInv, UNCHANGED <<file, version, backupVars>>, NEW w \in Workers,
           \A v \in Workers \ {w} : pc'[v] = pc[v],
           \/ pc'[w] \notin {"prune", "open", "dump", "replace"}
           \/ pc[w] \in {"open", "dump"} /\ pc'[w] \in {"dump", "replace"}
    PROVE  VersionInv' /\ BackupInv'
BY DEF VersionInv, BackupInv, BackedUp, Present, Cut, backupVars

(* The pruning keeps the file backed up: it removes the copy just made only*)
(* for Keep others that are not older, and of these each is cut short or a *)
(* copy of the same version.                                               *)
LEMMA PruneKeepsBackedUp ==
    ASSUME IInv, VersionInv, NEW s \in Present, backups[s].data = file, backups[s].of = version,
           NEW kept \in SUBSET Present, NEW gone \in SUBSET (Present \ kept),
           kept = Present \/ Cardinality(kept) = Keep,
           \A t \in kept, u \in Present \ kept : ~Newer(u, t),
           backups' = [t \in Stamps |-> IF t \in gone THEN NoFile ELSE backups[t]], file' = file
    PROVE  BackedUp'
<1>1. \A t \in kept : t \in Present' /\ backups'[t] = backups[t]
  BY DEF Present
<1>2. CASE \E t \in kept : backups[t].data = file
  BY <1>1, <1>2 DEF BackedUp
<1>3. CASE \A t \in kept : backups[t].data # file
  <2>1. Cardinality(kept) = Keep /\ s \notin kept
    BY <1>3
  <2>2. ASSUME NEW t \in kept PROVE t \in Cut'
    <3>1. ~(backups[s].of > backups[t].of) /\ backups[t].of <= version
      BY <2>1 DEF Newer, VersionInv
    <3>2. backups[t].of = version
      <4>1. backups[t] \in BackupFile /\ version \in Nat
        BY DEF IInv, TypeOK, Present
      <4>2. backups[t].of \in Nat
        BY <4>1 DEF BackupFile
      <4> QED
        BY <3>1, <4>1, <4>2
    <3> QED
      BY <1>1, <1>3, <3>2 DEF VersionInv, Cut
  <2>3. IsFiniteSet(Cut')
    <3>1. IsFiniteSet(Stamps)
      BY FS_Interval, BoundsAssumption DEF Stamps
    <3> QED
      BY <3>1, FS_Subset DEF Cut, Present
  <2>4. Cardinality(kept) <= Cardinality(Cut')
    BY <2>2, <2>3, FS_Subset
  <2> QED
    BY <2>1, <2>4 DEF BackedUp
<1> QED
  BY <1>2, <1>3

LEMMA NextBackupInv ==
    IInv /\ VersionInv /\ BackupInv /\ [Next]_vars => VersionInv' /\ BackupInv'
<1> SUFFICES ASSUME IInv, VersionInv, BackupInv, [Next]_vars PROVE VersionInv' /\ BackupInv'
  OBVIOUS
<1> USE DEF Goto
<1>1. ASSUME NEW w \in Workers,
             Load(w) \/ Handle(w) \/ AcquireLock(w) \/ OpenTmp(w) \/ Dump(w) \/ Unlock(w) \/ Abort(w)
      PROVE  VersionInv' /\ BackupInv'
  <2>1. /\ UNCHANGED <<file, version, backupVars>>
        /\ \A v \in Workers \ {w} : pc'[v] = pc[v]
        /\ \/ pc'[w] \notin {"prune", "open", "dump", "replace"}
           \/ pc[w] \in {"open", "dump"} /\ pc'[w] \in {"dump", "replace"}
    BY <1>1 DEF Load, Handle, Accept, SaveDomainNew, SaveDomainEdit, SaveDomainDelete,
        SaveDnsProviderNew, SaveDnsProviderEdit, SaveDnsProviderDelete, SaveDeployProviderNew,
        SaveDeployProviderDelete, SaveSettings, Respond, AcquireLock, OpenTmp, Dump, Unlock,
        Abort, fileVars, IInv, TypeOK
  <2> QED
    BY <2>1, QuietBackupInv
<1>2. ASSUME NEW w \in Workers, Backup(w) \/ CopyData(w) PROVE VersionInv' /\ BackupInv'
  <2>1. /\ \A v \in Workers \ {w} : pc[v] \notin InLock /\ pc'[v] = pc[v]
        /\ UNCHANGED <<file, version>>
    BY <1>2, AloneInLock DEF Backup, CopyData, InLock, IInv, TypeOK
  <2>2. CASE Backup(w) /\ file = NoFile
    BY <2>1, <2>2 DEF Backup, VersionInv, BackupInv, InLock, IInv, TypeOK, backupVars, Present
  <2>3. CASE Backup(w) /\ file # NoFile
    <3>1. /\ backups' = [backups EXCEPT ![now] = [data |-> Torn, of |-> version, whole |-> FALSE]]
          /\ pc'[w] = "copy" /\ version \in Nat
      BY <2>3 DEF Backup, IInv, TypeOK
    <3>2. /\ \A s \in Stamps \ {now} : backups'[s] = backups[s]
          /\ now \in Stamps => ~backups'[now].whole /\ backups'[now].of = version
      BY <3>1 DEF IInv, TypeOK
    <3>3. VersionInv'
      BY <2>1, <3>1, <3>2 DEF VersionInv, Present
    <3> QED
      BY <2>1, <3>1, <3>3 DEF BackupInv, InLock
  <2>4. CASE CopyData(w)
    <3>1. /\ stamp \in Stamps /\ backups[stamp] \in BackupFile /\ ~backups[stamp].whole
          /\ backups' = [backups EXCEPT ![stamp].data = file]
          /\ backups[stamp].of = version /\ pc'[w] = "stat" /\ version \in Nat
      BY <2>4 DEF CopyData, IInv, CopyInv, TypeOK, Present
    <3>2. /\ \A s \in Stamps \ {stamp} : backups'[s] = backups[s]
          /\ backups'[stamp].of = version
          /\ ~backups'[stamp].whole
      BY <3>1 DEF IInv, TypeOK, BackupFile
    <3>3. VersionInv'
      BY <2>1, <3>1, <3>2 DEF VersionInv, Present
    <3> QED
      BY <2>1, <3>1, <3>3 DEF BackupInv, InLock
  <2> QED
    BY <1>2, <2>2, <2>3, <2>4
<1>3. ASSUME NEW w \in Workers, CopyStat(w) PROVE VersionInv' /\ BackupInv'
  <2>1. /\ \A v \in Workers \ {w} : pc[v] \notin InLock /\ pc'[v] = pc[v]
        /\ UNCHANGED <<file, version>> /\ pc'[w] = "prune"
    BY <1>3, AloneInLock DEF CopyStat, InLock, IInv, TypeOK
  <2>2. /\ stamp \in Stamps /\ backups[stamp] \in BackupFile /\ backups[stamp].data = file
        /\ backups' = [backups EXCEPT ![stamp].whole = TRUE]
        /\ backups[stamp].of = version /\ version \in Nat
    BY <1>3 DEF CopyStat, IInv, CopyInv, TypeOK, Present
  <2>3. /\ \A s \in Stamps \ {stamp} : backups'[s] = backups[s]
        /\ backups'[stamp].of = version /\ backups'[stamp].data = file
        /\ backups'[stamp] \in BackupFile
    BY <2>2 DEF IInv, TypeOK, BackupFile
  <2>4. stamp \in Present'
    BY <2>2, <2>3, FilesAssumption DEF Present
  <2>5. ASSUME NEW s \in Present'
        PROVE  backups'[s].of <= version /\ (backups'[s].whole /\ backups'[s].of = version => backups'[s].data = file)
    <3>1. CASE s = stamp
      BY <2>2, <2>3, <3>1
    <3>2. CASE s # stamp
      BY <2>3, <3>2 DEF VersionInv, Present
    <3> QED
      BY <3>1, <3>2
  <2>6. VersionInv'
    BY <2>1, <2>5 DEF VersionInv
  <2> QED
    BY <2>1, <2>3, <2>4, <2>6 DEF BackupInv, InLock
<1>4. ASSUME NEW w \in Workers, Prune(w) PROVE VersionInv' /\ BackupInv'
  <2>1. /\ \A v \in Workers \ {w} : pc[v] \notin InLock /\ pc'[v] = pc[v]
        /\ UNCHANGED <<file, version>> /\ pc'[w] = "open" /\ pc[w] = "prune"
    BY <1>4, AloneInLock DEF Prune, InLock, IInv, TypeOK
  <2>2. PICK s \in Present : backups[s].data = file /\ backups[s].of = version
    BY <2>1 DEF BackupInv
  <2>3. PICK kept \in SUBSET Present :
          /\ kept = Present \/ Cardinality(kept) = Keep
          /\ \A t \in kept, u \in Present \ kept : ~Newer(u, t)
          /\ \E gone \in SUBSET (Present \ kept) :
              backups' = [t \in Stamps |-> IF t \in gone THEN NoFile ELSE backups[t]]
    BY <1>4 DEF Prune
  <2>4. PICK gone \in SUBSET (Present \ kept) :
          backups' = [t \in Stamps |-> IF t \in gone THEN NoFile ELSE backups[t]]
    BY <2>3
  <2>5. BackedUp'
    BY <2>1, <2>2, <2>3, <2>4, PruneKeepsBackedUp
  <2>6. VersionInv'
    BY <2>1, <2>4 DEF VersionInv, Present
  <2> QED
    BY <2>1, <2>5, <2>6 DEF BackupInv, InLock
<1>5. ASSUME NEW w \in Workers, Replace(w) PROVE VersionInv' /\ BackupInv'
  <2>1. /\ \A v \in Workers \ {w} : pc[v] \notin InLock /\ pc'[v] = pc[v]
        /\ UNCHANGED backups /\ pc'[w] = "unlock" /\ version' = version + 1
    BY <1>5, AloneInLock DEF Replace, backupVars, InLock, IInv, TypeOK
  <2>2. \A s \in Present : backups[s].of \in Nat /\ version \in Nat
    BY DEF IInv, TypeOK, BackupFile, Present
  <2>3. VersionInv'
    BY <2>1, <2>2 DEF VersionInv, Present
  <2> QED
    BY <2>1, <2>3 DEF BackupInv, InLock
<1>6. CASE Tick \/ UNCHANGED vars
  BY <1>6 DEF Tick, vars, VersionInv, BackupInv, BackedUp, Present, Cut, fileVars, backupVars
<1> QED
  BY <1>1, <1>2, <1>3, <1>4, <1>5, <1>6 DEF Next, Save

(* The version an os.replace overwrites is in the backups at that moment,  *)
(* or as many copies cut short as are kept have taken its place, for any   *)
(* number of workers, whatever saves were cut off before                   *)
(* (config_store.py:119-127).                                              *)
THEOREM OverwrittenAlwaysBackedUp == Spec => OverwrittenIsBackedUp
<1>1. Init => VersionInv /\ BackupInv
  BY DEF Init, VersionInv, BackupInv, Present
<1>2. IInv /\ VersionInv /\ BackupInv /\ [Next]_vars =>
        [file' # file /\ file # NoFile =>
            \/ \E s \in Present' : backups'[s].data = file
            \/ Cardinality(Cut') >= Keep]_file
  <2> SUFFICES ASSUME IInv, BackupInv, [Next]_vars, file' # file, file # NoFile
               PROVE  \/ \E s \in Present' : backups'[s].data = file
                      \/ Cardinality(Cut') >= Keep
    OBVIOUS
  <2>1. PICK w \in Workers : Replace(w)
    BY DEF Next, Load, Handle, Accept, SaveDomainNew, SaveDomainEdit, SaveDomainDelete,
        SaveDnsProviderNew, SaveDnsProviderEdit, SaveDnsProviderDelete, SaveDeployProviderNew,
        SaveDeployProviderDelete, SaveSettings, Respond, AcquireLock, Save, Backup, CopyData,
        CopyStat, Prune, OpenTmp, Dump, Unlock, Abort, Tick, fileVars, vars
  <2>2. Present' = Present /\ Cut' = Cut /\ backups' = backups /\ BackedUp
    BY <2>1 DEF Replace, BackupInv, Present, Cut, backupVars
  <2> QED
    BY <2>2 DEF BackedUp
<1>3. Spec => [](IInv /\ VersionInv /\ BackupInv)
  BY <1>1, NextBackupInv, Invariance, PTL DEF Spec
<1> QED
  BY <1>2, <1>3, PTL DEF Spec, OverwrittenIsBackedUp
=============================================================================
