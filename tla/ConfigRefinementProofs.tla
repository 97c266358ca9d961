----------------------- MODULE ConfigRefinementProofs ------------------------
(***************************************************************************)
(* ConfigStore implements ConfigHistory for any number of workers, and its *)
(* serial form when there is one worker.                                   *)
(***************************************************************************)
EXTENDS ConfigRefinement, ConfigStoreProofs, FiniteSetTheorems

BeforeReplace == {"lock", "backup", "copy", "stat", "prune", "open", "dump", "replace"}

(* Where a copy in memory comes from: a handler edits a version the file   *)
(* has held, and a worker on its way to os.replace writes a successor of   *)
(* one.                                                                    *)
OriginInv ==
    /\ OnDisk \in saved
    /\ \A w \in Workers :
        /\ pc[w] \in {"edit", "unlock"} => snap[w] \in saved
        /\ pc[w] \in BeforeReplace =>
            \E base \in saved : snap[w] \in Abstract!Successors(base)

(* The same with a single worker: the version is always the current one.   *)
SerialInv ==
    \A w \in Workers :
        /\ pc[w] \in {"edit", "unlock"} => snap[w] = OnDisk
        /\ pc[w] \in BeforeReplace => snap[w] \in Abstract!Successors(OnDisk)
-----------------------------------------------------------------------------
(* Only os.replace changes the file and the versions it has held.          *)
LEMMA OnlyReplaceWrites ==
    ASSUME [Next]_vars, ~ \E w \in Workers : Replace(w)
    PROVE  UNCHANGED <<file, saved>>
BY DEF Next, Load, Handle, Accept, SaveDomainNew, SaveDomainEdit, SaveDomainDelete,
    SaveDnsProviderNew, SaveDnsProviderEdit, SaveDnsProviderDelete, SaveDeployProviderNew,
    SaveDeployProviderDelete, SaveSettings, Respond, AcquireLock, Save, Backup, CopyData, CopyStat, Prune,
    OpenTmp, Dump, Unlock, Abort, Tick, fileVars, history, vars

(* os.replace makes the copy of the worker that calls it the new version.  *)
LEMMA ReplaceWrites ==
    ASSUME IInv, NEW w \in Workers, Replace(w)
    PROVE  /\ file' = snap[w] /\ OnDisk' = snap[w] /\ saved' = saved \cup {snap[w]}
           /\ snap[w] \in Content /\ UNCHANGED snap
<1>1. tmp = snap[w] /\ tmp \in Content
  BY DEF Replace, IInv, TmpInv, TypeOK
<1>2. tmp # NoFile
  BY <1>1, FilesAssumption
<1> QED
  BY <1>1, <1>2 DEF Replace, OnDisk

(* Loading yields the current version, or the migration of it.             *)
LEMMA LoadOrigin ==
    ASSUME IInv, NEW w \in Workers, Load(w)
    PROVE  /\ pc'[w] \in {"edit", "lock"} /\ \A v \in Workers \ {w} : pc'[v] = pc[v] /\ snap'[v] = snap[v]
           /\ pc'[w] = "edit" => snap'[w] = OnDisk
           /\ pc'[w] = "lock" => snap'[w] \in Abstract!Successors(OnDisk)
BY DEF Load, Goto, IInv, TypeOK, Abstract!Successors, Abstract!MigrationOf

(* An accepted POST yields a successor of the copy it edits.               *)
LEMMA AcceptOrigin ==
    ASSUME IInv, NEW w \in Workers, Accept(w, Edits(snap[w].cfg))
    PROVE  /\ pc[w] = "edit" /\ pc'[w] = "lock"
           /\ \A v \in Workers \ {w} : pc'[v] = pc[v] /\ snap'[v] = snap[v]
           /\ snap'[w] \in Abstract!Successors(snap[w])
<1>1. ~NeedsMigration(snap[w].cfg)
  BY DEF IInv, SnapInv, Editable
<1>2. issued + 1 \in EditIds
  BY BoundsAssumption DEF Accept, IInv, TypeOK, EditIds
<1>3. snap'[w] \in Abstract!EditsOf(snap[w])
  <2>1. PICK c \in Edits(snap[w].cfg) :
          snap' = [snap EXCEPT ![w] = [cfg |-> c, edits |-> @.edits \cup {issued + 1}]]
    BY DEF Accept
  <2>2. snap'[w] = [cfg |-> c, edits |-> snap[w].edits \cup {issued + 1}]
    BY <2>1 DEF IInv, TypeOK
  <2> QED
    <3> DEFINE byId(id) == {[cfg |-> x, edits |-> snap[w].edits \cup {id}] :
                                x \in Edits(snap[w].cfg)}
    <3>1. snap'[w] \in byId(issued + 1)
      BY <2>1, <2>2
    <3> HIDE DEF byId
    <3>2. snap'[w] \in UNION {byId(id) : id \in EditIds}
      BY <1>2, <3>1
    <3> QED
      BY <3>2 DEF byId, Abstract!EditsOf
<1> QED
  BY <1>1, <1>3 DEF Accept, Goto, IInv, TypeOK, Abstract!Successors

(* How the other steps move the copies: not at all, and a worker's program *)
(* counter only towards os.replace, or back to "load".                     *)
OtherStep(w) ==
    \/ Respond(w) \/ AcquireLock(w) \/ Backup(w) \/ CopyData(w) \/ CopyStat(w) \/ Prune(w)
    \/ OpenTmp(w) \/ Dump(w) \/ Unlock(w) \/ Abort(w)

LEMMA OtherSteps ==
    ASSUME IInv, NEW w \in Workers, OtherStep(w)
    PROVE  /\ UNCHANGED <<snap, file, saved>>
           /\ \A v \in Workers \ {w} : pc'[v] = pc[v]
           /\ pc'[w] \in {"edit", "unlock"} => pc[w] = "unlock"
           /\ pc'[w] \in BeforeReplace => pc[w] \in BeforeReplace
BY DEF OtherStep, Respond, AcquireLock, Backup, CopyData, CopyStat, Prune, OpenTmp, Dump,
       Unlock, Abort, Goto, fileVars, history, IInv, TypeOK, BeforeReplace

LEMMA StepKinds ==
    ASSUME [Next]_vars
    PROVE  \/ \E w \in Workers : Load(w) \/ Replace(w) \/ OtherStep(w)
                                \/ Accept(w, Edits(snap[w].cfg))
           \/ UNCHANGED <<pc, snap, file, saved>>
<1>1. ASSUME NEW w \in Workers, Handle(w), ~Respond(w)
      PROVE  Accept(w, Edits(snap[w].cfg))
  BY <1>1 DEF Handle, Edits, Accept, SaveDomainNew, SaveDomainEdit, SaveDomainDelete,
        SaveDnsProviderNew, SaveDnsProviderEdit, SaveDnsProviderDelete,
        SaveDeployProviderNew, SaveDeployProviderDelete, SaveSettings
<1>2. Tick \/ UNCHANGED vars => UNCHANGED <<pc, snap, file, saved>>
  BY DEF Tick, vars, fileVars, history
<1> QED
  BY <1>1, <1>2 DEF Next, Save, OtherStep
-----------------------------------------------------------------------------
LEMMA NextOrigin == IInv /\ OriginInv /\ [Next]_vars => OriginInv'
<1> SUFFICES ASSUME IInv, OriginInv, [Next]_vars PROVE OriginInv'
  OBVIOUS
<1>1. CASE UNCHANGED <<pc, snap, file, saved>>
  BY <1>1 DEF OriginInv, OnDisk
<1>2. ASSUME NEW w \in Workers, Load(w) PROVE OriginInv'
  <2>1. UNCHANGED <<file, saved>> /\ OnDisk' = OnDisk
    BY <1>2 DEF Load, fileVars, history, OnDisk
  <2> QED
    BY <1>2, <2>1, LoadOrigin DEF OriginInv, BeforeReplace
<1>3. ASSUME NEW w \in Workers, Accept(w, Edits(snap[w].cfg)) PROVE OriginInv'
  <2>1. UNCHANGED <<file, saved>> /\ OnDisk' = OnDisk
    BY <1>3 DEF Accept, fileVars, OnDisk
  <2> QED
    BY <1>3, <2>1, AcceptOrigin DEF OriginInv, BeforeReplace
<1>4. ASSUME NEW w \in Workers, Replace(w) PROVE OriginInv'
  <2>1. /\ pc'[w] = "unlock" /\ \A v \in Workers \ {w} : pc'[v] = pc[v]
    BY <1>4 DEF Replace, Goto, IInv, TypeOK
  <2> QED
    BY <1>4, <2>1, ReplaceWrites DEF OriginInv, BeforeReplace
<1>5. ASSUME NEW w \in Workers, OtherStep(w) PROVE OriginInv'
  BY <1>5, OtherSteps DEF OriginInv, OnDisk
<1> QED
  BY <1>1, <1>2, <1>3, <1>4, <1>5, StepKinds

(* Every step of ConfigStore is a commit of ConfigHistory or leaves the    *)
(* file and its versions alone.                                            *)
LEMMA StepCommits ==
    IInv /\ OriginInv /\ [Next]_vars => [Abstract!Commit]_(Abstract!hvars)
<1> SUFFICES ASSUME IInv, OriginInv, [Next]_vars
             PROVE  Abstract!Commit \/ UNCHANGED <<OnDisk, saved>>
  BY DEF Abstract!hvars
<1>1. ASSUME NEW w \in Workers, Replace(w) PROVE Abstract!Commit
  <2>1. PICK base \in saved : snap[w] \in Abstract!Successors(base)
    BY <1>1 DEF OriginInv, Replace, BeforeReplace
  <2>2. Abstract!CommitTo(base)
    BY <1>1, <2>1, ReplaceWrites DEF Abstract!CommitTo
  <2> QED
    BY <2>2 DEF Abstract!Commit
<1>2. CASE ~ \E w \in Workers : Replace(w)
  BY <1>2, OnlyReplaceWrites DEF OnDisk
<1> QED
  BY <1>1, <1>2

LEMMA InitMaps == Init => Abstract!HInit /\ OriginInv
BY DEF Init, OnDisk, OriginInv, BeforeReplace, Abstract!HInit

(* The file moves from one complete version to the next, each an accepted  *)
(* edit, or the migration, of a version it has held, for any number of     *)
(* workers (config_store.py:95-129).                                       *)
THEOREM HistoryImplemented == Spec => ImplementsHistory
<1>1. Spec => [](IInv /\ OriginInv)
  BY InitMaps, NextOrigin, Invariance, PTL DEF Spec
<1> QED
  BY <1>1, InitMaps, StepCommits, PTL DEF Spec, ImplementsHistory, Abstract!HistorySpec
-----------------------------------------------------------------------------
LEMMA NextSerial ==
    ASSUME NEW only, Workers = {only}
    PROVE  IInv /\ SerialInv /\ [Next]_vars => SerialInv'
<1> SUFFICES ASSUME IInv, SerialInv, [Next]_vars PROVE SerialInv'
  OBVIOUS
<1>1. CASE UNCHANGED <<pc, snap, file, saved>>
  BY <1>1 DEF SerialInv, OnDisk
<1>2. CASE Load(only)
  <2>1. OnDisk' = OnDisk
    BY <1>2 DEF Load, fileVars, OnDisk
  <2> QED
    BY <1>2, <2>1, LoadOrigin DEF SerialInv, BeforeReplace
<1>3. CASE Accept(only, Edits(snap[only].cfg))
  <2>1. OnDisk' = OnDisk
    BY <1>3 DEF Accept, fileVars, OnDisk
  <2>2. snap[only] = OnDisk
    BY <1>3, AcceptOrigin DEF SerialInv
  <2> QED
    BY <1>3, <2>1, <2>2, AcceptOrigin DEF SerialInv, BeforeReplace
<1>4. CASE Replace(only)
  <2>1. pc'[only] = "unlock"
    BY <1>4 DEF Replace, Goto, IInv, TypeOK
  <2> QED
    BY <1>4, <2>1, ReplaceWrites DEF SerialInv, BeforeReplace
<1>5. CASE OtherStep(only)
  BY <1>5, OtherSteps DEF SerialInv, OnDisk
<1> QED
  BY <1>1, <1>2, <1>3, <1>4, <1>5, StepKinds

(* A single worker never loses an edit: every version is an edit of the one*)
(* it replaces (acme-webui.service:20 starts one worker).                  *)
THEOREM SingleWorkerSerial ==
    ASSUME NEW only, Workers = {only}
    PROVE  Spec => ImplementsSerial
<1>1. IInv /\ SerialInv /\ [Next]_vars => [Abstract!CommitTo(OnDisk)]_(Abstract!hvars)
  <2> SUFFICES ASSUME IInv, SerialInv, [Next]_vars
               PROVE  Abstract!CommitTo(OnDisk) \/ UNCHANGED <<OnDisk, saved>>
    BY DEF Abstract!hvars
  <2>1. CASE Replace(only)
    BY <2>1, ReplaceWrites DEF SerialInv, Replace, BeforeReplace, Abstract!CommitTo
  <2>2. CASE ~Replace(only)
    BY <2>2, OnlyReplaceWrites DEF OnDisk
  <2> QED
    BY <2>1, <2>2
<1>2. Init => SerialInv
  BY DEF Init, SerialInv, BeforeReplace
<1>3. Spec => [](IInv /\ SerialInv)
  BY <1>2, NextSerial, Invariance, PTL DEF Spec
<1> QED
  BY <1>1, <1>3, InitMaps, PTL DEF Spec, ImplementsSerial, Abstract!SerialSpec

LEMMA SuccessorKeepsEdits ==
    ASSUME NEW v \in Content, NEW u \in Abstract!Successors(v)
    PROVE  v.edits \subseteq u.edits
<1>1. CASE u \in Abstract!EditsOf(v)
  BY <1>1 DEF Abstract!EditsOf
<1>2. CASE u = Abstract!MigrationOf(v)
  BY <1>2 DEF Abstract!MigrationOf, Content
<1> QED
  BY <1>1, <1>2 DEF Abstract!Successors

(* With a single worker, what a user was told is saved stays in the file,  *)
(* through later saves, failures and crashes.                              *)
THEOREM SingleWorkerAckedStays ==
    ASSUME NEW only, Workers = {only}
    PROVE  Spec => []AckedStays
<1>1. IInv /\ SerialInv /\ AckedStays /\ [Next]_vars => AckedStays'
  <2> SUFFICES ASSUME IInv, SerialInv, AckedStays, [Next]_vars PROVE AckedStays'
    OBVIOUS
  <2>1. CASE Replace(only)
    <3>1. OnDisk \in Content
      BY OnDiskUsable DEF IInv
    <3>2. OnDisk.edits \subseteq OnDisk'.edits
      BY <2>1, <3>1, ReplaceWrites, SuccessorKeepsEdits DEF SerialInv, Replace, BeforeReplace
    <3> QED
      BY <2>1, <3>2 DEF Replace, AckedStays
  <2>2. CASE Unlock(only)
    BY <2>2 DEF Unlock, AckedStays, SerialInv, OnDisk
  <2>3. CASE ~Replace(only) /\ ~Unlock(only)
    <3>1. UNCHANGED <<file, acked>>
      BY <2>3 DEF Next, Load, Handle, Accept, SaveDomainNew, SaveDomainEdit, SaveDomainDelete,
        SaveDnsProviderNew, SaveDnsProviderEdit, SaveDnsProviderDelete, SaveDeployProviderNew,
        SaveDeployProviderDelete, SaveSettings, Respond, AcquireLock, Save, Backup, CopyData, CopyStat, Prune,
        OpenTmp, Dump, Abort, Tick, fileVars, history, vars
    <3> QED
      BY <3>1 DEF AckedStays, OnDisk
  <2> QED
    BY <2>1, <2>2, <2>3
<1>2. Init => SerialInv /\ AckedStays
  BY DEF Init, SerialInv, BeforeReplace, AckedStays
<1> QED
  BY <1>1, <1>2, NextSerial, Invariance, PTL DEF Spec
-----------------------------------------------------------------------------
(* An edit removes no instance that an alias of the edited copy writes     *)
(* through.                                                                *)
LEMMA EditKeepsAliasTarget ==
    ASSUME NEW cfg \in Config, NEW c \in Edits(cfg), NEW a \in DnsProviders, NEW t \in DnsProviders,
           cfg.dns[a] = t, cfg.dns[t] # Absent
    PROVE  c.dns[t] # Absent
<1>1. CASE c \in DnsProviderNew(cfg) \cup DnsProviderEdit(cfg)
  <2>1. PICK p \in DnsProviders, s \in ProviderState \ {Absent} : c = SetDnsProvider(cfg, p, s)
    BY <1>1, SentinelAssumption DEF DnsProviderNew, DnsProviderEdit, ProviderState
  <2> QED
    BY <2>1 DEF SetDnsProvider, Config
<1>2. CASE c \in DnsProviderDelete(cfg)
  <2>1. PICK p \in DnsProviders : ~DnsProviderInUse(cfg, p) /\ c = SetDnsProvider(cfg, p, Absent)
    BY <1>2 DEF DnsProviderDelete
  <2>2. p # t
    BY <2>1 DEF DnsProviderInUse
  <2> QED
    BY <2>1, <2>2 DEF SetDnsProvider, Config
<1>3. CASE c \in DomainNew(cfg) \cup DomainEdit(cfg) \cup DomainDelete(cfg)
  <2>1. c.dns = cfg.dns
    <3>1. ASSUME NEW d, NEW b \in Config PROVE UpsertDomain(b, d).dns = b.dns
      BY DEF UpsertDomain, Config
    <3>2. \A n \in Names : DeleteDomain(cfg, n) \in Config /\ DeleteDomain(cfg, n).dns = cfg.dns
      BY DEF DeleteDomain, Named, Config
    <3> QED
      BY <1>3, <3>1, <3>2 DEF DomainNew, DomainEdit, DomainDelete
  <2> QED
    BY <2>1
<1>4. CASE c \in DeployProviderNew(cfg) \cup DeployProviderDelete(cfg) \cup SettingsEdit(cfg)
  <2>1. c.dns = cfg.dns
    BY <1>4 DEF DeployProviderNew, DeployProviderDelete, SettingsEdit, Config
  <2> QED
    BY <2>1
<1> QED
  BY <1>1, <1>2, <1>3, <1>4 DEF Edits

LEMMA SuccessorKeepsAliasTarget ==
    ASSUME NEW v \in Content, NEW u \in Abstract!Successors(v), NEW a \in DnsProviders, NEW t \in DnsProviders,
           v.cfg.dns[a] = t, v.cfg.dns[t] # Absent
    PROVE  u.cfg.dns[t] # Absent
<1>1. v.cfg \in Config
  BY DEF Content
<1>2. CASE u \in Abstract!EditsOf(v)
  <2>1. PICK c \in Edits(v.cfg) : u.cfg = c
    BY <1>2 DEF Abstract!EditsOf
  <2> QED
    BY <1>1, <2>1, EditKeepsAliasTarget
<1>3. CASE u = Abstract!MigrationOf(v)
  <2>1. u.cfg = Migrated(v.cfg)
    BY <1>3 DEF Abstract!MigrationOf, Content
  <2>2. u.cfg.dns = v.cfg.dns
    BY <1>1, <2>1 DEF Migrated, Config
  <2> QED
    BY <2>2
<1> QED
  BY <1>2, <1>3 DEF Abstract!Successors

(* With a single worker, no instance an alias writes through is deleted    *)
(* (config_store.py:188-196, which looks at the copy the request loaded).  *)
THEOREM SingleWorkerAliasTargets ==
    ASSUME NEW only, Workers = {only}
    PROVE  Spec => AliasTargetKept
<1> DEFINE Kept == file # NoFile =>
        \A a, t \in DnsProviders :
            file.cfg.dns[a] = t /\ file'.cfg.dns[a] = t /\ file.cfg.dns[t] # Absent
                => file'.cfg.dns[t] # Absent
<1>1. IInv /\ SerialInv /\ [Next]_vars => [Kept]_file
  <2> SUFFICES ASSUME IInv, SerialInv, [Next]_vars, file # NoFile, file' # file,
                      NEW a \in DnsProviders, NEW t \in DnsProviders,
                      file.cfg.dns[a] = t, file.cfg.dns[t] # Absent
               PROVE  file'.cfg.dns[t] # Absent
    OBVIOUS
  <2>1. Replace(only)
    BY OnlyReplaceWrites
  <2>2. OnDisk = file /\ file \in Content
    BY DEF OnDisk, IInv, TypeOK
  <2>3. file' \in Abstract!Successors(file)
    BY <2>1, <2>2, ReplaceWrites DEF SerialInv, Replace, BeforeReplace
  <2> QED
    BY <2>2, <2>3, SuccessorKeepsAliasTarget
<1>2. Init => SerialInv
  BY DEF Init, SerialInv, BeforeReplace
<1>3. Spec => [](IInv /\ SerialInv)
  BY <1>2, NextSerial, Invariance, PTL DEF Spec
<1> QED
  BY <1>1, <1>3, PTL DEF Spec, AliasTargetKept
=============================================================================
