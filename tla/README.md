# Formal model of the ACME certificate appliance

This directory is the verification project of the appliance: TLA+ specifications of the parts whose correctness depends
on the order of things (two web workers, background jobs, a timer, devices and DNS zones that others change, processes
that die), the TLC configurations that check them on small instances, and TLAPS proofs for every value of the constants.
`PROJECT.json` names the source lines of every definition, the hazards, the runs, the mutants that show each
property can fail, the findings and the theorems.

    tlc -workers 2 -config ConfigStore_console.cfg MCConfigStore.tla     # one run
    tlapm RenewJobsProofs.tla                                            # one module of proofs

## The system

The appliance comes in two profiles. *single-instance*: one configuration, a web UI with one gunicorn worker, a daily
timer. *msp-panos*: one configuration per customer, the MSP Console with two workers, one daily timer for all customers.
Everything is Python and bash; certbot, the DNS APIs, the firewalls and Windows servers, systemd and the mail server are
outside.

| Component | State it keeps | Operations | Interacts through | What is hard | What makes it correct |
|---|---|---|---|---|---|
| Configuration store (`webui/config_store.py`, `domain_logic.py`) | `appliance.yaml`, its `.tmp`, lock file and backups | load with migration, save, one edit per route | every other part reads the file | two workers; a load outside the lock; crash inside a save, also inside the copy of a backup | the file is usable, and each backup whose copy was not cut short; a version is an edit of an earlier one; the overwritten version is in the backups, unless copies cut short took every place; one worker loses no acknowledged edit |
| Web UI and MSP Console buttons (`webui/app.py`, `msp_console/actions.py`, `fleet.py`) | lock files in `/run`, background shells | renew all, renew one, redeploy one | lock files, certbot's directories, systemd's control groups | check-then-write by two workers, restarts, failing scripts, the timer without a lock | jobs of buttons exclude each other per domain; a running job keeps its lock file; lock files go away |
| Renewal run (`bin/acme-renew.sh`, `bin/msp-renew-all-customers.sh`, `bin/redeploy-cert.sh`) | entries read once, exit code | loop over customers and entries | certbot and its hooks | one failure in many, hooks reading a newer file | every entry is tried; failures are reported |
| DNS challenges (`dns_dispatcher.py`, `cert_naming.py`, `dns_providers/`) | TXT records of zones others use too, Namecheap's lock files | add, remove one value | provider APIs, certbot's phases | read-modify-write of shared records, private `/tmp`, killed hooks | a value stays until it is removed; nothing else is lost; nothing comes back |
| Deployment (`deploy_certificate.py`, `deploy_providers/`, `panos/client.py`) | candidate and running configuration of firewalls, certificate stores and bindings | import, reference, commit, clean up | device APIs, the live directory of certbot | a candidate configuration everybody shares, commits that time out, clean-up by prefix | a slot keeps the certificate that was reported deployed, also when runs for other entries overlap; no run spoils the commits of others; exit 0 means all targets |
| Notifications (`notifications.py`, `bin/acme-notify.py`) | state file with times of messages, settings | event, daily scan | called by all scripts | crash between send and record, time taken before a lock, intervals against a jittered timer, one customer's bad file | recorded messages keep their distance; a message recorded was sent; a scan that ends with 0 saw every customer |
| Administrators of the MSP Console (`msp_console/auth.py`) | `admins.yaml`, failed logins in memory | create, change, delete, log in | sessions of two workers | check of the last owner, whole-file writes | the last owner goes only when two requests overlap |
| Customer lifecycle (`bin/msp-provision-customer.sh`, `bin/msp-deprovision-customer.sh`) | a directory per customer, archives | provision, deprovision | console requests, the timer's loop | checks before the lock, a directory recreated by a request, a time-out that kills a script and not its command | what is removed was archived; a customer is overwritten only when two requests overlap; the lock gets free again |
| System updates (`webui/system_updates.py`, `bin/*update*.sh`) | status files and a lock file under `/run`, systemd units | check, apply, reboot, the page | systemd, sudo; the worker that serves the buttons | a start that blocks and times out, a page read from three files that a check empties and writes, a reboot | the page is never newer than its result |
| Installers, image, units, templates | - | run once by an operator | - | no concurrency | not modelled; the units matter for the number of workers, timers and `PrivateTmp` |

## The modules

### Configuration store (modelled, checked, proved)

- `ApplianceConfig`: what of an `appliance.yaml` other parts refer to (entries, provider instances, what references
  what), the migration of the old format and every edit, as an operator from a configuration to the set of
  configurations its form can make of it.
- `ConfigStore`: the workers. `Load` is `load_config` (no lock; it saves after a migration), `Save...` are the routes,
  `AcquireLock` to `Unlock` are `save_config` one system call at a time, `Abort` is an exception or a dead worker,
  `Tick` the clock that names backups. `shutil.copy2` is three steps: `Backup` opens the file of the current second, which
  truncates an earlier one, `CopyData` fills it, `CopyStat` gives it the mtime of the version copied. A copy cut short
  keeps the mtime of the moment (`Cut`), and `Prune` goes by mtime (`Newer`), so it takes such a file for newer than the
  backup just made. `issued`, `acked` and `saved` are history and read by no step.
- `ConfigHistory`: the abstract specification: versions follow each other, each an edit of *some* earlier version
  (`HistorySpec`) or of the *current* one (`SerialSpec`). `ConfigRefinement` maps the store to it: the version is what a
  load would return, the versions are what the file has held.
- `ConfigStoreProofs`, `ConfigRefinementProofs`: see Theorems.

### Buttons and jobs (modelled, checked, proved)

`RenewJobs`: one configuration's renew and redeploy buttons in both profiles (constant `Console`). `Press` is the check of
the lock files, `WriteLock` their creation, `Spawn` and `SpawnFails` the start of the shell, and a job's steps are the
loop of `acme-renew.sh` with certbot's own lock. `TimerFires` is the timer's unit, `Restart` a restart of the web unit
that kills the jobs in its control group, `OperatorClearsLocks` the clean-up of `docs/UPDATING.md`. `RenewJobsProofs` has
the proofs.

### DNS challenges (modelled, checked, proved)

`DnsChallenges`: runs of certbot with their auth and cleanup hooks. `FindDomainConfig` and `ResolveProvider` choose the
entry and the provider instance; a provider is one of four behaviours: record sets read and written whole (Azure,
GoDaddy; Route 53 with its own rule for deletions), the whole zone under a lock file (Namecheap), or one value per call
(Cloudflare, RFC 2136, webhook; here "value"). An alias is a map from names to records (`RecordOf`) in front of another
instance. A lock file belongs to a unit, because every unit has a `/tmp` of its own. `Apart` says which runs keep out of
each other's way: no two change one record, unless by single values, and those that write one zone at Namecheap are of one
unit. `ChallengeValues` is the abstract specification: a hook adds or removes the one value of its
challenge, at once and where it belongs; `ValuesOneByOne` says that the hooks implement it, with `zone` for its `txt`.
`DnsChallengesProofs` has the proofs.

### Deployment (modelled, checked, proved)

`Deploy`: runs of `deploy_certificate.py`. A run goes through its names, entries and targets; a firewall has a candidate
and a running configuration and commit jobs, a Windows server changes at once. A call can fail before or after it took
effect; a commit job can finish after its run stopped polling. Runs start at any time, also two for one entry (the timer's
and a button's). Three history variables: `promised` remembers what was reported, `crossed` the runs that overlapped with
another for their entry, which promise nothing, and `loose` the slots such a run pointed last: its object can be cleaned
up by the other before it refers to it, and a firewall then refuses every commit until the slot is pointed anew. `Separate`
says which entries keep out of each other's way (see Theorems). `DeployProofs` has the proofs.

### Renewal runs and alerts (modelled, checked, proved)

- `Notifications`: a process that raises an alert (`Raise` to `Save`: the settings are read, the time is taken, then the
  flock, the decision, the sending, the recording and the replacement of the state file), and the daily scan of
  `acme-notify.py check-expiry` customer by customer. Time passes in units an instance chooses. `mails` is the history of
  what reached the mail server; `kept` says that the message also reached the state file, while it could still hold back the
  next one (`InTime`).
- `RenewalRun` EXTENDS it with the scripts: the loop of `msp-renew-all-customers.sh`, the entries `acme-renew.sh` reads
  once, certbot's outcome for each, the alerts of its hooks and of the script, and both exit codes. A run and the scan
  share the state file of each customer; an entry can be removed under a run that listed it. `RenewalRunProofs` has the
  proofs about both.

### Administrators and customers (modelled, checked, proved)

- `MspAdmins`: the routes that change `admins.yaml`, one read or write of the file per step: a request looks at the
  account, counts the owners, loads the file again in the function of `auth.py` that changes it, and saves it whole.
- `CustomerLifecycle`: the two scripts line by line with the lock they share, the requests that wait for them 60 seconds,
  and the requests that make a customer's directory by loading or saving its configuration. The time-out (`TimesOut`) kills
  bash only: the command it was waiting for has inherited descriptor 9 and goes on with the lock, as a process of its own
  (`Stray`). The comment of msp-provision-customer.sh:77-81, that the lock is released the instant the script exits, holds
  for a script killed between two commands, or with all its processes (`Killed`). An archive is named after the second its
  script began, before it waited for the lock, so a second deprovisioning of that second replaces the first's (`Archive`).
- `MspConsole` composes both: each worker serves one request, of either kind, at a time; who may ask for a customer depends
  on `admins.yaml`, and the form of grants offers the customers there are. `ConsoleWorkers` holds the constants they share.
  `MspConsoleProofs` has the proofs about all three.

### System updates (modelled, checked, proved)

`SystemUpdates` EXTENDS `RenewJobs`: the one worker of the single-instance web UI serves the buttons or the updates page.
A request that starts a oneshot unit waits for its end (`Tells`) or for 20 seconds (`StartFails`); `RunCheck` and `RunUpdate`
are the two scripts, which empty a file and then write it, and go on when the write fails (neither has `set -e`);
`UnitKilled` ends one of them with or without its trap. `RebootAll` is `Reboot` of RenewJobs with
everything this page has under `/run`. `SystemUpdatesProofs` has the proofs.

### Composition

`MspConsole` composes administrators with customers, `RenewalRun` the renewal scripts with the alerts and the daily scan,
`SystemUpdates` the buttons and jobs with the updates page and the reboot. The other models meet at interfaces that are
kept equal: RenewJobs' `certbot` and `deploy` stages are the hooks of DnsChallenges and a run of Deploy, and what
RenewalRun takes certbot to end with; the one run per unit and configuration in DnsChallenges is what RenewJobs shows of
the buttons, while Deploy has the runs that RenewJobs lets overlap, a button's and the timer's; EntriesAssumption of
DnsChallenges and the unknown target of Deploy are what `WellFormed` of ConfigStore guarantees or, between two versions,
does not; CustomerLifecycle takes a save of ConfigStore as one step.

## The runs

| Run | Question | Bounds |
|---|---|---|
| config_console | Are the file and the backups that were copied whole always usable, is each version an edit of an earlier one, and does every request end, whatever two workers do? | 2 workers, 2 accepted edits, 1 name, 2 DNS instances, 1 target, all saves in one second; no file, a new, a used, a legacy file |
| config_single | Does one worker lose nothing, and can a bad edit be undone? | 1 worker, 3 edits, 3 seconds, `Keep` = 2; no file, a used, a legacy file |
| jobs_single | Do the lock files exclude what they should in the single-instance profile, and is the updates page true? | 2 domains, 2 jobs (a third never gets to run), 1 restart or reboot, 2 starts of a unit |
| jobs_liveness | Do lock files go away? | console profile, 1 domain, 2 jobs, 1 run of the timer, 1 restart or reboot, 1 clean-up |
| jobs_domain_and_all | *violated*: a customer-wide run beside a redeployment | console, 1 worker, 2 domains, 2 jobs |
| dns_unit | Do two runs of a unit leave each other's and other people's records alone, is each write the change of one value, do the runs end? | 2 runs, 3 instances, all four behaviours, 1 foreign record |
| deploy_devices | Does a slot keep what was reported, can the candidate always be committed, does exit 0 cover all targets, do runs end? | 2 runs, 3 entries (two on one firewall; one with two bindings of a server and another's prefix), 1 unknown target, 1 renewal per entry, 2 seconds |
| deploy_prefix | *violated*: one prefix for two entries on one server | 2 entries, 1 server |
| renewal_alerts | Do alerts keep their distance, does only what was sent count as sent, do both exit codes tell the truth? | the timer's run, a run of a button and the scan, 2 customers (both on; or one off and one unreadable, without an address or broken), 1 entry, 3 units of time, 2 runs, 1 fault |
| renewal_daily | *violated*: the daily digest of a certificate in its last days | the scan alone, 1 customer, units of 20 minutes, 2 days |
| console_workers | Does the last owner go, is a customer lost or overwritten, does a request hang? | 2 workers, 2 accounts, 1 customer, 3 requests, 1 edit, 2 seconds for archives, a death or a time-out at every step |
| console_gone | *violated*: a page of a customer that is gone | 1 worker, 1 owner, 1 customer, 3 requests |

Why the bounds are enough to be interesting: two workers (runs, jobs) are all a race needs, and the third job or edit lets
a behaviour continue after it; one name more than the race needs is there wherever a name could be mistaken for another;
with `Keep` = 2 and three seconds a third backup is pruned, two backups share a name or not, and cut copies fill half of
the places or all of them. The legacy file and the missing file are the states in which a load itself writes. Every action
and every disjunct of the next-state relations fires in some passing run. What the bounds cut off is repetition; the
theorems do without them.

Three requests are one more than the two that race; in three units of time an alert is repeated too early, at the end of
its gap, and after its entry was pruned from the state file (`Keep` is two), while the scan runs once (its repetition over
days is in renewal_daily and in the theorems); two starts of a unit are a page that
reads the files of two checks, before, during and after each, and a second request that joins an update in progress.

Each `violation` run is a disagreement between the code and what its comments or documents say; `PROJECT.json` quotes
the line. In short: the console's customer-wide button does not look at the locks of single domains (jobs_domain_and_all);
the clean-up by prefix removes a certificate that another entry's site is bound to (deploy_prefix); the interval of 24 hours
between two digests does not go together with a timer that starts up to 20 minutes after its hour (renewal_daily); loading
the configuration of a customer that was deprovisioned makes its directory again (console_gone).

Three more are in the models without a run of their own, as notes of the hazards they belong to: the flock of `save_config`
does not cover the load, so two workers can undo each other's edit, which `ImplementsHistory` allows and `AckedStays`
(checked with one worker) does not; two workers of the console can write the same lock file, which the first job to finish
removes; Namecheap's lock file is in a `/tmp` of its own for each unit. And two that no property states: an update of more
than 20 seconds is reported as not started while it runs, and the `is-active` that is to notice it never answers "active" for
a oneshot unit, so only the script's own lock file does (the message "Update started in the background" comes when the
update is over); an update that is killed without its trap leaves that file, and no
further update starts until the next reboot.

Properties that say "only raced" (`LastOwnerOnlyRaced`, `OverwrittenOnlyRaced`) state what the code does guarantee: no
sequence of requests reaches the bad state, only an overlap of two does, and the history field `raced` says which.

Deadlock is checked in ConfigStore, where requests always go on. The other models stop when their bounded numbers of runs or
requests are over, so there `CHECK_DEADLOCK FALSE` is set and liveness properties say what must not get stuck (not in
RenewalRun and in jobs_single). SYMMETRY is used only in runs without liveness properties.

## Fairness

- ConfigStore: weak fairness of the steps of a request that has begun, strong fairness of `AcquireLock`, as flock(2)
  serves its waiters while the lock is taken and released again and again. Nothing makes a request arrive, a load start or
  a save fail.
- RenewJobs: weak fairness of a worker's request and of each job: certbot, its hooks and the device clients all have
  time-outs. None for the buttons, the timer, a restart or the operator.
- DnsChallenges, Deploy: weak fairness of each run's progress as a whole (one disjunction): each API call has a time-out,
  and a lock file's holder is itself such a run or dead. In Deploy none for commit jobs: a firewall may never finish one.

- MspConsole: weak fairness of each worker's request: every command the scripts run ends, `_run` kills the script after 60
  seconds, and who waits for the lock of provisioning gives up after 30. And of the command that a time-out left behind
  (`LeftBehind`): it copies, packs or removes a customer's files, and ends by itself. None for the stop of the service.
- RenewalRun, SystemUpdates: none. Their properties are about what has happened when a step is taken.

## Theorems

All proofs are checked by TLAPS with SMT, Zenon and PTL, and rest only on the named assumptions about constants, which TLC
evaluates in the runs.

- **Configuration store.** `EditsEditable`: every edit turns a usable configuration without legacy parts into such a
  configuration (one lemma per operation on the configuration). `TypeCorrect`, `FileAlwaysUsable`, `BackupsAlwaysUsable`
  (of the backups whose copy was not cut short) follow from the inductive invariant `IInv` = types, `LockInv` (only the
  holder of the flock is inside `save_config`), `TmpInv` (what is about to be renamed is what this worker dumped) and
  `SnapInv` (every copy in memory is usable). FileUsable alone is not inductive: the file gets its content from `.tmp`,
  `.tmp` from a copy in memory, and another worker would be free to truncate it in between but for the lock.
  `OverwrittenAlwaysBackedUp` needs the further invariant `BackupInv`, that between the backup and the rename the current
  version is among the backups, or `Keep` cut copies are, and a counting argument for the pruning: the backup just made is
  removed only when `Keep` others are kept, of which each is as new, and those that are not copies of the same version are
  cut. docs/UPDATING.md:63 (the last 30 copies are kept) is the promise this makes precise. `HistoryImplemented` and
  `SingleWorkerSerial` are the refinements; their invariants (`OriginInv`, `SerialInv`) say where a copy in memory comes
  from. `SingleWorkerAckedStays` and `SingleWorkerAliasTargets` follow from the serial one.
- **Buttons and jobs.** `TypeCorrect` in both profiles. `OneWorkerButtonsExclusive` and `OneWorkerRunningIsLocked` assume
  `SingleInstance` (the web UI's checks, one worker, no clean-up by hand): `IInv` adds that a running job and the request
  being served, and any two running jobs, have buttons whose domains do not meet, and that a job stays within the domains
  of its button.

- **System updates.** `SysImplementsJobs`: every behaviour of SystemUpdates is one of RenewJobs, so that
  `BesideUpdatesLocksHold` follows from the theorems above. `SysTypeCorrect` and `PageAlwaysHonest` follow from `PageInv`:
  each of the three files is of a check no later than the file replaced before it (`FilesOrdered`), and what a request has
  read is no later than what it is to read next, which only becomes later (`SeenOrdered`). That a
  file is empty for a while, or stays so, only makes what is read earlier; the time is compared with the exit code only
  where the page has one.

- **MSP Console.** `ConsoleTypeCorrect`, `LastOwnerStays`, `NothingDeletedOutright`, `ExistingNotOverwritten`. The
  invariant relates what a request remembers to the files: a copy of `admins.yaml` that nobody overtook is still the file
  (`CopyIsFresh`), and who is about to save without having been raced leaves an owner (`OwnerLeft`); a script past the
  lock, or the command left of it after a time-out, holds it, what it staged is the customer's configuration unless
  somebody changed it since (`StagedIsNow`), and is archived when it removes it (`IsArchived`).
- **Renewal runs and alerts.** `RunTypeCorrect`. `AlertsSpacedOut` needs that the holder of a flock has in memory every
  message that is in the file in time and not forgotten (`SeenRemembers`, `Remembered`), and what it sends is due by that
  copy (`IsDue`, `SpacedOut`); `HeldBackWasMailed` the converse, that every stamp in the file or in memory is of a message
  (`Stamped`, `SeenStamped`). `ScanTellsTruth`: the customers the scan has passed are usable, and each certificate it asked
  about was mailed or is being dealt with (`ScanUsed`, `ScanAsked`). `ExitCodesTellTruth`: each entry a run has listed is
  still to come, failed, or has a certificate that was not due at the start (`Covered`), which holds on because certificates
  are only ever replaced by later ones.
- **Deployment.** `DeployTypeCorrect` and `ExitZeroIsTrue` hold for any configuration: each target of an entry that was
  found is deployed, failed or still to come (`Reported`). `PromisesAreKept` and `CandidatesStayValid` are for `Separate`
  entries, with runs for one entry that may overlap. Their invariant says that a device has only objects with the prefix of
  their entry and refers to them only from rows of that entry (`Tidy`), and that what is doomed has that prefix and another
  name than the run's (`OwnDoomed`). A run that no other crossed imports one object for all its rows (`Only`), the candidate
  has what its calls did (`Imported`, `Referred`, `Committed`), the rows it has done keep pointing to that object (`Kept`),
  and those of a device it is at are all its own (`Begun`); runs that cross promise nothing (`Crossing`, `Silent`), and a
  candidate refers to objects it has in all slots but the `loose` ones (`Sound`).
- **DNS challenges.** `ChallengesTypeCorrect` holds for any configuration; `ChallengesStay`, `RecordsOfOthersStay` and
  `NoValueComesBack` are for runs that are `Apart`. The heart of the invariant is `SeenNow`: what a hook has read is, when
  it writes, still what it replaces. Hence a write of a whole record set or zone changes one value, as a call that is
  given the value does (`WrittenIsCalled`): `WholeWritesAddOne`, the refinement of `ChallengeValues`, says just that, one
  step at a time. The rest follows from where a value can be (`Placed`) and who is still to remove it (`ToRemove`).

What the theorems assume of the constants. Most assumptions only give a type or keep a name from being mistaken for
another (`Nobody`, `None`, `Free`). These are about the system:

- `Separate` (Deploy): entries share no name and no slot, and where two of them meet on a firewall, or on a device that
  cleans up, the prefix of neither begins with that of the other. The forms enforce none of it, so the theorems carry it as
  a hypothesis. With a common name a run of one entry works on the targets of the other; with a common slot the two overwrite
  each other. The third part fails for the prefix every form offers first (`gp-portal-cert`) as soon as two entries keep it
  on one device: on a server with clean-up the one removes the other's certificate (deploy_prefix), on a firewall two runs
  of one second import under one name, and a clean-up removes what another run has imported and not yet referred to.
  On different devices, or on a server without clean-up, entries may share a prefix. Two rows of one entry on one device
  are allowed: both take the same object.
- `Apart` (DnsChallenges): without its first part two runs read and write one record set; without its second a lock file in
  another unit's `/tmp` excludes nobody. Both are listed as hazards.
- `RenewBefore < Life`: a new certificate is not due again at once. At most one scan: the timer's unit runs once at a time.
- `InitialAdmins`: an owner has no grants (auth.py:91 clears them), which every later change of an account keeps.

TLC evaluates all of them, and that the instances are `Separate` and `Apart`, in the runs.

Two statements had to be made more precise to be provable, as they were not true for all constants. A message counts as
`kept` only when it is recorded in time: a process that waits for the flock longer than `Keep` less its gap records a time
that the next process may already prune, and the message is repeated early. And the choice of what the scan does
with a customer was written with overlapping guards, of which TLA+ leaves the choice open; it is now a disjunction.

Only model-checked: liveness (`RequestsEnd`, `LocksClear`, `RunsEnd`), as it needs fairness and ENABLED, which the
prover cannot treat. Every other property of the passing runs is stated by a theorem, six of them under a hypothesis on
the configuration (`Separate`, `Apart`), five for a single worker. Induction over data (what a recursive definition
computes for every input) would be out of reach as well; no module needs it.

## What is left out

- The lines of a form, passwords, sessions, connection tests, layout and logs: no property speaks of them.
- Connection settings of providers, e-mail addresses and the order of domains in the file, except where a first match
  depends on it (DnsChallenges, Deploy).
- In DnsChallenges the search for a zone and the CA's answer; records of different runs are different, as two customers do
  not own one name (the alias that maps two names to one label is listed as a hazard).
- In Deploy the other fields of a profile and the messages; devices are modelled by what the clients rely on: a firewall
  commits a consistent configuration only and deletes no certificate in use.
- In Notifications the building and sending of a message, test messages and the forms. A digest is one message per
  certificate it lists. The fleet's own sender settings go through one temporary file without a lock; only two owners who
  save that form at the same moment meet there.
- In MspAdmins signing in, sessions, the lock-out counters (each worker has its own, in memory) and the difference between
  a grant to read and one to write; in CustomerLifecycle certificates, state and logs, which go with the directory, what a
  copy or a trim that is cut short leaves (it counts as the example), and a worker that dies alone while its script goes on.
- In SystemUpdates the step-up sign-in, which refuses a request before it does anything here, the list of packages, whether
  a reboot is required, and `acme-appliance.log`.

## Not modelled

- *Installers, image build and service units*: an operator runs them once, alone; their state is that of a fresh host. The
  models take from the units the number of workers, the timers, the control groups and `PrivateTmp`.
- *Templates and static files*: presentation.
- Connection tests, lists offered in forms, log views and the read-only views of the fleet: they change nothing.
- Sign-in and sessions of both web applications: one file written at set-up in the single-instance profile; counters of one
  process each in the console. Nothing that two requests share decides about them.

## Plan

Done, in this order: the store (it is what all others read), the buttons and jobs (the main interleavings), DNS challenges,
deployment, alerts with the renewal scripts, administrators with the customers' directories, system updates; then the
proofs, until each safety property had its theorem. What is left:

1. An abstract specification for Deploy: a slot goes from one reported certificate to the next. `OwnInv` is what the
   refinement needs.
2. What holds of the buttons with two workers (`ButtonsExclusive` is false there): that a running job of a domain was started
   after a check of its lock file.
3. `PromisedServed` for entries that share a name but no device, so that `Separate` asks for less.

Instances worth adding when there is room for them: an entry whose name ends with that of another entry
(dns_dispatcher.py:60), a redeployment of an entry whose name another one lists as additional (deploy_certificate.py:78), and
the other fields of a profile whose read fails (panos/client.py:158).
