------------------------------- MODULE Deploy -------------------------------
(***************************************************************************)
(* Runs of deploy_certificate.py, by certbot's deploy hook after a renewal *)
(* or by bin/redeploy-cert.sh: the entries its names belong to, their      *)
(* targets one after the other, and what each does to its firewall         *)
(* (deploy_providers/panos.py, panos/client.py) or Windows server          *)
(* (deploy_providers/iis.py), one call at a time.                          *)
(*                                                                         *)
(* Abstracted: the other fields of a profile, a portal or a binding, the   *)
(* text of errors, credentials; messages and logs.  Of the devices only    *)
(* what the client relies on: a firewall commits a configuration whose     *)
(* references exist, and deletes no certificate that is referenced.        *)
(***************************************************************************)
EXTENDS Naturals, Sequences

CONSTANTS
    Runs,       \* runs of deploy_certificate.py
    Names,      \* names of certificates
    Prefixes,   \* values of cert_name_prefix
    Entries,    \* the entries under domains, in order
    Devices,    \* instances under deploy_providers
    Firewalls,  \* those of type panos; the others are of type iis
    Cleanup,    \* those with cleanup_old_certs
    Slots,      \* profiles, portals and bindings a row of deploy_targets names
    DeviceOf,   \* per slot: the device, None for an unknown instance
    StartsWith, \* pairs of prefixes, the first starting with the second
    MaxStamp,   \* bound on the clock, in seconds
    MaxRenewals,\* bound on the renewals of an entry
    None

EntryIds == DOMAIN Entries

(* Certificates are versions of a lineage; on a device one has a name.     *)
Certs     == [lineage : EntryIds, version : 0 .. MaxRenewals]
CertNames == [prefix : Prefixes, stamp : 0 .. MaxStamp]
Objects   == [name : CertNames, cert : Certs]

ASSUME DevicesAssumption ==
    /\ Firewalls \subseteq Devices /\ Cleanup \subseteq Devices
    /\ DeviceOf \in [Slots -> Devices \cup {None}]
    /\ None \notin Devices \cup Objects
ASSUME BoundsAssumption == MaxStamp \in Nat /\ MaxRenewals \in Nat

Named(e) == {Entries[e].name} \cup Entries[e].extra
Rows(e)  == {Entries[e].rows[i] : i \in DOMAIN Entries[e].rows}
Of(s)    == {e \in EntryIds : s \in Rows(e)}

ASSUME EntriesAssumption ==
    /\ Entries \in Seq([name : Names, extra : SUBSET Names, prefix : Prefixes, rows : Seq(Slots)])
    /\ \A s \in Slots : Of(s) # {}

(* Whether a name with prefix p is taken for one of the prefix q.          *)
Covers(p, q) == p = q \/ <<p, q>> \in StartsWith

(* Entries that keep out of each other's way, which the form does not      *)
(* enforce.  A prefix for two of them does no harm where a device goes     *)
(* neither by the name nor cleans up.                                      *)
Targets(e) == {DeviceOf[s] : s \in Rows(e)}
ByName     == Firewalls \cup Cleanup

Separate == \A e, f \in EntryIds : e # f =>
    /\ Named(e) \cap Named(f) = {}
    /\ Rows(e) \cap Rows(f) = {}
    /\ Targets(e) \cap Targets(f) \cap ByName # {} => ~Covers(Entries[e].prefix, Entries[f].prefix)

VARIABLES
    live,     \* per entry: the version certbot's live directory holds
    device,   \* per device: its candidate and its running configuration
    job,      \* per run and slot: the commit job it started
    run,      \* per run: where it is and what it has to report
    clock     \* the second that names are made of

VARIABLES     \* history
    promised, \* per slot: the certificate it was last reported to serve
    crossed,  \* runs that worked while another run for their entry did
    loose     \* slots that such a run pointed to its certificate last

vars == <<live, device, job, run, clock, promised, crossed, loose>>

Steps == {"next", "import", "refer", "commit", "poll", "list", "delete", "bind", "clean"}

Configurations == [certs : SUBSET Objects, ref : [Slots -> Objects \cup {None}]]

Idle == [phase |-> "ready", lineage |-> 0, names |-> {}, seen |-> {}, entry |-> 0, rows |-> <<>>,
         step |-> "next", stamp |-> 0, object |-> None, doomed |-> {}, deployed |-> {}, failed |-> {}]

RunState == [
    phase    : {"ready", "working", "exit0", "exit1", "killed"},
    lineage  : EntryIds \cup {0},         \* the certificate it is run for
    names    : SUBSET Names,               \* those it has not come to
    seen     : SUBSET EntryIds,
    entry    : EntryIds \cup {0},         \* the last of these, and its rows
    rows     : Seq(Slots),
    step     : Steps,
    stamp    : 0 .. MaxStamp,
    object   : Objects \cup {None},
    doomed   : SUBSET Objects,             \* listed for the clean-up
    deployed : SUBSET Slots,
    failed   : SUBSET Slots]

TypeOK ==
    /\ live \in [EntryIds -> 0 .. MaxRenewals]
    /\ device \in [Devices -> [candidate : Configurations, running : Configurations]]
    /\ job \in [Runs \X Slots -> {"none", "queued", "ok", "failed"}]
    /\ run \in [Runs -> RunState]
    /\ \A r \in Runs : run[r].step # "next" => run[r].phase = "working" /\ run[r].rows # <<>>
    /\ clock \in 0 .. MaxStamp
    /\ promised \in [Slots -> Certs \cup {None}]
    /\ crossed \subseteq Runs /\ loose \subseteq Slots

(* At first every slot serves the first certificate of its entry.          *)
First(s) == LET e == CHOOSE e \in Of(s) : TRUE
            IN  [name |-> [prefix |-> Entries[e].prefix, stamp |-> 0], cert |-> [lineage |-> e, version |-> 0]]

AtFirst(d) ==
    LET here == {s \in Slots : DeviceOf[s] = d}
    IN  [certs |-> {First(s) : s \in here}, ref |-> [s \in Slots |-> IF s \in here THEN First(s) ELSE None]]

Init ==
    /\ live = [e \in EntryIds |-> 0]
    /\ device = [d \in Devices |-> [candidate |-> AtFirst(d), running |-> AtFirst(d)]]
    /\ job = [x \in Runs \X Slots |-> "none"]
    /\ run = [r \in Runs |-> Idle]
    /\ clock = 0
    /\ promised = [s \in Slots |-> IF DeviceOf[s] = None THEN None ELSE First(s).cert]
    /\ crossed = {} /\ loose = {}
-----------------------------------------------------------------------------
(* find_domain_config: the first entry that has the name.                  *)
Found(n) == {e \in EntryIds : n \in Named(e)}
FindDomainConfig(n) == CHOOSE e \in Found(n) : \A f \in Found(n) : e <= f

Slot(r)   == Head(run[r].rows)
Device(r) == DeviceOf[Slot(r)]
Prefix(r) == Entries[run[r].entry].prefix
At(r, step) == run[r].phase = "working" /\ run[r].step = step
Step(r, step) == run' = [run EXCEPT ![r].step = step]
Name(r)   == [prefix |-> Prefix(r), stamp |-> run[r].stamp]

(* What a device calls the same certificate: a firewall goes by the name,  *)
(* a Windows server by the thumbprint.                                     *)
Same(d, x, y) == IF d \in Firewalls THEN x.name = y.name ELSE x.cert = y.cert
Held(d, c, x) == \E y \in c.certs : Same(d, x, y)
Put(d, c, x)  == [c EXCEPT !.certs = {y \in @ : ~Same(d, x, y)} \cup {x}]
Point(c, s, x) == [c EXCEPT !.ref[s] = x]
Valid(d, c)   == \A s \in Slots : c.ref[s] # None => Held(d, c, c.ref[s])
Candidate(r)  == device[Device(r)].candidate

(* A firewall runs what was committed last, a server what it was told last.*)
Changed(d, c) ==
    [device EXCEPT ![d] = [candidate |-> c, running |-> IF d \in Firewalls THEN @.running ELSE c]]

Served(s) ==
    LET d == DeviceOf[s]
        c == device[d].running
        x == c.ref[s]
    IN  IF x # None /\ Held(d, c, x) THEN (CHOOSE y \in c.certs : Same(d, x, y)).cert ELSE None
-----------------------------------------------------------------------------
(* A renewal puts a new version into the live directory and runs the hook  *)
(* with all its names; a redeployment has the name of its entry only.      *)
(* Another run for the entry may be at work: the timer's, or that of an    *)
(* other button.  Then nothing is promised of its targets any more.        *)
Start(r) ==
    /\ run[r].phase = "ready"
    /\ \E e \in EntryIds, renewed \in BOOLEAN, t \in {clock, clock + 1} :
        LET others == {q \in Runs : run[q].phase = "working" /\ run[q].lineage = e} IN
        /\ renewed => live[e] < MaxRenewals
        /\ 0 < t /\ t <= MaxStamp
        /\ live' = [live EXCEPT ![e] = IF renewed THEN @ + 1 ELSE @]
        /\ clock' = t
        /\ run' = [run EXCEPT ![r] = [Idle EXCEPT
                !.phase = "working", !.lineage = e, !.stamp = t,
                !.names = IF renewed THEN Named(e) ELSE {Entries[e].name}]]
        /\ crossed' = IF others = {} THEN crossed ELSE crossed \cup others \cup {r}
        /\ promised' = [s \in Slots |-> IF others # {} /\ s \in Rows(e) THEN None ELSE promised[s]]
    /\ UNCHANGED <<device, job, loose>>

(* The loop over the names: an entry is dealt with once.                   *)
NextName(r) ==
    /\ At(r, "next") /\ run[r].rows = <<>>
    /\ \E n \in run[r].names :
        LET e == FindDomainConfig(n) IN
        IF Found(n) = {} \/ e \in run[r].seen
        THEN run' = [run EXCEPT ![r].names = @ \ {n}]
        ELSE run' = [run EXCEPT ![r].names = @ \ {n}, ![r].seen = @ \cup {e}, ![r].entry = e,
                                ![r].rows = Entries[e].rows]
    /\ UNCHANGED <<live, device, job, clock, promised, crossed, loose>>

Exit(r) ==
    /\ At(r, "next") /\ run[r].rows = <<>> /\ run[r].names = {}
    /\ run' = [run EXCEPT ![r].phase = IF run[r].seen = {} \/ run[r].failed # {} THEN "exit1" ELSE "exit0"]
    /\ UNCHANGED <<live, device, job, clock, promised, crossed, loose>>

(* The loop over the targets.  With the first on a device the run takes in *)
(* hand what the entry has there; those it has done already stay promised. *)
Taken(r) == {s \in Rows(run[r].entry) : DeviceOf[s] = Device(r) /\ (s = Slot(r) \/ s \notin run[r].deployed)}

NextTarget(r) ==
    /\ At(r, "next") /\ run[r].rows # <<>> /\ Device(r) # None
    /\ Step(r, "import")
    /\ promised' = [s \in Slots |-> IF s \in Taken(r) THEN None ELSE promised[s]]
    /\ UNCHANGED <<live, device, job, clock, crossed, loose>>

(* A mutant of RowDone: the next target starts where this one stopped.     *)
RowDoneMidway(r) == [run[r] EXCEPT !.rows = Tail(@), !.object = None, !.doomed = {}]

RowDone(r) == [run[r] EXCEPT !.step = "next", !.rows = Tail(@), !.object = None, !.doomed = {}]

(* A mutant of RowFailed: the failure is logged only.                      *)
RowFailedQuietly(r) == run' = [run EXCEPT ![r] = RowDone(r)]

RowFailed(r) == run' = [run EXCEPT ![r] = [RowDone(r) EXCEPT !.failed = @ \cup {Slot(r)}]]

UnknownTarget(r) ==
    /\ At(r, "next") /\ run[r].rows # <<>> /\ Device(r) = None
    /\ RowFailed(r)
    /\ UNCHANGED <<live, device, job, clock, promised, crossed, loose>>

(* The report is worth something unless another run for the entry came in  *)
(* between.                                                                *)
RowDeployed(r) ==
    /\ run' = [run EXCEPT ![r] = [RowDone(r) EXCEPT !.deployed = @ \cup {Slot(r)}]]
    /\ promised' = [promised EXCEPT ![Slot(r)] = IF r \in crossed THEN None ELSE run[r].object.cert]
    /\ UNCHANGED <<crossed, loose>>
-----------------------------------------------------------------------------
(* import_certificate, and the import script of iis.py: reads the files of *)
(* the lineage.                                                            *)
NewObject(r) ==
    [name |-> Name(r), cert |-> [lineage |-> run[r].lineage, version |-> live[run[r].lineage]]]

Import(r) ==
    /\ At(r, "import")
    /\ device' = Changed(Device(r), Put(Device(r), Candidate(r), NewObject(r)))
    /\ run' = [run EXCEPT ![r].object = NewObject(r),
                          ![r].step = IF Device(r) \in Firewalls THEN "refer" ELSE "bind"]
    /\ UNCHANGED <<live, job, clock, promised, crossed, loose>>

(* set_ssl_tls_profile_certificate, set_globalprotect_portal_certificate;  *)
(* the firewall may refuse a name it does not have.                        *)
PointSlot(r) ==
    /\ device' = Changed(Device(r), Point(Candidate(r), Slot(r), run[r].object))
    /\ loose' = IF r \in crossed THEN loose \cup {Slot(r)} ELSE loose \ {Slot(r)}

Refer(r) ==
    /\ At(r, "refer")
    /\ PointSlot(r)
    /\ Step(r, "commit")
    /\ UNCHANGED <<live, job, clock, promised, crossed>>

Commit(r) ==
    /\ At(r, "commit")
    /\ IF Candidate(r) = device[Device(r)].running
       THEN Step(r, "list") /\ UNCHANGED job
       ELSE Step(r, "poll") /\ job' = [job EXCEPT ![<<r, Slot(r)>>] = "queued"]
    /\ UNCHANGED <<live, device, clock, promised, crossed, loose>>

(* The firewall carries out a job, also one that nobody waits for; it can  *)
(* fail for reasons of its own.                                            *)
CommitJob(r, s) ==
    /\ job[<<r, s>>] = "queued"
    /\ LET d == DeviceOf[s]
           watched == At(r, "poll") /\ Slot(r) = s
           Ends(result) == job' = [job EXCEPT ![<<r, s>>] = IF watched THEN result ELSE "none"]
       IN  \/ /\ Valid(d, device[d].candidate)
              /\ device' = [device EXCEPT ![d].running = device[d].candidate]
              /\ Ends("ok")
           \/ Ends("failed") /\ UNCHANGED device
    /\ UNCHANGED <<live, run, clock, promised, crossed, loose>>

Finished(r) ==
    /\ At(r, "poll") /\ job[<<r, Slot(r)>>] = "ok"
    /\ Step(r, "list")
    /\ job' = [job EXCEPT ![<<r, Slot(r)>>] = "none"]
    /\ UNCHANGED <<live, device, clock, promised, crossed, loose>>

(* Mutants of CallFails: the answer to the import is not looked at; the    *)
(* polls go on until the job is finished.                                  *)
CallFailsUnnoticed(r) ==
    /\ At(r, "import")
    /\ run' = [run EXCEPT ![r].object = NewObject(r), ![r].step = "refer"]
    /\ UNCHANGED <<live, device, job, clock, promised, crossed, loose>>

CallFailsNotPolls(r) ==
    /\ run[r].step \in {"import", "refer", "commit"}
    /\ RowFailed(r)
    /\ UNCHANGED <<live, device, job, clock, promised, crossed, loose>>

(* Any call can fail before or after it took effect, a job can fail, and   *)
(* the polls stop after five minutes.  The target has failed then.         *)
CallFails(r) ==
    /\ run[r].step \in {"import", "refer", "commit", "poll"}
    /\ RowFailed(r)
    /\ \/ /\ UNCHANGED <<device, loose>>
          /\ job' = IF job[<<r, Slot(r)>>] = "queued" THEN job ELSE [job EXCEPT ![<<r, Slot(r)>>] = "none"]
       \/ /\ At(r, "import") /\ UNCHANGED <<job, loose>>
          /\ device' = Changed(Device(r), Put(Device(r), Candidate(r), NewObject(r)))
       \/ At(r, "refer") /\ PointSlot(r) /\ UNCHANGED job
       \/ /\ At(r, "commit") /\ UNCHANGED <<device, loose>>
          /\ job' = [job EXCEPT ![<<r, Slot(r)>>] = "queued"]
    /\ UNCHANGED <<live, clock, promised, crossed>>

(* A mutant of Stale: the new certificate is not spared.                   *)
StaleAndNew(r) == {x \in Candidate(r).certs : Covers(x.name.prefix, Prefix(r))}

(* The certificates that share the prefix, but not the one to keep.        *)
Stale(r) == {x \in Candidate(r).certs : Covers(x.name.prefix, Prefix(r)) /\ x.name # Name(r)}

List(r) ==
    /\ At(r, "list") /\ Device(r) \in Cleanup /\ Stale(r) # {}
    /\ run' = [run EXCEPT ![r].step = "delete", ![r].doomed = Stale(r)]
    /\ UNCHANGED <<live, device, job, clock, promised, crossed, loose>>

NothingToClean(r) ==
    /\ \/ At(r, "list") /\ (Device(r) \notin Cleanup \/ Stale(r) = {})
       \/ At(r, "clean") /\ Device(r) \notin Cleanup
       \/ At(r, "delete") /\ run[r].doomed = {}
    /\ RowDeployed(r)
    /\ UNCHANGED <<live, device, job, clock>>

(* A referenced certificate is not deleted, which is only logged; nothing  *)
(* commits the deletions.                                                  *)
Delete(r) ==
    /\ At(r, "delete")
    /\ \E x \in run[r].doomed :
        /\ run' = [run EXCEPT ![r].doomed = @ \ {x}]
        /\ LET c == Candidate(r)
               unused == \A s \in Slots : c.ref[s] # None => c.ref[s].name # x.name
           IN  \/ unused /\ device' = Changed(Device(r), [c EXCEPT !.certs = {y \in @ : y.name # x.name}])
               \/ UNCHANGED device
    /\ UNCHANGED <<live, job, clock, promised, crossed, loose>>

(* netsh deletes the binding, then adds the new one.                       *)
Bind(r) ==
    /\ At(r, "bind") /\ Held(Device(r), Candidate(r), run[r].object)
    /\ device' = Changed(Device(r), Point(Candidate(r), Slot(r), run[r].object))
    /\ Step(r, "clean")
    /\ UNCHANGED <<live, job, clock, promised, crossed, loose>>

BindFails(r) ==
    /\ At(r, "bind")
    /\ \E x \in {Candidate(r).ref[Slot(r)], None, run[r].object} :
        /\ x = run[r].object => Held(Device(r), Candidate(r), x)
        /\ device' = Changed(Device(r), Point(Candidate(r), Slot(r), x))
    /\ RowFailed(r)
    /\ UNCHANGED <<live, job, clock, promised, crossed, loose>>

(* Remove-Item -Force also removes what is bound; it stops at an error,    *)
(* which is only logged.                                                   *)
Clean(r) ==
    /\ At(r, "clean") /\ Device(r) \in Cleanup
    /\ \E gone \in SUBSET Stale(r) :
        device' = Changed(Device(r), [Candidate(r) EXCEPT !.certs = @ \ gone])
    /\ RowDeployed(r)
    /\ UNCHANGED <<live, job, clock>>

(* No answer at all: an exception of the HTTP or WinRM library.            *)
CleanupFails(r) ==
    /\ run[r].step \in {"list", "delete", "clean"} /\ Device(r) \in Cleanup
    /\ RowFailed(r)
    /\ UNCHANGED <<live, device, job, clock, promised, crossed, loose>>

(* The unit is stopped.                                                    *)
Killed(r) ==
    /\ run[r].phase = "working"
    /\ run' = [run EXCEPT ![r] = [Idle EXCEPT !.phase = "killed"]]
    /\ job' = [x \in Runs \X Slots |-> IF x[1] = r /\ job[x] # "queued" THEN "none" ELSE job[x]]
    /\ UNCHANGED <<live, device, clock, promised, crossed, loose>>
-----------------------------------------------------------------------------
Progress(r) ==
    \/ NextName(r) \/ Exit(r) \/ NextTarget(r) \/ UnknownTarget(r) \/ Import(r) \/ Refer(r) \/ Commit(r)
    \/ Finished(r) \/ CallFails(r) \/ List(r) \/ NothingToClean(r) \/ Delete(r) \/ Bind(r) \/ BindFails(r)
    \/ Clean(r) \/ CleanupFails(r)

Next ==
    \/ \E r \in Runs : Start(r) \/ Progress(r) \/ Killed(r)
    \/ \E r \in Runs, s \in Slots : CommitJob(r, s)

Spec == Init /\ [][Next]_vars

(* A call returns or times out; nothing is assumed of the jobs.            *)
FairSpec == Spec /\ \A r \in Runs : WF_vars(Progress(r))
-----------------------------------------------------------------------------
(* A slot keeps serving the certificate that was reported deployed to it,  *)
(* until another run takes the targets of its entry on that device in hand *)
(* or crosses the one that reported: neither the clean-up nor the commit   *)
(* of a run for another entry disturbs it, nor the rest of its own         *)
(* ("reliably find/skip the right one", README.md:225).                    *)
PromisedServed == \A s \in Slots : promised[s] # None => Served(s) = promised[s]

(* Whatever failed, what a run that was not crossed has left in the        *)
(* candidate configuration can be committed, so that it does not make the  *)
(* commits of later runs fail.                                             *)
CandidatesValid ==
    \A d \in Firewalls, s \in Slots \ loose :
        LET c == device[d].candidate IN c.ref[s] # None => Held(d, c, c.ref[s])

(* Exit code 0 says that every target of every matched entry has the       *)
(* certificate (deploy_certificate.py:16-18): one that fails hides no other*)
(* and is not hidden by the next.                                          *)
ExitZeroCoversAll ==
    \A r \in Runs : run[r].phase = "exit0" =>
        /\ run[r].failed = {} /\ run[r].seen # {}
        /\ \A e \in run[r].seen : Rows(e) \subseteq run[r].deployed

(* Every run ends, also when a commit job never finishes.                  *)
RunsEnd == \A r \in Runs : run[r].phase = "working" ~> run[r].phase # "working"
=============================================================================
