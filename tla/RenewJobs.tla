------------------------------ MODULE RenewJobs ------------------------------
(***************************************************************************)
(* The renew and redeploy buttons of one configuration, and the background *)
(* jobs they start: webui/app.py:144-198 and 340-410 in the single-instance*)
(* profile, msp_console/actions.py and fleet.py for one customer of the MSP*)
(* Console.  A lock file marks a button as busy: the request looks for it, *)
(* writes it and starts a shell that runs the script and then removes it.  *)
(* The daily timer runs the same script in a unit of its own.              *)
(*                                                                         *)
(* Abstracted: the order of the list of domains (a run may take them in any*)
(* order), the reasons for which certbot or a deployment fails, and the    *)
(* text of lock file names, taken to be different for different buttons.   *)
(***************************************************************************)
EXTENDS Naturals, FiniteSets

CONSTANTS
    Domains,       \* names of the domain entries of the configuration
    Workers,       \* gunicorn worker processes
    Slots,         \* background jobs that can run at the same time (a bound)
    Timer,         \* the job of acme-renew.service or acme-msp-renewal.service
    All,           \* stands for every domain
    None,          \* no domain, no button
    Console,       \* TRUE: MSP Console, FALSE: single-instance profile
    MaxTimerRuns,  \* bound: runs the timer starts
    MaxRestarts,   \* bound: restarts of the web service and of the host
    MaxClears      \* bound: times the operator removes the lock files

ASSUME DomainsAssumption == All \notin Domains /\ None \notin Domains /\ All # None
ASSUME JobsAssumption    == Timer \notin Slots
ASSUME ProfileAssumption == Console \in BOOLEAN
ASSUME LimitsAssumption  == {MaxTimerRuns, MaxRestarts, MaxClears} \subseteq Nat

(* A button, and the lock file named after it.                             *)
RenewAll    == [kind |-> "renew", dom |-> All]
Renew(d)    == [kind |-> "renew", dom |-> d]
Redeploy(d) == [kind |-> "redeploy", dom |-> d]
Buttons == {RenewAll} \cup {Renew(d) : d \in Domains} \cup {Redeploy(d) : d \in Domains}
NoButton == [kind |-> "none", dom |-> None]

VARIABLES
    locks,     \* the lock files that exist
    req,       \* the button a worker is serving
    pc,        \* how far it is
    jobs,      \* the background jobs and the timer's run
    timerRuns, restarts, clears

VARIABLE orphaned  \* history: lock files left by a process that is gone

counters == <<timerRuns, restarts, clears>>
vars == <<locks, req, pc, jobs, timerRuns, restarts, clears, orphaned>>

(* A job is free, between two domains, in certbot for a domain, deploying  *)
(* that domain's certificate, or about to remove its lock file.            *)
Job == [stage : {"free", "next", "certbot", "deploy", "exit"}, lock : Buttons \cup {NoButton},
        todo : SUBSET Domains, at : Domains \cup {None}, failed : BOOLEAN]

NoJob == [stage |-> "free", lock |-> NoButton, todo |-> {}, at |-> None, failed |-> FALSE]

WellShaped(job) ==
    /\ job.stage \in {"certbot", "deploy"} <=> job.at # None
    /\ job.stage = "free" => job = NoJob

TypeOK ==
    /\ locks \subseteq Buttons
    /\ req \in [Workers -> Buttons \cup {NoButton}]
    /\ pc \in [Workers -> {"idle", "checked", "locked"}]
    /\ jobs \in [Slots \cup {Timer} -> Job]
    /\ \A j \in Slots \cup {Timer} : WellShaped(jobs[j])
    /\ timerRuns \in 0 .. MaxTimerRuns /\ restarts \in 0 .. MaxRestarts /\ clears \in 0 .. MaxClears
    /\ orphaned \subseteq locks

Init ==
    /\ locks = {}
    /\ req = [w \in Workers |-> NoButton]
    /\ pc = [w \in Workers |-> "idle"]
    /\ jobs = [j \in Slots \cup {Timer} |-> NoJob]
    /\ timerRuns = 0 /\ restarts = 0 /\ clears = 0
    /\ orphaned = {}
-----------------------------------------------------------------------------
(* A mutant of the next definition: the renew-all lock is not looked at.   *)
DomainBusyAlone(d) == Renew(d) \in locks \/ Redeploy(d) \in locks

DomainBusy(d) == RenewAll \in locks \/ Renew(d) \in locks \/ Redeploy(d) \in locks

(* The renew-all button: the web UI wants no lock file at all, the console *)
(* only that of the same button.                                           *)
AllBusy == IF Console THEN RenewAll \in locks ELSE locks # {}

Busy(b) == IF b = RenewAll THEN AllBusy ELSE DomainBusy(b.dom)

(* A request found its button free; a busy one is refused and changes      *)
(* nothing.                                                                *)
Press(w) ==
    /\ pc[w] = "idle"
    /\ \E b \in Buttons :
        /\ ~Busy(b)
        /\ req' = [req EXCEPT ![w] = b]
    /\ pc' = [pc EXCEPT ![w] = "checked"]
    /\ UNCHANGED <<locks, jobs, counters, orphaned>>

WriteLock(w) ==
    /\ pc[w] = "checked"
    /\ locks' = locks \cup {req[w]}
    /\ pc' = [pc EXCEPT ![w] = "locked"]
    /\ UNCHANGED <<req, jobs, counters, orphaned>>

JobFor(b) ==
    [stage |-> IF b.kind = "redeploy" THEN "deploy" ELSE "next", lock |-> b,
     todo |-> IF b.kind = "redeploy" THEN {} ELSE IF b.dom = All THEN Domains ELSE {b.dom},
     at |-> IF b.kind = "redeploy" THEN b.dom ELSE None, failed |-> FALSE]

Answered(w) ==
    /\ pc' = [pc EXCEPT ![w] = "idle"]
    /\ req' = [req EXCEPT ![w] = NoButton]

(* A mutant of Spawn: the parent removes the lock file once Popen returned.*)
SpawnAndUnlock(w) ==
    /\ pc[w] = "locked"
    /\ \E j \in Slots :
        /\ jobs[j].stage = "free"
        /\ jobs' = [jobs EXCEPT ![j] = JobFor(req[w])]
    /\ locks' = locks \ {req[w]}
    /\ Answered(w)
    /\ UNCHANGED <<counters, orphaned>>

(* Popen succeeds.                                                         *)
Spawn(w) ==
    /\ pc[w] = "locked"
    /\ \E j \in Slots :
        /\ jobs[j].stage = "free"
        /\ jobs' = [jobs EXCEPT ![j] = JobFor(req[w])]
    /\ Answered(w)
    /\ UNCHANGED <<locks, counters, orphaned>>

(* Popen raises: the console removes the lock file, the web UI leaves it.  *)
SpawnFails(w) ==
    /\ pc[w] = "locked"
    /\ IF Console
       THEN locks' = locks \ {req[w]} /\ orphaned' = orphaned \ {req[w]}
       ELSE orphaned' = orphaned \cup ({req[w]} \cap locks) /\ UNCHANGED locks
    /\ Answered(w)
    /\ UNCHANGED <<jobs, counters>>

(* The worker process dies, or is killed by gunicorn's time-out.           *)
WorkerDies(w) ==
    /\ pc[w] # "idle"
    /\ orphaned' = IF pc[w] = "locked" THEN orphaned \cup ({req[w]} \cap locks) ELSE orphaned
    /\ Answered(w)
    /\ UNCHANGED <<locks, jobs, counters>>
-----------------------------------------------------------------------------
(* Certbot locks its directories, and a second certbot that finds them     *)
(* locked fails at once; its deploy hook runs under that lock.  A redeploy *)
(* runs no certbot.                                                        *)
InCertbot(j) ==
    \/ jobs[j].stage = "certbot"
    \/ jobs[j].stage = "deploy" /\ jobs[j].lock.kind # "redeploy"

OthersInCertbot(j) == \E k \in (Slots \cup {Timer}) \ {j} : InCertbot(k)

StartCertbot(j) ==
    /\ jobs[j].stage = "next"
    /\ ~OthersInCertbot(j)
    /\ \E d \in jobs[j].todo :
        jobs' = [jobs EXCEPT ![j].stage = "certbot", ![j].at = d, ![j].todo = @ \ {d}]
    /\ UNCHANGED <<locks, req, pc, counters, orphaned>>

(* The entry fails because another run is in certbot; the loop goes on.    *)
CertbotLocked(j) ==
    /\ jobs[j].stage = "next"
    /\ OthersInCertbot(j)
    /\ \E d \in jobs[j].todo : jobs' = [jobs EXCEPT ![j].todo = @ \ {d}, ![j].failed = TRUE]
    /\ UNCHANGED <<locks, req, pc, counters, orphaned>>

(* Certbot issues a certificate and runs the deploy hook, finds the        *)
(* certificate not yet due, or fails.                                      *)
CertbotDecides(j) ==
    /\ jobs[j].stage = "certbot"
    /\ \/ jobs' = [jobs EXCEPT ![j].stage = "deploy"]
       \/ \E bad \in BOOLEAN :
            jobs' = [jobs EXCEPT ![j].stage = "next", ![j].at = None, ![j].failed = @ \/ bad]
    /\ UNCHANGED <<locks, req, pc, counters, orphaned>>

(* A mutant of Deployed: the loop variable is not reset.                   *)
DeployedNotReset(j) ==
    /\ jobs[j].stage = "deploy"
    /\ \E bad \in BOOLEAN :
        jobs' = [jobs EXCEPT ![j].stage = IF jobs[j].lock.kind = "redeploy" THEN "exit" ELSE "next",
                             ![j].failed = @ \/ bad]
    /\ UNCHANGED <<locks, req, pc, counters, orphaned>>

(* The deployment ends.  A failed deploy hook does not fail certbot, a     *)
(* failed deploy_certificate.py fails the redeploy.                        *)
Deployed(j) ==
    /\ jobs[j].stage = "deploy"
    /\ \E bad \in BOOLEAN :
        jobs' = [jobs EXCEPT ![j].stage = IF jobs[j].lock.kind = "redeploy" THEN "exit" ELSE "next",
                             ![j].at = None,
                             ![j].failed = @ \/ (bad /\ jobs[j].lock.kind = "redeploy")]
    /\ UNCHANGED <<locks, req, pc, counters, orphaned>>

LoopDone(j) ==
    /\ jobs[j].stage = "next"
    /\ jobs[j].todo = {}
    /\ jobs' = [jobs EXCEPT ![j].stage = "exit"]
    /\ UNCHANGED <<locks, req, pc, counters, orphaned>>

(* A mutant of Exit: `script && rm` instead of `script; rm`.               *)
ExitRemovingIfOk(j) ==
    /\ jobs[j].stage = "exit"
    /\ IF jobs[j].failed THEN UNCHANGED <<locks, orphaned>>
       ELSE locks' = locks \ {jobs[j].lock} /\ orphaned' = orphaned \ {jobs[j].lock}
    /\ jobs' = [jobs EXCEPT ![j] = NoJob]
    /\ UNCHANGED <<req, pc, counters>>

(* The shell removes the lock file whatever the exit code; the timer's run *)
(* has none.                                                               *)
Exit(j) ==
    /\ jobs[j].stage = "exit"
    /\ locks' = locks \ {jobs[j].lock}
    /\ orphaned' = orphaned \ {jobs[j].lock}
    /\ jobs' = [jobs EXCEPT ![j] = NoJob]
    /\ UNCHANGED <<req, pc, counters>>
-----------------------------------------------------------------------------
(* The oneshot unit of the timer runs at most once at a time.              *)
TimerFires ==
    /\ timerRuns < MaxTimerRuns
    /\ jobs[Timer].stage = "free"
    /\ jobs' = [jobs EXCEPT ![Timer] = [NoJob EXCEPT !.stage = "next", !.todo = Domains]]
    /\ timerRuns' = timerRuns + 1
    /\ UNCHANGED <<locks, req, pc, restarts, clears, orphaned>>

(* A restart of the web service kills the requests and the jobs in its     *)
(* control group; the files under /run stay.                               *)
Restart ==
    /\ restarts < MaxRestarts
    /\ restarts' = restarts + 1
    /\ orphaned' = orphaned \cup {b \in locks : \/ \E w \in Workers : pc[w] = "locked" /\ req[w] = b
                                              \/ \E j \in Slots : jobs[j].lock = b}
    /\ pc' = [w \in Workers |-> "idle"]
    /\ req' = [w \in Workers |-> NoButton]
    /\ jobs' = [j \in Slots \cup {Timer} |-> IF j = Timer THEN jobs[Timer] ELSE NoJob]
    /\ UNCHANGED <<locks, timerRuns, clears>>

(* A reboot of the host: no process and no file under /run survives.       *)
Reboot ==
    /\ restarts < MaxRestarts
    /\ restarts' = restarts + 1
    /\ locks' = {} /\ orphaned' = {}
    /\ pc' = [w \in Workers |-> "idle"]
    /\ req' = [w \in Workers |-> NoButton]
    /\ jobs' = [j \in Slots \cup {Timer} |-> NoJob]
    /\ UNCHANGED <<timerRuns, clears>>

(* docs/UPDATING.md: both timer units are inactive, then rm -f of every    *)
(* renew and redeploy lock.                                                *)
OperatorClearsLocks ==
    /\ clears < MaxClears
    /\ restarts > 0
    /\ jobs[Timer].stage = "free"
    /\ locks # {}
    /\ clears' = clears + 1
    /\ locks' = {}
    /\ orphaned' = {}
    /\ UNCHANGED <<req, pc, jobs, timerRuns, restarts>>
-----------------------------------------------------------------------------
Serve(w) == WriteLock(w) \/ Spawn(w) \/ SpawnFails(w)

Run(j) ==
    StartCertbot(j) \/ CertbotLocked(j) \/ CertbotDecides(j) \/ Deployed(j) \/ LoopDone(j) \/ Exit(j)

Next ==
    \/ \E w \in Workers : Press(w) \/ Serve(w) \/ WorkerDies(w)
    \/ \E j \in Slots \cup {Timer} : Run(j)
    \/ TimerFires \/ Restart \/ Reboot \/ OperatorClearsLocks

Spec == Init /\ [][Next]_vars

(* A worker finishes its request and a job goes on: certbot and the hooks  *)
(* give up after time-outs of their own.                                   *)
FairSpec ==
    /\ Spec
    /\ \A w \in Workers : WF_vars(Serve(w))
    /\ \A j \in Slots \cup {Timer} : WF_vars(Run(j))
-----------------------------------------------------------------------------
Deploys(j, d) == jobs[j].stage = "deploy" /\ jobs[j].at = d

(* "already in progress" (app.py:368-369, 398-399): two jobs started from  *)
(* buttons never deploy one domain at the same time.                       *)
ButtonsExclusive == \A j, k \in Slots : \A d \in Domains : Deploys(j, d) /\ Deploys(k, d) => j = k

(* A job a button started keeps the button busy until it ends (app.py:173- *)
(* 186, fleet.py:67-84: "True if ... that specific domain's own renewal is *)
(* running").                                                              *)
RunningIsLocked == \A j \in Slots : jobs[j].stage # "free" => jobs[j].lock \in locks

(* A lock file goes away, whatever the exit code of the script, unless the *)
(* process that would remove it was killed or never started                *)
(* (app.py:189-198, actions.py:108-148).                                   *)
LocksClear == \A b \in Buttons : b \in locks ~> (b \notin locks \/ b \in orphaned)
=============================================================================
