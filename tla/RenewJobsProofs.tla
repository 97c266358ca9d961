--------------------------- MODULE RenewJobsProofs ---------------------------
(***************************************************************************)
(* Type correctness of RenewJobs in both profiles, and, in the single-     *)
(* instance profile, that the lock files do what they are for.  The        *)
(* inductive invariant says what a lock file stands for: two running jobs, *)
(* or a running job and the request being served, never have buttons whose *)
(* domains meet.                                                           *)
(***************************************************************************)
EXTENDS RenewJobs, TLAPS

(* Buttons that must not be served at the same time.                       *)
Conflict(b, c) == b.dom = All \/ c.dom = All \/ b.dom = c.dom

Running(j) == jobs[j].stage # "free"

(* A job touches only the domains of its button.                           *)
InScope(job) ==
    /\ job.at # None => job.lock.dom \in {All, job.at}
    /\ \A d \in job.todo : job.lock.dom \in {All, d}

Served     == \A w \in Workers : pc[w] # "idle" => req[w] \in Buttons
Written    == \A w \in Workers : pc[w] = "locked" => req[w] \in locks
TimerFree  == jobs[Timer].lock = NoButton
JobsScoped == \A j \in Slots : Running(j) => jobs[j].lock \in Buttons /\ InScope(jobs[j])
JobsApart  == \A j, k \in Slots :
                Running(j) /\ Running(k) /\ j # k => ~Conflict(jobs[j].lock, jobs[k].lock)
RequestApart == \A w \in Workers, j \in Slots :
                pc[w] # "idle" /\ Running(j) => ~Conflict(req[w], jobs[j].lock)

IInv ==
    /\ TypeOK /\ Served
    /\ RunningIsLocked /\ Written /\ TimerFree /\ JobsScoped /\ JobsApart /\ RequestApart
-----------------------------------------------------------------------------
(* What the record constructors of the module look like to the provers.    *)
LEMMA ButtonFacts ==
    /\ RenewAll \in Buttons /\ RenewAll.dom = All
    /\ \A d \in Domains : Renew(d) \in Buttons /\ Redeploy(d) \in Buttons
    /\ NoButton \notin Buttons
    /\ \A b \in Buttons : b.dom \in Domains \cup {All} /\ b.kind \in {"renew", "redeploy"}
    /\ \A b \in Buttons : b.dom = All => b = RenewAll
    /\ \A b \in Buttons, d \in Domains : b.dom = d => b \in {Renew(d), Redeploy(d)}
<1>1. RenewAll \in Buttons /\ RenewAll.dom = All
  BY DEF Buttons, RenewAll
<1>2. \A d \in Domains : Renew(d) \in Buttons /\ Redeploy(d) \in Buttons
  BY DEF Buttons
<1>3. \A b \in Buttons : b = RenewAll \/ \E d \in Domains : b = Renew(d) \/ b = Redeploy(d)
  BY DEF Buttons
<1>4. RenewAll.kind = "renew" /\ \A d : /\ Renew(d).dom = d /\ Renew(d).kind = "renew"
                                        /\ Redeploy(d).dom = d /\ Redeploy(d).kind = "redeploy"
  BY DEF RenewAll, Renew, Redeploy
<1>5. NoButton.dom = None
  BY DEF NoButton
<1>6. \A b \in Buttons : b.dom \in Domains \cup {All} /\ b.kind \in {"renew", "redeploy"}
  BY <1>1, <1>3, <1>4
<1>7. NoButton \notin Buttons
  BY <1>5, <1>6, DomainsAssumption
<1>8. \A b \in Buttons : b.dom = All => b = RenewAll
  BY <1>3, <1>4, DomainsAssumption
<1>9. \A b \in Buttons, d \in Domains : b.dom = d => b \in {Renew(d), Redeploy(d)}
  BY <1>1, <1>3, <1>4, DomainsAssumption
<1> QED
  BY <1>1, <1>2, <1>6, <1>7, <1>8, <1>9

LEMMA NoJobFacts ==
    /\ NoJob \in Job /\ WellShaped(NoJob)
    /\ NoJob.stage = "free" /\ NoJob.lock = NoButton /\ NoJob.at = None /\ NoJob.todo = {}
BY DEF NoJob, Job, WellShaped

LEMMA JobForFacts ==
    ASSUME NEW b \in Buttons
    PROVE  /\ JobFor(b) \in Job /\ WellShaped(JobFor(b))
           /\ JobFor(b).stage # "free" /\ JobFor(b).lock = b /\ InScope(JobFor(b))
<1>1. b.kind = "redeploy" => b.dom \in Domains
  <2>1. RenewAll.kind = "renew"
    BY DEF RenewAll
  <2> QED
    BY <2>1, ButtonFacts
<1>2. b.dom \in Domains \cup {All} /\ b.dom # None
  BY ButtonFacts, DomainsAssumption
<1>3. CASE b.kind = "redeploy"
  BY <1>1, <1>2, <1>3, DomainsAssumption DEF JobFor, Job, WellShaped, InScope
<1>4. CASE b.kind # "redeploy"
  BY <1>2, <1>4, DomainsAssumption DEF JobFor, Job, WellShaped, InScope
<1> QED
  BY <1>3, <1>4
-----------------------------------------------------------------------------
LEMMA TypeInit == Init => TypeOK
<1> SUFFICES ASSUME Init PROVE TypeOK
  OBVIOUS
<1> USE DEF Init
<1>1. locks \subseteq Buttons /\ orphaned \subseteq locks
  OBVIOUS
<1>2. req \in [Workers -> Buttons \cup {NoButton}] /\ pc \in [Workers -> {"idle", "checked", "locked"}]
  OBVIOUS
<1>3. jobs \in [Slots \cup {Timer} -> Job] /\ \A j \in Slots \cup {Timer} : WellShaped(jobs[j])
  BY NoJobFacts
<1>4. timerRuns \in 0 .. MaxTimerRuns /\ restarts \in 0 .. MaxRestarts /\ clears \in 0 .. MaxClears
  BY LimitsAssumption
<1> QED
  BY <1>1, <1>2, <1>3, <1>4 DEF TypeOK

(* The part of type correctness that a step of a job can disturb.          *)
LEMMA RunTyped ==
    ASSUME TypeOK, NEW j \in Slots \cup {Timer}, Run(j)
    PROVE  jobs' \in [Slots \cup {Timer} -> Job] /\ \A k \in Slots \cup {Timer} : WellShaped(jobs'[k])
<1> DEFINE J == Slots \cup {Timer}
<1>0. jobs \in [J -> Job] /\ \A k \in J : WellShaped(jobs[k])
  BY DEF TypeOK
<1>a. jobs[j] \in Job
  BY <1>0
<1> SUFFICES /\ jobs' \in [J -> Job] /\ WellShaped(jobs'[j])
             /\ \A k \in J : k # j => jobs'[k] = jobs[k]
  BY <1>0
<1>1. CASE StartCertbot(j)
  BY <1>0, <1>a, <1>1, DomainsAssumption DEF StartCertbot, Job, WellShaped
<1>2. CASE CertbotLocked(j)
  <2>1. PICK d \in jobs[j].todo :
          jobs' = [jobs EXCEPT ![j].todo = @ \ {d}, ![j].failed = TRUE]
    BY <1>2 DEF CertbotLocked
  <2>2. jobs[j].stage = "next" /\ jobs[j].at = None
    BY <1>0, <1>2 DEF CertbotLocked, WellShaped
  <2>3. jobs'[j] = [jobs[j] EXCEPT !.todo = @ \ {d}, !.failed = TRUE]
    BY <1>0, <2>1
  <2>4. jobs'[j] \in Job /\ jobs'[j].stage = "next" /\ jobs'[j].at = None
    BY <1>a, <2>2, <2>3 DEF Job
  <2> QED
    BY <1>0, <2>1, <2>4 DEF WellShaped
<1>3. CASE CertbotDecides(j)
  BY <1>0, <1>a, <1>3, DomainsAssumption DEF CertbotDecides, Job, WellShaped
<1>4. CASE Deployed(j)
  BY <1>0, <1>a, <1>4, DomainsAssumption DEF Deployed, Job, WellShaped
<1>5. CASE LoopDone(j)
  BY <1>0, <1>a, <1>5, DomainsAssumption DEF LoopDone, Job, WellShaped
<1>6. CASE Exit(j)
  BY <1>0, <1>6, NoJobFacts DEF Exit
<1> QED
  BY <1>1, <1>2, <1>3, <1>4, <1>5, <1>6 DEF Run

(* The types are inductive together with Served: a worker past its check   *)
(* has a button to write a lock file for.                                  *)
LEMMA TypeStep == TypeOK /\ Served /\ [Next]_vars => (TypeOK /\ Served)'
<1> SUFFICES ASSUME TypeOK, Served, [Next]_vars PROVE TypeOK' /\ Served'
  OBVIOUS
<1> DEFINE J == Slots \cup {Timer}
<1>0. /\ locks \subseteq Buttons /\ orphaned \subseteq locks
      /\ req \in [Workers -> Buttons \cup {NoButton}] /\ pc \in [Workers -> {"idle", "checked", "locked"}]
      /\ jobs \in [J -> Job] /\ \A k \in J : WellShaped(jobs[k])
      /\ timerRuns \in 0 .. MaxTimerRuns /\ restarts \in 0 .. MaxRestarts /\ clears \in 0 .. MaxClears
      /\ \A w \in Workers : pc[w] # "idle" => req[w] \in Buttons
  BY DEF TypeOK, Served
<1>1. ASSUME NEW w \in Workers, Press(w) PROVE TypeOK' /\ Served'
  BY <1>0, <1>1 DEF Press, TypeOK, Served, counters
<1>2. ASSUME NEW w \in Workers, WriteLock(w) PROVE TypeOK' /\ Served'
  BY <1>0, <1>2 DEF WriteLock, TypeOK, Served, counters
<1>3. ASSUME NEW w \in Workers, Spawn(w) PROVE TypeOK' /\ Served'
  <2>1. req[w] \in Buttons
    BY <1>0, <1>3 DEF Spawn
  <2>2. JobFor(req[w]) \in Job /\ WellShaped(JobFor(req[w]))
    BY <2>1, JobForFacts
  <2>3. jobs' \in [J -> Job] /\ \A k \in J : WellShaped(jobs'[k])
    BY <1>0, <1>3, <2>2 DEF Spawn
  <2> QED
    BY <1>0, <1>3, <2>3 DEF Spawn, Answered, TypeOK, Served, counters
<1>4. ASSUME NEW w \in Workers, SpawnFails(w) PROVE TypeOK' /\ Served'
  BY <1>0, <1>4 DEF SpawnFails, Answered, TypeOK, Served, counters
<1>5. ASSUME NEW w \in Workers, WorkerDies(w) PROVE TypeOK' /\ Served'
  BY <1>0, <1>5 DEF WorkerDies, Answered, TypeOK, Served, counters
<1>6. ASSUME NEW j \in J, Run(j) PROVE TypeOK' /\ Served'
  <2>1. jobs' \in [J -> Job] /\ \A k \in J : WellShaped(jobs'[k])
    BY <1>6, RunTyped
  <2>2. /\ locks' \subseteq locks /\ orphaned' \subseteq locks'
        /\ UNCHANGED <<req, pc, timerRuns, restarts, clears>>
    BY <1>0, <1>6 DEF Run, StartCertbot, CertbotLocked, CertbotDecides, Deployed, LoopDone, Exit, counters
  <2> QED
    BY <1>0, <2>1, <2>2 DEF TypeOK, Served
<1>7. CASE TimerFires
  <2> DEFINE T == [NoJob EXCEPT !.stage = "next", !.todo = Domains]
  <2>1. T \in Job /\ WellShaped(T)
    BY NoJobFacts DEF Job, WellShaped
  <2>2. jobs' \in [J -> Job] /\ \A k \in J : WellShaped(jobs'[k])
    BY <1>0, <1>7, <2>1 DEF TimerFires
  <2>3. timerRuns' \in 0 .. MaxTimerRuns
    BY <1>0, <1>7, LimitsAssumption DEF TimerFires
  <2> QED
    BY <1>0, <1>7, <2>2, <2>3 DEF TimerFires, TypeOK, Served
<1>8. CASE Restart
  <2>1. jobs' \in [J -> Job] /\ \A k \in J : WellShaped(jobs'[k])
    BY <1>0, <1>8, NoJobFacts DEF Restart
  <2>2. restarts' \in 0 .. MaxRestarts
    BY <1>0, <1>8, LimitsAssumption DEF Restart
  <2> QED
    BY <1>0, <1>8, <2>1, <2>2 DEF Restart, TypeOK, Served
<1>9. CASE OperatorClearsLocks
  <2>1. clears' \in 0 .. MaxClears
    BY <1>0, <1>9, LimitsAssumption DEF OperatorClearsLocks
  <2> QED
    BY <1>0, <1>9, <2>1 DEF OperatorClearsLocks, TypeOK, Served
<1>10. CASE Reboot
  <2>1. jobs' \in [J -> Job] /\ \A k \in J : WellShaped(jobs'[k])
    BY <1>10, NoJobFacts DEF Reboot
  <2>2. restarts' \in 0 .. MaxRestarts
    BY <1>0, <1>10, LimitsAssumption DEF Reboot
  <2> QED
    BY <1>0, <1>10, <2>1, <2>2 DEF Reboot, TypeOK, Served
<1>11. CASE UNCHANGED vars
  BY <1>0, <1>11 DEF vars, TypeOK, Served
<1> QED
  BY <1>1, <1>2, <1>3, <1>4, <1>5, <1>6, <1>7, <1>8, <1>9, <1>10, <1>11 DEF Next, Serve

(* Requests, lock files and jobs keep their types in both profiles, for    *)
(* any number of workers, domains and jobs.                                *)
THEOREM TypeCorrect == Spec => []TypeOK
<1>1. Init => TypeOK /\ Served
  BY TypeInit DEF Init, Served
<1>2. TypeOK /\ Served /\ [Next]_vars => (TypeOK /\ Served)'
  BY TypeStep
<1> QED
  BY <1>1, <1>2, PTL DEF Spec
-----------------------------------------------------------------------------
(* From here on: the single-instance profile, whose web UI has one worker  *)
(* (systemd/acme-webui.service), and no operator removing lock files.      *)
SingleInstance == Console = FALSE /\ MaxClears = 0 /\ \A v, w \in Workers : v = w

LEMMA ConflictFacts ==
    ASSUME NEW b \in Buttons
    PROVE  /\ Conflict(b, b)
           /\ ~Busy(b) /\ Console = FALSE => \A c \in locks : c \in Buttons => ~Conflict(b, c)
<1>1. Conflict(b, b)
  BY DEF Conflict
<1>2. ASSUME ~Busy(b), Console = FALSE, NEW c \in locks, c \in Buttons PROVE ~Conflict(b, c)
  <2>1. CASE b = RenewAll
    BY <1>2, <2>1 DEF Busy, AllBusy
  <2>2. CASE b # RenewAll
    <3>1. b.dom \in Domains /\ b.dom # All
      BY <2>2, ButtonFacts
    <3>2. RenewAll \notin locks /\ Renew(b.dom) \notin locks /\ Redeploy(b.dom) \notin locks
      BY <1>2, <2>2 DEF Busy, DomainBusy
    <3>3. c.dom # All /\ c.dom # b.dom
      BY <1>2, <3>1, <3>2, ButtonFacts
    <3> QED
      BY <3>1, <3>3 DEF Conflict
  <2> QED
    BY <2>1, <2>2
<1> QED
  BY <1>1, <1>2

(* A step of a job keeps its lock file and its scope, or removes the lock  *)
(* file and frees the job.                                                 *)
LEMMA RunKeeps ==
    ASSUME TypeOK, NEW j \in Slots \cup {Timer}, Run(j)
    PROVE  /\ \A k \in (Slots \cup {Timer}) \ {j} : jobs'[k] = jobs[k]
           /\ UNCHANGED <<req, pc>>
           /\ \/ /\ jobs[j].stage # "free" /\ jobs'[j].lock = jobs[j].lock /\ UNCHANGED locks
                 /\ InScope(jobs[j]) => InScope(jobs'[j])
              \/ jobs'[j] = NoJob /\ locks' = locks \ {jobs[j].lock} /\ jobs[j].stage # "free"
<1>0. jobs \in [Slots \cup {Timer} -> Job] /\ jobs[j] \in Job
  BY DEF TypeOK
<1>1. CASE StartCertbot(j)
  BY <1>0, <1>1 DEF StartCertbot, Job, InScope
<1>2. CASE CertbotLocked(j)
  <2>1. PICK d \in jobs[j].todo :
          jobs' = [jobs EXCEPT ![j].todo = @ \ {d}, ![j].failed = TRUE]
    BY <1>2 DEF CertbotLocked
  <2>2. jobs'[j] = [jobs[j] EXCEPT !.todo = @ \ {d}, !.failed = TRUE]
    BY <1>0, <2>1
  <2>3. /\ jobs'[j].lock = jobs[j].lock /\ jobs'[j].at = jobs[j].at
        /\ jobs'[j].todo \subseteq jobs[j].todo
    BY <1>0, <2>2 DEF Job
  <2>4. \A k \in (Slots \cup {Timer}) \ {j} : jobs'[k] = jobs[k]
    BY <1>0, <2>1
  <2> QED
    BY <1>2, <2>3, <2>4 DEF CertbotLocked, InScope
<1>3. CASE CertbotDecides(j)
  BY <1>0, <1>3 DEF CertbotDecides, Job, InScope
<1>4. CASE Deployed(j)
  BY <1>0, <1>4 DEF Deployed, Job, InScope
<1>5. CASE LoopDone(j)
  BY <1>0, <1>5 DEF LoopDone, Job, InScope
<1>6. CASE Exit(j)
  BY <1>0, <1>6 DEF Exit
<1> QED
  BY <1>1, <1>2, <1>3, <1>4, <1>5, <1>6 DEF Run

LEMMA IInvInit == Init => IInv
<1> SUFFICES ASSUME Init PROVE IInv
  OBVIOUS
<1>1. TypeOK
  BY TypeInit
<1>2. \A j \in Slots \cup {Timer} : ~Running(j) /\ jobs[j].lock = NoButton
  BY NoJobFacts DEF Init, Running
<1>3. \A w \in Workers : pc[w] = "idle"
  BY DEF Init
<1>4. Served /\ Written /\ RequestApart
  BY <1>3 DEF Served, Written, RequestApart
<1>5. RunningIsLocked /\ TimerFree /\ JobsScoped /\ JobsApart
  BY <1>2 DEF RunningIsLocked, TimerFree, JobsScoped, JobsApart, Running
<1> QED
  BY <1>1, <1>4, <1>5 DEF IInv

(* One worker at a time, so that no other request can have found the same  *)
(* button free; no lock file goes away under a running job.                *)
LEMMA IInvStep == SingleInstance /\ IInv /\ [Next]_vars => IInv'
<1> SUFFICES ASSUME SingleInstance, IInv, [Next]_vars PROVE IInv'
  OBVIOUS
<1> DEFINE J == Slots \cup {Timer}
           Apart == /\ RunningIsLocked /\ Written /\ TimerFree
                    /\ JobsScoped /\ JobsApart /\ RequestApart
<1>a. /\ jobs \in [J -> Job] /\ \A k \in J : WellShaped(jobs[k])
      /\ locks \subseteq Buttons /\ pc \in [Workers -> {"idle", "checked", "locked"}]
      /\ req \in [Workers -> Buttons \cup {NoButton}]
      /\ \A w \in Workers : pc[w] # "idle" => req[w] \in Buttons
  BY DEF IInv, TypeOK, Served
<1>b. TypeOK' /\ Served'
  BY TypeStep DEF IInv
<1>c. Apart
  BY DEF IInv
<1>d. \A w, v \in Workers : v = w
  BY DEF SingleInstance
<1> SUFFICES Apart'
  BY <1>b DEF IInv
<1> USE DEF RunningIsLocked, Written, TimerFree, JobsScoped, JobsApart, RequestApart, Running
<1>1. ASSUME NEW w \in Workers, Press(w) PROVE Apart'
  <2>1. PICK b \in Buttons : ~Busy(b) /\ req' = [req EXCEPT ![w] = b]
    BY <1>1 DEF Press
  <2>2. \A j \in Slots : Running(j) => ~Conflict(b, jobs[j].lock)
    BY <1>c, <2>1, ConflictFacts DEF SingleInstance
  <2> QED
    BY <1>a, <1>c, <1>d, <1>1, <2>1, <2>2 DEF Press
<1>2. ASSUME NEW w \in Workers, WriteLock(w) PROVE Apart'
  BY <1>a, <1>c, <1>d, <1>2 DEF WriteLock
<1>3. ASSUME NEW w \in Workers, Spawn(w) PROVE Apart'
  <2>1. PICK i \in Slots : jobs[i].stage = "free" /\ jobs' = [jobs EXCEPT ![i] = JobFor(req[w])]
    BY <1>3 DEF Spawn
  <2>2. req[w] \in Buttons /\ req[w] \in locks /\ UNCHANGED locks
    BY <1>a, <1>c, <1>3 DEF Spawn
  <2>3. jobs'[i].lock = req[w] /\ InScope(jobs'[i])
    BY <1>a, <2>1, <2>2, JobForFacts
  <2>4. \A k \in J \ {i} : jobs'[k] = jobs[k]
    BY <1>a, <2>1
  <2>5. \A v \in Workers : pc'[v] = "idle"
    BY <1>a, <1>d, <1>3 DEF Spawn, Answered
  <2>6. \A k \in Slots : Running(k) => ~Conflict(req[w], jobs[k].lock) /\ ~Conflict(jobs[k].lock, req[w])
    BY <1>c, <1>3 DEF Spawn, Conflict
  <2>7. TimerFree'
    BY <1>c, <2>4, JobsAssumption
  <2>8. JobsApart'
    BY <1>c, <2>3, <2>4, <2>6
  <2> QED
    BY <1>c, <2>2, <2>3, <2>4, <2>5, <2>7, <2>8
<1>4. ASSUME NEW w \in Workers, SpawnFails(w) PROVE Apart'
  BY <1>a, <1>c, <1>d, <1>4 DEF SpawnFails, Answered, SingleInstance
<1>5. ASSUME NEW w \in Workers, WorkerDies(w) PROVE Apart'
  BY <1>a, <1>c, <1>d, <1>5 DEF WorkerDies, Answered
<1>6. ASSUME NEW j \in J, Run(j) PROVE Apart'
  <2>1. /\ \A k \in J \ {j} : jobs'[k] = jobs[k]
        /\ UNCHANGED <<req, pc>>
    BY <1>6, RunKeeps DEF IInv
  <2>2. CASE /\ jobs[j].stage # "free" /\ jobs'[j].lock = jobs[j].lock /\ UNCHANGED locks
             /\ InScope(jobs[j]) => InScope(jobs'[j])
    BY <1>c, <2>1, <2>2
  <2>3. CASE jobs'[j] = NoJob /\ locks' = locks \ {jobs[j].lock} /\ jobs[j].stage # "free"
    <3>1. \A k \in Slots : k # j /\ Running(k) => jobs[k].lock # jobs[j].lock
      <4>1. CASE j = Timer
        BY <1>c, <4>1, ButtonFacts
      <4>2. CASE j \in Slots
        BY <1>c, <2>3, <4>2, ConflictFacts
      <4> QED
        BY <4>1, <4>2
    <3>2. \A w \in Workers : pc[w] = "locked" => req[w] # jobs[j].lock
      <4>1. CASE j = Timer
        BY <1>a, <1>c, <4>1, ButtonFacts
      <4>2. CASE j \in Slots
        BY <1>a, <1>c, <2>3, <4>2, ConflictFacts
      <4> QED
        BY <4>1, <4>2
    <3> QED
      BY <1>c, <2>1, <2>3, <3>1, <3>2, NoJobFacts
  <2> QED
    BY <1>6, <2>2, <2>3, RunKeeps DEF IInv
<1>7. CASE TimerFires
  <2>1. jobs'[Timer].lock = NoButton
    BY <1>a, <1>7, NoJobFacts DEF TimerFires, Job
  <2>2. \A k \in Slots : jobs'[k] = jobs[k]
    BY <1>a, <1>7, JobsAssumption DEF TimerFires
  <2>3. UNCHANGED <<locks, req, pc>>
    BY <1>7 DEF TimerFires
  <2> QED
    BY <1>c, <2>1, <2>2, <2>3
<1>8. CASE Restart
  BY <1>a, <1>c, <1>8, NoJobFacts, JobsAssumption DEF Restart
<1>9. CASE OperatorClearsLocks
  BY <1>9 DEF OperatorClearsLocks, SingleInstance, IInv, TypeOK
<1>10. CASE Reboot
  BY <1>10, NoJobFacts DEF Reboot
<1>11. CASE UNCHANGED vars
  BY <1>c, <1>11 DEF vars
<1> QED
  BY <1>1, <1>2, <1>3, <1>4, <1>5, <1>6, <1>7, <1>8, <1>9, <1>10, <1>11 DEF Next, Serve

(* "already in progress" (app.py:173-186, 368-369, 398-399): with one      *)
(* worker, two jobs started from buttons never deploy one domain at the    *)
(* same time, for any number of domains and jobs.                          *)
THEOREM OneWorkerButtonsExclusive ==
    ASSUME SingleInstance
    PROVE  Spec => []ButtonsExclusive
<1>1. IInv => ButtonsExclusive
  BY DEF IInv, JobsScoped, JobsApart, InScope, Conflict, ButtonsExclusive, Deploys, Running,
         TypeOK, WellShaped
<1>2. IInv /\ [Next]_vars => IInv'
  BY IInvStep
<1> QED
  BY <1>1, <1>2, IInvInit, PTL DEF Spec

(* A running job keeps its lock file (app.py:189-198), although another    *)
(* job may be removing one of its own at that moment.                      *)
THEOREM OneWorkerRunningIsLocked ==
    ASSUME SingleInstance
    PROVE  Spec => []RunningIsLocked
<1>1. IInv => RunningIsLocked
  BY DEF IInv
<1>2. IInv /\ [Next]_vars => IInv'
  BY IInvStep
<1> QED
  BY <1>1, <1>2, IInvInit, PTL DEF Spec
=============================================================================
