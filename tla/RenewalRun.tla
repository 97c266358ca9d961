----------------------------- MODULE RenewalRun ------------------------------
(***************************************************************************)
(* The renewal scripts and the alerts they raise: the timer's loop over    *)
(* the customers (bin/msp-renew-all-customers.sh), the renewal of one      *)
(* configuration or of one entry (bin/acme-renew.sh), and what certbot's   *)
(* hooks report (dns_dispatcher.py, deploy_certificate.py).  Runs and the  *)
(* daily scan of Notifications share the state file of each customer.      *)
(*                                                                         *)
(* Abstracted: the order of the entries; what certbot and the deployment   *)
(* targets do (DnsChallenges, Deploy); checks of the installation (certbot *)
(* missing, directories that cannot be created).                           *)
(***************************************************************************)
EXTENDS Notifications, FiniteSets

CONSTANTS
    Timer,         \* the script of the renewal timer; the others are started by buttons
    RenewBefore,   \* how long before its expiry certbot renews a certificate
    MaxRuns        \* bound: runs

(* A new certificate is not at once due again.                             *)
ASSUME RunsAssumption ==
    /\ {RenewBefore, MaxRuns} \subseteq Nat /\ RenewBefore < Life
    /\ {"renewal_failed", "renewal_success", "dns_failure", "deploy_failed", "deploy_success"} \subseteq Events

VARIABLES
    run,       \* per script: how far it is
    runs       \* how many there were

vars == <<now, settings, entries, certs, disk, lock, call, scan, day, faults, mails, run, runs>>

(* cust is the customer whose acme-renew.sh runs, only the entry a button  *)
(* asked for, names the entries it has not come to, at the one certbot is  *)
(* at, say the alerts certbot's hooks are still to raise, result what      *)
(* certbot will end with, entryFailed and failed its and the loop's        *)
(* counters of failures; tried and bad record what it did.                 *)
Script == [
    pc : {"customers", "entries", "certbot", "hook"},
    todo : Seq(Customers), cust : Customers \cup {Nobody}, only : Names \cup {Nobody},
    names : SUBSET Names, at : Names \cup {Nobody}, say : Seq(Events), result : {0, 1},
    entryFailed : BOOLEAN, failed : BOOLEAN, started : Times,
    snapshot : SUBSET [cust : Customers, name : Names],
    bad : SUBSET [cust : Customers, name : Names \cup {Nobody}]]
NoRun == [pc |-> "customers", todo |-> <<>>, cust |-> Nobody, only |-> Nobody, names |-> {}, at |-> Nobody, say |-> <<>>,
          result |-> 0, entryFailed |-> FALSE, failed |-> FALSE, started |-> 0, snapshot |-> {}, bad |-> {}]

(* With the types: a script past its list of entries has a customer, and   *)
(* an entry when certbot runs.                                             *)
TypeOK ==
    /\ NotifyTypeOK
    /\ run \in [Callers -> Script]
    /\ \A p \in Callers : run[p].pc # "customers" => run[p].cust # Nobody
    /\ \A p \in Callers : run[p].pc \in {"certbot", "hook"} => run[p].at # Nobody
    /\ runs \in 0 .. MaxRuns

Init ==
    /\ NotifyInit
    /\ run = [p \in Callers |-> NoRun]
    /\ runs = 0
-----------------------------------------------------------------------------
Quiet(p) == call[p].step = "none"

Ended(p) == run[p].pc = "customers" /\ run[p].todo = <<>>

Starts(p, customers, name) ==
    /\ Ended(p)
    /\ runs < MaxRuns /\ runs' = runs + 1
    /\ run' = [run EXCEPT ![p] = [NoRun EXCEPT !.todo = customers, !.only = name, !.started = now]]
    /\ UNCHANGED <<world, stateVars, scanVars, faults>>

(* The timer's run of every customer, the button of one, of one entry.     *)
StartAll == Timer \in Callers /\ Starts(Timer, Order, Nobody)
StartOne(p) ==
    /\ p # Timer
    /\ \E c \in Customers : \E n \in entries[c] \cup {Nobody} : Starts(p, <<c>>, n)

(* An account with a real e-mail address; alerts may be misconfigured.     *)
Renewable(c) == settings[c] \in {"on", "off", "broken"}

(* The next customer's acme-renew.sh reads its list of entries, once.      *)
NextCustomer(p) ==
    /\ run[p].pc = "customers" /\ run[p].todo # <<>>
    /\ LET c  == Head(run[p].todo)
           ns == IF run[p].only = Nobody THEN entries[c] ELSE entries[c] \cap {run[p].only}
       IN  IF Renewable(c) /\ (run[p].only = Nobody \/ ns # {})
           THEN run' = [run EXCEPT ![p].pc = "entries", ![p].todo = Tail(@), ![p].cust = c, ![p].names = ns,
                                   ![p].entryFailed = FALSE, ![p].snapshot = @ \cup {[cust |-> c, name |-> n] : n \in ns}]
           ELSE run' = [run EXCEPT ![p].todo = Tail(@), ![p].failed = TRUE,
                                   ![p].bad = @ \cup {[cust |-> c, name |-> Nobody]}]
    /\ UNCHANGED <<world, stateVars, scanVars, faults, runs>>

(* A mutant of the next definition: the exit code is of the last customer. *)
CustomerDoneAnew(p) ==
    /\ run[p].pc = "entries" /\ run[p].names = {} /\ run[p].say = <<>> /\ Quiet(p)
    /\ run' = [run EXCEPT ![p].pc = "customers", ![p].cust = Nobody, ![p].at = Nobody, ![p].failed = run[p].entryFailed]
    /\ UNCHANGED <<world, stateVars, scanVars, faults, runs>>

CustomerDone(p) ==
    /\ run[p].pc = "entries" /\ run[p].names = {} /\ run[p].say = <<>> /\ Quiet(p)
    /\ run' = [run EXCEPT ![p].pc = "customers", ![p].cust = Nobody, ![p].at = Nobody, ![p].failed = @ \/ run[p].entryFailed]
    /\ UNCHANGED <<world, stateVars, scanVars, faults, runs>>
-----------------------------------------------------------------------------
(* Certbot holds the lock of its directories until its hooks are done.     *)
InCertbot(p) == run[p].pc \in {"certbot", "hook"}
CertbotLocked(p) == \E q \in Callers \ {p} : InCertbot(q) /\ run[q].cust = run[p].cust

(* An alert, unless it is dropped at once.                                 *)
Said(c, e) == IF Listening(c, e) THEN <<e>> ELSE <<>>

(* certbot certonly for the next entry; when another one holds the lock it *)
(* fails at once, like every failure of certbot with an alert.             *)
StartCertbot(p) ==
    /\ run[p].pc = "entries" /\ run[p].say = <<>> /\ Quiet(p)
    /\ \E n \in run[p].names :
        run' = [run EXCEPT ![p].names = @ \ {n}, ![p].at = n,
                           ![p].pc = IF CertbotLocked(p) THEN @ ELSE "certbot",
                           ![p].entryFailed = @ \/ CertbotLocked(p),
                           ![p].bad = IF CertbotLocked(p) THEN @ \cup {[cust |-> run[p].cust, name |-> n]} ELSE @,
                           ![p].say = IF CertbotLocked(p) THEN Said(run[p].cust, "renewal_failed") ELSE <<>>]
    /\ UNCHANGED <<world, stateVars, scanVars, faults, runs>>

NotDue(c, n) == certs[c][n] - now > RenewBefore
Forced(p)    == run[p].only = run[p].at  \* --force goes with one domain

(* What the hooks of a certificate that was issued have to tell: a record  *)
(* that could not be removed, and, if the entry is still there, the new    *)
(* certificate and how its deployment, if it has any, went.                *)
DeployAlerts(c) == {<<>>, Said(c, "deploy_success"), Said(c, "deploy_failed")}
NewAlerts(c, n) == IF n \in entries[c] THEN {Said(c, "renewal_success") \o end : end \in DeployAlerts(c)} ELSE {<<>>}
IssuedAlerts(c, n) == {dns \o new : dns \in {<<>>, Said(c, "dns_failure")}, new \in NewAlerts(c, n)}

(* Nothing to renew; or no certificate, after a record that could not be   *)
(* added, which the dispatcher reports unless the entry is gone, or after  *)
(* another failure; or a new certificate.                                  *)
CertbotDecides(p) ==
    /\ run[p].pc = "certbot"
    /\ LET c == run[p].cust  n == run[p].at IN
       \/ /\ NotDue(c, n)
          /\ run' = [run EXCEPT ![p].pc = "hook"]
          /\ UNCHANGED certs
       \/ /\ ~NotDue(c, n) \/ Forced(p)
          /\ \E say \in {<<>>, IF n \in entries[c] THEN Said(c, "dns_failure") ELSE <<>>} :
              run' = [run EXCEPT ![p].pc = "hook", ![p].say = say, ![p].result = 1]
          /\ UNCHANGED certs
       \/ /\ ~NotDue(c, n) \/ Forced(p)
          /\ certs' = [certs EXCEPT ![c][n] = now + Life]
          /\ \E say \in IssuedAlerts(c, n) : run' = [run EXCEPT ![p].pc = "hook", ![p].say = say]
    /\ UNCHANGED <<now, settings, entries, stateVars, scanVars, faults, runs>>

(* Certbot ends, after its hooks; the result of a deploy hook is not in    *)
(* its exit code.                                                          *)
CertbotEnds(p) ==
    /\ run[p].pc = "hook" /\ run[p].say = <<>> /\ Quiet(p)
    /\ run' = [run EXCEPT ![p].pc = "entries", ![p].result = 0, ![p].at = IF run[p].result = 1 THEN @ ELSE Nobody,
                          ![p].say = IF run[p].result = 1 THEN Said(run[p].cust, "renewal_failed") ELSE <<>>,
                          ![p].entryFailed = @ \/ run[p].result = 1,
                          ![p].bad = IF run[p].result = 1 THEN @ \cup {[cust |-> run[p].cust, name |-> run[p].at]} ELSE @]
    /\ UNCHANGED <<world, stateVars, scanVars, faults, runs>>

(* The next alert of a hook or of the script itself.                       *)
Alert(p) ==
    /\ run[p].say # <<>> /\ Quiet(p)
    /\ Notify(p, run[p].cust, Head(run[p].say), run[p].at)
    /\ run' = [run EXCEPT ![p].say = Tail(@)]
    /\ UNCHANGED <<world, disk, lock, mails, scanVars, faults, runs>>
-----------------------------------------------------------------------------
RemoveEntry ==
    /\ Fault
    /\ \E c \in Customers : \E n \in entries[c] : entries' = [entries EXCEPT ![c] = @ \ {n}]
    /\ UNCHANGED <<now, settings, certs, stateVars, scanVars, run, runs>>

(* A script or the scan is killed, with the child it waits for.            *)
Dies(p) ==
    /\ \/ p \in Callers /\ ~Ended(p) /\ run' = [run EXCEPT ![p] = NoRun] /\ UNCHANGED scan
       \/ p \in Scans /\ ~ScanEnded(p) /\ scan' = [scan EXCEPT ![p] = [NoScan EXCEPT !.rc = 1]] /\ UNCHANGED run
    /\ Dropped(p)
    /\ UNCHANGED <<world, day, runs>>

UsesState(p) ==
    /\ UseState(p)
    /\ UNCHANGED <<world, scanVars, run, runs>>

Go(p) ==
    NextCustomer(p) \/ CustomerDone(p) \/ StartCertbot(p) \/ CertbotDecides(p) \/ CertbotEnds(p) \/ Alert(p)

Scanning(s) == Scan(s) /\ UNCHANGED <<run, runs>>

Next ==
    \/ \E p \in Callers : StartOne(p) \/ Go(p)
    \/ StartAll
    \/ \E p \in Procs : UsesState(p) \/ Dies(p)
    \/ \E s \in Scans : (TimerFires(s) /\ UNCHANGED <<run, runs>>) \/ Scanning(s)
    \/ Tick /\ UNCHANGED <<run, runs>>
    \/ RemoveEntry

Spec == Init /\ [][Next]_vars
-----------------------------------------------------------------------------
(* bin/msp-renew-all-customers.sh:20-24: "every customer gets a renewal    *)
(* attempt regardless of whether an earlier one failed, and this script's  *)
(* own exit code reflects whether ANY customer failed".  When a run ends,  *)
(* each entry it had listed failed or has a certificate that was not due   *)
(* when the run started, and the exit code is 1 exactly if anything failed.*)
Renewed(c, n, at) == certs[c][n] > at + RenewBefore
ExitCodeTells ==
    \A p \in Callers : Ended(p) =>
        /\ run[p].failed <=> run[p].bad # {}
        /\ \A e \in run[p].snapshot : e \in run[p].bad \/ Renewed(e.cust, e.name, run[p].started)
=============================================================================
