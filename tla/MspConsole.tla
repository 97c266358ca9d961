----------------------------- MODULE MspConsole ------------------------------
(***************************************************************************)
(* The MSP Console's requests about administrators and customers, served   *)
(* by its workers side by side, each worker one request at a time.         *)
(***************************************************************************)
EXTENDS MspAdmins, CustomerLifecycle

CONSTANT MaxRequests   \* bound: requests that may change something

VARIABLE requests      \* how many there were

vars == <<admins, adm, tree, conf, archived, opsLock, script, edits, gone, requests>>

ASSUME RequestsAssumption == MaxRequests \in Nat

TypeOK == AdminsTypeOK /\ LifecycleTypeOK /\ requests \in 0 .. MaxRequests

Init == AdminsInit /\ LifecycleInit /\ requests = 0

Free(w) == adm[w].step = "idle" /\ script[w].step = "idle"

(* The routes of administrators; a form offers the customers there are.    *)
AdminRequest(w) ==
    /\ \E u \in Admins :
        \/ Setup(w, u)
        \/ \E by \in Admins, owner \in BOOLEAN, grants \in SUBSET tree : New(w, by, u, owner, grants) \/ Edit(w, by, u, owner, grants)
        \/ \E by \in Admins : Delete(w, by, u)
        \/ Known(u) /\ (NewPassword(w, u) \/ SetTotp(w, u))
    /\ UNCHANGED lifeVars

(* The routes of customers: owner_required, require_customer_write.        *)
CustomerRequest(w) ==
    /\ \E by \in Admins, s \in Slugs :
        \/ IsOwner(by) /\ Provision(w, s)
        \/ CanWrite(by, s) /\ (Deprovision(w, s) \/ View(w, s) \/ LoadConfig(w, s))
    /\ UNCHANGED <<admins, adm>>

Request(w) ==
    /\ Free(w)
    /\ requests < MaxRequests /\ requests' = requests + 1
    /\ AdminRequest(w) \/ CustomerRequest(w)

Serve(w) ==
    /\ \/ Administer(w) /\ UNCHANGED lifeVars
       \/ Script(w) /\ UNCHANGED <<admins, adm>>
    /\ UNCHANGED requests

Dies(w) ==
    /\ \/ AdmDies(w) /\ UNCHANGED lifeVars
       \/ (Killed(w) \/ TimesOut(w)) /\ UNCHANGED <<admins, adm>>
    /\ UNCHANGED requests

(* The command that a time-out left behind.                                *)
LeftBehind == Command(Stray) /\ UNCHANGED <<admins, adm, requests>>
StrayDies  == Killed(Stray) /\ UNCHANGED <<admins, adm, requests>>

Next ==
    \/ \E w \in Workers : Request(w) \/ Serve(w) \/ Dies(w)
    \/ LeftBehind \/ StrayDies

Spec == Init /\ [][Next]_vars

(* A worker goes on with its request: a script is bounded by its time-out, *)
(* and who waits for the lock gives up after 30 seconds.  The command left *)
(* behind by a time-out copies, packs or removes files and comes to an end.*)
FairSpec == Spec /\ (\A w \in Workers : WF_vars(Serve(w))) /\ WF_vars(LeftBehind)
-----------------------------------------------------------------------------
(* Every request ends, and the lock of provisioning is not held for ever:  *)
(* not by a script that was killed (msp-provision-customer.sh:77-81), nor  *)
(* by the command that a time-out of actions.py:47 leaves behind with it.  *)
RequestsEnd == (\A w \in Workers : []<>Free(w)) /\ []<>(opsLock = Nobody)
=============================================================================
