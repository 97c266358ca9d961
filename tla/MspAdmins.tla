------------------------------ MODULE MspAdmins ------------------------------
(***************************************************************************)
(* The administrators of the MSP Console (msp_console/auth.py and the      *)
(* routes of app.py that change them).  admins.yaml is read whole by each  *)
(* check of a request and written whole at its end, from a copy read after *)
(* the checks; the flock of save_admins orders the replacements only.      *)
(*                                                                         *)
(* Abstracted: a password and a one-time secret are one credential that a  *)
(* request changes; sessions outlive the account; sign-in, forms refused   *)
(* for their content, the lock-out counters of each worker and grants that *)
(* allow reading only.                                                     *)
(***************************************************************************)
EXTENDS Naturals, FiniteSets, ConsoleWorkers

CONSTANTS
    Admins,        \* names of accounts
    InitialAdmins  \* what admins.yaml may hold at first

Account == [owner : BOOLEAN, grants : SUBSET Slugs, cred : {0, 1}]
AdminFiles == UNION {[A -> Account] : A \in SUBSET Admins}

ASSUME AdminsAssumption ==
    /\ InitialAdmins \subseteq AdminFiles /\ Nobody \notin Admins
    /\ \A f \in InitialAdmins : \A u \in DOMAIN f : f[u].owner => f[u].grants = {}

VARIABLES
    admins,    \* admins.yaml, the accounts by name
    adm        \* per worker: its request about an account

(* user is the account the request is about, copy what it read of the file *)
(* to change; raced records that another worker saved since the request    *)
(* began.                                                                  *)
AdmRequest == [
    step   : {"idle", "look", "count", "load", "save"},
    op     : {"none", "new", "edit", "delete", "password", "totp"},
    user   : Admins \cup {Nobody},
    owner  : BOOLEAN,
    grants : SUBSET Slugs,
    copy   : AdminFiles \cup {<<>>},
    raced  : BOOLEAN]
NoAdm == [step |-> "idle", op |-> "none", user |-> Nobody, owner |-> FALSE, grants |-> {}, copy |-> <<>>, raced |-> FALSE]

(* With the types: an owner has no grants (auth.py:91, 101).               *)
AdminsTypeOK ==
    /\ admins \in AdminFiles
    /\ adm \in [Workers -> AdmRequest]
    /\ \A w \in Workers : adm[w].step # "idle" => adm[w].user \in Admins
    /\ \A w \in Workers : adm[w].step = "save" => adm[w].copy \in AdminFiles
    /\ \A u \in DOMAIN admins : admins[u].owner => admins[u].grants = {}

AdminsInit ==
    /\ admins \in InitialAdmins
    /\ adm = [w \in Workers |-> NoAdm]
-----------------------------------------------------------------------------
Known(u)   == u \in DOMAIN admins
Owners(f)  == {u \in DOMAIN f : f[u].owner}
IsOwner(u) == u \in Owners(admins)
CanWrite(u, s) == Known(u) /\ (admins[u].owner \/ s \in admins[u].grants)

Begin(w, step, op, user, owner, grants) ==
    /\ adm' = [adm EXCEPT ![w] = [NoAdm EXCEPT !.step = step, !.op = op, !.user = user, !.owner = owner, !.grants = grants]]
    /\ UNCHANGED admins

(* The first account; there are no administrators yet.                     *)
Setup(w, user) == DOMAIN admins = {} /\ Begin(w, "load", "new", user, TRUE, {})

(* Requests of an owner.                                                   *)
New(w, by, user, owner, grants)  == IsOwner(by) /\ Begin(w, "look", "new", user, owner, grants)
Edit(w, by, user, owner, grants) == IsOwner(by) /\ Begin(w, "look", "edit", user, owner, grants)
Delete(w, by, user) == IsOwner(by) /\ user # by /\ Begin(w, "look", "delete", user, FALSE, {})

(* A request of the account itself, which may be gone by now.              *)
NewPassword(w, user) == Begin(w, "look", "password", user, FALSE, {})
SetTotp(w, user)     == Begin(w, "load", "totp", user, FALSE, {})

Goes(w, step) == adm' = [adm EXCEPT ![w].step = step]
Answered(w)   == adm' = [adm EXCEPT ![w] = NoAdm]

LosesOwner(w) ==
    LET r == adm[w] IN r.op \in {"edit", "delete"} /\ IsOwner(r.user) /\ ~r.owner

(* A mutant of Look: an owner who is made one no more is not counted.      *)
LookUncounted(w) ==
    /\ adm[w].step = "look"
    /\ CASE adm[w].op = "new" -> IF Known(adm[w].user) THEN Answered(w) ELSE Goes(w, "load")
         [] adm[w].op \in {"edit", "password"} /\ ~Known(adm[w].user) -> Answered(w)
         [] adm[w].op = "delete" /\ LosesOwner(w) -> Goes(w, "count")
         [] OTHER -> Goes(w, "load")
    /\ UNCHANGED admins

(* get_admin: a new name must be free, an edited one known, a password     *)
(* verified; an owner who would be one no more is counted.                 *)
Look(w) ==
    /\ adm[w].step = "look"
    /\ CASE adm[w].op = "new" -> IF Known(adm[w].user) THEN Answered(w) ELSE Goes(w, "load")
         [] adm[w].op \in {"edit", "password"} /\ ~Known(adm[w].user) -> Answered(w)
         [] LosesOwner(w) -> Goes(w, "count")
         [] OTHER -> Goes(w, "load")
    /\ UNCHANGED admins

Count(w) ==
    /\ adm[w].step = "count"
    /\ IF Cardinality(Owners(admins)) <= 1 THEN Answered(w) ELSE Goes(w, "load")
    /\ UNCHANGED admins

(* The copy the change is made to; an account that is gone is a KeyError.  *)
LoadAdmins(w) ==
    /\ adm[w].step = "load"
    /\ IF adm[w].op \in {"edit", "password", "totp"} /\ ~Known(adm[w].user) THEN Answered(w)
       ELSE adm' = [adm EXCEPT ![w].step = "save", ![w].copy = admins]
    /\ UNCHANGED admins

(* A mutant of the next definition: an owner keeps the grants there were.  *)
ChangedGrantsKept(r) ==
    CASE r.op = "new" ->
            [u \in DOMAIN r.copy \cup {r.user} |->
                IF u = r.user THEN [owner |-> r.owner, grants |-> IF r.owner THEN {} ELSE r.grants, cred |-> 0] ELSE r.copy[u]]
      [] r.op = "edit" ->
            [r.copy EXCEPT ![r.user].owner = r.owner, ![r.user].grants = IF r.owner THEN @ ELSE r.grants]
      [] r.op = "delete" -> [u \in DOMAIN r.copy \ {r.user} |-> r.copy[u]]
      [] OTHER -> [r.copy EXCEPT ![r.user].cred = 1 - @]

(* What the request saves.                                                 *)
Changed(r) ==
    CASE r.op = "new" ->
            [u \in DOMAIN r.copy \cup {r.user} |->
                IF u = r.user THEN [owner |-> r.owner, grants |-> IF r.owner THEN {} ELSE r.grants, cred |-> 0] ELSE r.copy[u]]
      [] r.op = "edit" ->
            [r.copy EXCEPT ![r.user].owner = r.owner, ![r.user].grants = IF r.owner THEN {} ELSE r.grants]
      [] r.op = "delete" -> [u \in DOMAIN r.copy \ {r.user} |-> r.copy[u]]
      [] OTHER -> [r.copy EXCEPT ![r.user].cred = 1 - @]

SaveAdmins(w) ==
    /\ adm[w].step = "save"
    /\ admins' = Changed(adm[w])
    /\ adm' = [v \in Workers |-> IF v = w THEN NoAdm ELSE [adm[v] EXCEPT !.raced = adm[v].step # "idle"]]

Administer(w) == Look(w) \/ Count(w) \/ LoadAdmins(w) \/ SaveAdmins(w)

(* The service is stopped: a file half written is never the one that is    *)
(* read.                                                                   *)
AdmDies(w) == adm[w].step # "idle" /\ Answered(w) /\ UNCHANGED admins
-----------------------------------------------------------------------------
(* app.py:1000, 1019 ("last remaining owner account"), 221-223: once there *)
(* is an owner, no sequence of requests leaves the console without one; it *)
(* takes two that overlap, of which the later one to save was raced.       *)
LastOwnerOnlyRaced ==
    [][Owners(admins) # {} /\ Owners(admins') = {} =>
        \E w \in Workers : adm[w].step = "save" /\ adm'[w].step = "idle" /\ adm[w].raced]_<<admins, adm>>
=============================================================================
