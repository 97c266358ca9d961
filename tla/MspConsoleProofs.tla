-------------------------- MODULE MspConsoleProofs --------------------------
(***************************************************************************)
(* Type correctness of MspConsole and what its requests promise of the     *)
(* last owner, of archives and of existing customers.  The inductive       *)
(* invariant says what a request that nobody raced still knows: the copy   *)
(* it made, or the answer of the check it did, is true of the files now.   *)
(***************************************************************************)
EXTENDS MspConsole, FiniteSetTheorems, TLAPS

(* A request about an account.                                             *)
Asked(r)      == /\ r.step # "idle" => r.user \in Admins /\ r.op # "none"
                 /\ r.step = "count" => r.op \in {"edit", "delete"}
                 /\ r.op = "delete" => ~r.owner
CopyIsFile(r) == r.step = "save" =>
                    /\ r.copy \in AdminFiles
                    /\ r.op \notin {"new", "delete"} => r.user \in DOMAIN r.copy
                    /\ \A u \in DOMAIN r.copy : r.copy[u].owner => r.copy[u].grants = {}
CopyIsFresh(r) == r.step = "save" /\ ~r.raced => r.copy = admins
NewIsFree(r)   == r.step \in {"load", "save"} /\ r.op = "new" /\ ~r.raced => ~Known(r.user)
OwnerLeft(r)   == r.step \in {"load", "save"} /\ r.op \in {"edit", "delete"} /\ ~r.owner /\ ~r.raced =>
                    Owners(admins) # {r.user}

RequestOK(r) == Asked(r) /\ CopyIsFile(r) /\ CopyIsFresh(r) /\ NewIsFree(r) /\ OwnerLeft(r)

AdminsInv == AdminsTypeOK /\ \A w \in Workers : RequestOK(adm[w])

(* A script, or a configuration request.                                   *)
MadeFirst(r)   == r.step \in {"copy", "trim"} => r.slug \in tree
EditsWhole(r)  == r.step = "save" => r.staged > Empty
StagedIsNow(r) == r.step \in {"tar", "remove"} /\ ~r.raced => conf[r.slug] = r.staged
IsArchived(r)  == r.step = "remove" => archived[r.slug][r.stamp] = r.staged
Stamped(r)     == r.step \in {"stage", "tar", "remove", "rmdir"} \/ (r.step \in {"check", "wait"} /\ r.op # "provision")
                    => r.stamp \in Seconds
WasMissing(r)  == /\ r.step \in {"dirs", "copy"} \/ (r.step = "wait" /\ r.op = "provision")
                  /\ ~r.raced
                  => conf[r.slug] = NoFile

ScriptOK(r) == MadeFirst(r) /\ EditsWhole(r) /\ StagedIsNow(r) /\ IsArchived(r) /\ WasMissing(r) /\ Stamped(r)

LifecycleInv == LifecycleTypeOK /\ \A w \in Runners : ScriptOK(script[w])

(* What LifecycleTypeOK says of the files.                                 *)
FilesOK ==
    /\ tree \subseteq Slugs /\ gone \subseteq Slugs /\ conf \in [Slugs -> Confs]
    /\ archived \in [Slugs -> [Seconds -> Archives]] /\ edits \in 0 .. MaxEdits
    /\ opsLock \in Runners \cup {Nobody}
    /\ \A s \in Slugs : conf[s] # NoFile => s \in tree

IInv == AdminsInv /\ LifecycleInv /\ requests \in 0 .. MaxRequests
-----------------------------------------------------------------------------
(* A file of accounts, as its names and what it says of each.              *)
LEMMA FileFacts ==
    /\ \A f \in AdminFiles : DOMAIN f \subseteq Admins /\ f \in [DOMAIN f -> Account]
    /\ \A A \in SUBSET Admins : [A -> Account] \subseteq AdminFiles
  BY DEF AdminFiles

(* What a request saves is a file, with no grants for an owner.            *)
LEMMA ChangedFacts ==
    ASSUME NEW r \in AdmRequest, r.copy \in AdminFiles, r.user \in Admins, r.op # "none",
           r.op \notin {"new", "delete"} => r.user \in DOMAIN r.copy,
           \A u \in DOMAIN r.copy : r.copy[u].owner => r.copy[u].grants = {}
    PROVE  /\ Changed(r) \in AdminFiles
           /\ \A u \in DOMAIN Changed(r) : Changed(r)[u].owner => Changed(r)[u].grants = {}
<1> DEFINE f == r.copy
           u == r.user
<1>1. DOMAIN f \subseteq Admins /\ f \in [DOMAIN f -> Account]
  BY FileFacts
<1>2. \A A \in SUBSET Admins : [A -> Account] \subseteq AdminFiles
  BY FileFacts
<1>3. r.owner \in BOOLEAN /\ r.grants \in SUBSET Slugs /\ r.op \in {"new", "edit", "delete", "password", "totp"}
  BY DEF AdmRequest
<1>4. CASE r.op = "new"
  <2> DEFINE a == [owner |-> r.owner, grants |-> IF r.owner THEN {} ELSE r.grants, cred |-> 0]
             g == [v \in DOMAIN f \cup {u} |-> IF v = u THEN a ELSE f[v]]
  <2>1. Changed(r) = g
    BY <1>4 DEF Changed
  <2>2. a \in Account /\ (a.owner => a.grants = {})
    BY <1>3 DEF Account
  <2>3. g \in [DOMAIN f \cup {u} -> Account]
    BY <1>1, <2>2
  <2>4. DOMAIN f \cup {u} \in SUBSET Admins
    BY <1>1
  <2>5. g \in AdminFiles
    BY <1>2, <2>3, <2>4
  <2>6. \A v \in DOMAIN g : g[v].owner => g[v].grants = {}
    BY <2>2
  <2> QED
    BY <2>1, <2>5, <2>6
<1>5. CASE r.op = "edit"
  <2> DEFINE g == [f EXCEPT ![u].owner = r.owner, ![u].grants = IF r.owner THEN {} ELSE r.grants]
  <2>1. Changed(r) = g /\ u \in DOMAIN f
    BY <1>5 DEF Changed
  <2>2. \A a \in Account : LET b == [[a EXCEPT !.owner = r.owner] EXCEPT !.grants = IF r.owner THEN {} ELSE r.grants]
                           IN  b \in Account /\ (b.owner => b.grants = {})
    BY <1>3 DEF Account
  <2>3. g[u] = [[f[u] EXCEPT !.owner = r.owner] EXCEPT !.grants = IF r.owner THEN {} ELSE r.grants]
    BY <2>1
  <2>4. DOMAIN g = DOMAIN f /\ \A v \in DOMAIN f : v # u => g[v] = f[v]
    BY <2>1
  <2>5. g[u] \in Account /\ (g[u].owner => g[u].grants = {})
    BY <1>1, <2>1, <2>2, <2>3
  <2>6. g \in [DOMAIN f -> Account]
    BY <1>1, <2>4, <2>5
  <2>7. \A v \in DOMAIN g : g[v].owner => g[v].grants = {}
    BY <2>4, <2>5
  <2> QED
    BY <1>1, <1>2, <2>1, <2>6, <2>7
<1>6. CASE r.op = "delete"
  BY <1>1, <1>2, <1>6 DEF Changed
<1>7. CASE r.op \in {"password", "totp"}
  <2> DEFINE g == [f EXCEPT ![u].cred = 1 - @]
  <2>1. Changed(r) = g /\ u \in DOMAIN f
    BY <1>7 DEF Changed
  <2>2. g[u] = [f[u] EXCEPT !.cred = 1 - f[u].cred]
    BY <2>1
  <2>3. \A a \in Account : LET b == [a EXCEPT !.cred = 1 - a.cred]
                           IN  b \in Account /\ b.owner = a.owner /\ b.grants = a.grants
    BY DEF Account
  <2>4. DOMAIN g = DOMAIN f /\ \A v \in DOMAIN f : v # u => g[v] = f[v]
    BY <2>1
  <2>5. g[u] \in Account /\ g[u].owner = f[u].owner /\ g[u].grants = f[u].grants
    BY <1>1, <2>1, <2>2, <2>3
  <2>6. g \in [DOMAIN f -> Account]
    BY <1>1, <2>4, <2>5
  <2>7. \A v \in DOMAIN g : g[v].owner => g[v].grants = {}
    BY <2>4, <2>5
  <2> QED
    BY <1>1, <1>2, <2>1, <2>6, <2>7
<1> QED
  BY <1>3, <1>4, <1>5, <1>6, <1>7

(* An owner stays in what a request saves, unless it takes the last one.   *)
LEMMA ChangedKeepsOwner ==
    ASSUME NEW r \in AdmRequest, r.copy \in AdminFiles, r.op # "none",
           r.op \notin {"new", "delete"} => r.user \in DOMAIN r.copy,
           r.op = "new" => r.user \notin DOMAIN r.copy,
           r.op = "delete" => ~r.owner,
           r.op \in {"edit", "delete"} /\ ~r.owner => Owners(r.copy) # {r.user},
           Owners(r.copy) # {}
    PROVE  Owners(Changed(r)) # {}
<1> DEFINE f == r.copy
           u == r.user
<1>1. DOMAIN f \subseteq Admins /\ f \in [DOMAIN f -> Account]
  BY FileFacts
<1>2. r.owner \in BOOLEAN /\ r.op \in {"new", "edit", "delete", "password", "totp"}
  BY DEF AdmRequest
<1>3. PICK o \in DOMAIN f : f[o].owner /\ (r.op \in {"edit", "delete"} /\ ~r.owner => o # u)
  BY DEF Owners
<1>4. CASE r.op = "new"
  BY <1>3, <1>4 DEF Changed, Owners
<1>5. CASE r.op = "delete"
  BY <1>3, <1>5 DEF Changed, Owners
<1>6. CASE r.op = "edit"
  <2> DEFINE g == [f EXCEPT ![u].owner = r.owner, ![u].grants = IF r.owner THEN {} ELSE r.grants]
  <2>1. Changed(r) = g /\ u \in DOMAIN f
    BY <1>6 DEF Changed
  <2>2. DOMAIN g = DOMAIN f /\ (\A v \in DOMAIN f : v # u => g[v] = f[v])
    BY <2>1
  <2>3. \A a \in Account : [[a EXCEPT !.owner = r.owner] EXCEPT !.grants = IF r.owner THEN {} ELSE r.grants].owner = r.owner
    BY DEF Account
  <2>4. g[u] = [[f[u] EXCEPT !.owner = r.owner] EXCEPT !.grants = IF r.owner THEN {} ELSE r.grants]
    BY <2>1
  <2>5. g[u].owner = r.owner
    BY <1>1, <2>1, <2>3, <2>4
  <2>6. g[IF r.owner THEN u ELSE o].owner
    BY <1>2, <1>3, <1>6, <2>1, <2>2, <2>5
  <2> QED
    BY <1>3, <2>1, <2>2, <2>6 DEF Owners
<1>7. CASE r.op \in {"password", "totp"}
  <2> DEFINE g == [f EXCEPT ![u].cred = 1 - @]
  <2>1. Changed(r) = g /\ u \in DOMAIN f
    BY <1>7 DEF Changed
  <2>2. \A a \in Account : [a EXCEPT !.cred = 1 - a.cred].owner = a.owner
    BY DEF Account
  <2>3. DOMAIN g = DOMAIN f /\ g[o].owner
    BY <1>1, <1>3, <2>1, <2>2
  <2> QED
    BY <1>3, <2>1, <2>3 DEF Owners
<1> QED
  BY <1>2, <1>4, <1>5, <1>6, <1>7
-----------------------------------------------------------------------------
(* A step of one request that leaves the file alone.                       *)
LEMMA OneRequestStep ==
    ASSUME AdminsInv, NEW w \in Workers, NEW r \in AdmRequest, RequestOK(r),
           adm' = [adm EXCEPT ![w] = r], UNCHANGED admins
    PROVE  AdminsInv'
<1>1. adm' \in [Workers -> AdmRequest]
  BY DEF AdminsInv, AdminsTypeOK
<1>2. \A v \in Workers : adm'[v] = IF v = w THEN r ELSE adm[v]
  BY DEF AdminsInv, AdminsTypeOK
<1>3. \A v \in Workers : RequestOK(adm'[v])
  BY <1>2 DEF AdminsInv
<1>4. \A s : RequestOK(s) <=> RequestOK(s)'
  BY DEF RequestOK, Asked, CopyIsFile, CopyIsFresh, NewIsFree, OwnerLeft, Known, Owners
<1>5. (\A v \in Workers : RequestOK(adm[v]))'
  BY <1>3, <1>4
<1>6. AdminsTypeOK'
  BY <1>1, <1>3 DEF AdminsInv, AdminsTypeOK, RequestOK, Asked, CopyIsFile
<1> QED
  BY <1>5, <1>6 DEF AdminsInv
LEMMA AnsweredStep ==
    ASSUME AdminsInv, NEW w \in Workers, Answered(w), UNCHANGED admins
    PROVE  AdminsInv'
<1>1. NoAdm \in AdmRequest /\ RequestOK(NoAdm)
  BY DEF NoAdm, AdmRequest, RequestOK, Asked, CopyIsFile, CopyIsFresh, NewIsFree, OwnerLeft
<1> QED
  BY <1>1, OneRequestStep DEF Answered

LEMMA GoesStep ==
    ASSUME AdminsInv, NEW w \in Workers, adm[w].step # "idle",
           NEW step \in {"count", "load"}, Goes(w, step), UNCHANGED admins,
           step = "count" => adm[w].op \in {"edit", "delete"},
           step = "load" => /\ NewIsFree([adm[w] EXCEPT !.step = step])
                            /\ OwnerLeft([adm[w] EXCEPT !.step = step])
    PROVE  AdminsInv'
<1> DEFINE r == [adm[w] EXCEPT !.step = step]
<1>1. adm[w] \in AdmRequest /\ RequestOK(adm[w])
  BY DEF AdminsInv, AdminsTypeOK
<1>2. r \in AdmRequest /\ r.step = step
  BY <1>1 DEF AdmRequest
<1>3. r.op = adm[w].op /\ r.user = adm[w].user /\ r.owner = adm[w].owner
  BY <1>1 DEF AdmRequest
<1>4. Asked(r)
  BY <1>1, <1>2, <1>3 DEF RequestOK, Asked
<1>5. CopyIsFile(r) /\ CopyIsFresh(r)
  BY <1>2 DEF CopyIsFile, CopyIsFresh
<1>6. NewIsFree(r) /\ OwnerLeft(r)
  BY <1>2 DEF NewIsFree, OwnerLeft
<1>7. RequestOK(r)
  BY <1>4, <1>5, <1>6 DEF RequestOK
<1>8. adm' = [adm EXCEPT ![w] = r]
  BY DEF Goes, AdminsInv, AdminsTypeOK
<1> QED
  BY <1>2, <1>7, <1>8, OneRequestStep

LEMMA BeginStep ==
    ASSUME AdminsInv, NEW w \in Workers, adm[w].step = "idle",
           NEW step \in {"look", "load"}, NEW op \in {"new", "edit", "delete", "password", "totp"},
           NEW user \in Admins, NEW owner \in BOOLEAN, NEW grants \in SUBSET Slugs,
           op = "delete" => ~owner,
           step = "load" => op = "totp" \/ (op = "new" /\ ~Known(user)),
           Begin(w, step, op, user, owner, grants)
    PROVE  AdminsInv'
<1> DEFINE r == [NoAdm EXCEPT !.step = step, !.op = op, !.user = user, !.owner = owner, !.grants = grants]
<1>1. /\ r \in AdmRequest
      /\ r.step = step /\ r.op = op /\ r.user = user /\ r.owner = owner
  BY DEF NoAdm, AdmRequest
<1>2. Asked(r) /\ CopyIsFile(r) /\ CopyIsFresh(r)
  BY <1>1 DEF Asked, CopyIsFile, CopyIsFresh
<1>3. NewIsFree(r) /\ OwnerLeft(r)
  BY <1>1 DEF NewIsFree, OwnerLeft
<1> QED
  BY <1>1, <1>2, <1>3, OneRequestStep DEF Begin, RequestOK

LEMMA LookStep ==
    ASSUME AdminsInv, NEW w \in Workers, Look(w)
    PROVE  AdminsInv'
<1> DEFINE r == [adm[w] EXCEPT !.step = "load"]
<1>1. adm[w] \in AdmRequest /\ adm[w].step = "look"
  BY DEF Look, AdminsInv, AdminsTypeOK
<1>2. r.op = adm[w].op /\ r.user = adm[w].user /\ r.owner = adm[w].owner
  BY <1>1 DEF AdmRequest
<1>3. UNCHANGED admins
  BY DEF Look
<1>4. CASE Answered(w)
  BY <1>3, <1>4, AnsweredStep
<1>5. CASE Goes(w, "count") /\ adm[w].op \in {"edit", "delete"}
  BY <1>1, <1>3, <1>5, GoesStep
<1>6. ASSUME Goes(w, "load"), ~LosesOwner(w), adm[w].op = "new" => ~Known(adm[w].user)
      PROVE  AdminsInv'
  <2>1. NewIsFree(r)
    BY <1>2, <1>6 DEF NewIsFree
  <2>2. OwnerLeft(r)
    BY <1>2, <1>6 DEF OwnerLeft, LosesOwner, IsOwner
  <2> QED
    BY <1>1, <1>3, <1>6, <2>1, <2>2, GoesStep
<1>7. \/ Answered(w)
      \/ Goes(w, "count") /\ adm[w].op \in {"edit", "delete"}
      \/ Goes(w, "load") /\ ~LosesOwner(w) /\ (adm[w].op = "new" => ~Known(adm[w].user))
  <2>1. CASE adm[w].op = "new"
    BY <2>1 DEF Look, LosesOwner
  <2>2. CASE adm[w].op # "new"
    BY <2>2 DEF Look, LosesOwner
  <2> QED
    BY <2>1, <2>2
<1> QED
  BY <1>4, <1>5, <1>6, <1>7

(* Counting two owners is knowing another one.                             *)
LEMMA CountStep ==
    ASSUME AdminsInv, NEW w \in Workers, Count(w)
    PROVE  AdminsInv'
<1> DEFINE r == [adm[w] EXCEPT !.step = "load"]
<1>1. adm[w] \in AdmRequest /\ adm[w].step = "count" /\ UNCHANGED admins
  BY DEF Count, AdminsInv, AdminsTypeOK
<1>2. r.op = adm[w].op /\ r.user = adm[w].user /\ r.owner = adm[w].owner
  BY <1>1 DEF AdmRequest
<1>3. CASE Answered(w)
  BY <1>1, <1>3, AnsweredStep
<1>4. CASE Goes(w, "load") /\ ~(Cardinality(Owners(admins)) <= 1)
  <2>1. Owners(admins) # {adm[w].user}
    <3> SUFFICES ASSUME Owners(admins) = {adm[w].user} PROVE FALSE
      OBVIOUS
    <3>1. Cardinality({adm[w].user}) = 1
      BY FS_Singleton
    <3> QED
      BY <1>4, <3>1
  <2>2. OwnerLeft(r)
    BY <1>2, <2>1 DEF OwnerLeft
  <2>3. NewIsFree(r)
    BY <1>1, <1>2 DEF NewIsFree, AdminsInv, RequestOK, Asked
  <2> QED
    BY <1>1, <1>4, <2>2, <2>3, GoesStep
<1> QED
  BY <1>3, <1>4 DEF Count
LEMMA LoadAdminsStep ==
    ASSUME AdminsInv, NEW w \in Workers, LoadAdmins(w)
    PROVE  AdminsInv'
<1> DEFINE r == [[adm[w] EXCEPT !.step = "save"] EXCEPT !.copy = admins]
<1>1. /\ adm[w] \in AdmRequest /\ RequestOK(adm[w]) /\ adm[w].step = "load" /\ UNCHANGED admins
      /\ admins \in AdminFiles /\ \A u \in DOMAIN admins : admins[u].owner => admins[u].grants = {}
  BY DEF LoadAdmins, AdminsInv, AdminsTypeOK
<1>2. CASE Answered(w)
  BY <1>1, <1>2, AnsweredStep
<1>3. CASE ~Answered(w)
  <2>1. adm[w].op \in {"edit", "password", "totp"} => Known(adm[w].user)
    BY <1>3 DEF LoadAdmins
  <2>2. adm' = [adm EXCEPT ![w] = r]
    BY <1>3 DEF LoadAdmins
  <2>3. r \in AdmRequest /\ r.step = "save" /\ r.copy = admins
    BY <1>1 DEF AdmRequest
  <2>4. r.op = adm[w].op /\ r.user = adm[w].user
    BY <1>1 DEF AdmRequest
  <2>5. r.owner = adm[w].owner /\ r.raced = adm[w].raced
    BY <1>1 DEF AdmRequest
  <2>6. adm[w].op \in {"new", "edit", "delete", "password", "totp"}
    BY <1>1 DEF AdmRequest, RequestOK, Asked
  <2>7. Asked(r)
    BY <1>1, <2>3, <2>4, <2>5 DEF RequestOK, Asked
  <2>8. CopyIsFile(r) /\ CopyIsFresh(r)
    BY <1>1, <2>1, <2>3, <2>4, <2>6 DEF CopyIsFile, CopyIsFresh, Known
  <2>9. NewIsFree(r)
    BY <1>1, <2>3, <2>4, <2>5 DEF RequestOK, NewIsFree
  <2>10. OwnerLeft(r)
    BY <1>1, <2>3, <2>4, <2>5 DEF RequestOK, OwnerLeft
  <2>11. RequestOK(r)
    BY <2>7, <2>8, <2>9, <2>10 DEF RequestOK
  <2> QED
    BY <1>1, <2>2, <2>3, <2>11, OneRequestStep
<1> QED
  BY <1>2, <1>3

(* Who else is at a request has been raced by a save.                      *)
LEMMA SaveAdminsStep ==
    ASSUME AdminsInv, NEW w \in Workers, SaveAdmins(w)
    PROVE  AdminsInv'
<1>1. /\ adm \in [Workers -> AdmRequest]
      /\ \A v \in Workers : RequestOK(adm[v])
  BY DEF AdminsInv, AdminsTypeOK
<1>2. /\ admins' \in AdminFiles
      /\ \A u \in DOMAIN admins' : admins'[u].owner => admins'[u].grants = {}
  <2>1. adm[w] \in AdmRequest /\ Asked(adm[w]) /\ CopyIsFile(adm[w]) /\ adm[w].step = "save"
    BY <1>1 DEF SaveAdmins, RequestOK
  <2> QED
    BY <2>1, ChangedFacts DEF SaveAdmins, Asked, CopyIsFile
<1> DEFINE r(v) == IF v = w THEN NoAdm ELSE [adm[v] EXCEPT !.raced = adm[v].step # "idle"]
<1>3. adm' = [v \in Workers |-> r(v)]
  BY DEF SaveAdmins
<1>4. NoAdm \in AdmRequest /\ NoAdm.step = "idle" /\ NoAdm.op = "none"
  BY DEF NoAdm, AdmRequest
<1>5. ASSUME NEW v \in Workers PROVE adm'[v] \in AdmRequest /\ RequestOK(adm[v])'
  <2>1. CASE v = w
    <3>1. adm'[v] = NoAdm
      BY <1>3, <2>1
    <3> QED
      BY <1>4, <3>1 DEF RequestOK, Asked, CopyIsFile, CopyIsFresh, NewIsFree, OwnerLeft
  <2>2. CASE v # w
    <3> DEFINE q == [adm[v] EXCEPT !.raced = adm[v].step # "idle"]
    <3>1. adm'[v] = q
      BY <1>3, <2>2
    <3>2. adm[v] \in AdmRequest /\ (adm[v].step # "idle") \in BOOLEAN
      BY <1>1
    <3>3. q \in AdmRequest
      BY <3>2 DEF AdmRequest
    <3>4. q.step = adm[v].step /\ q.op = adm[v].op /\ q.user = adm[v].user /\ q.copy = adm[v].copy
      BY <3>2 DEF AdmRequest
    <3>5. q.owner = adm[v].owner
      BY <3>2 DEF AdmRequest
    <3>6. q.step # "idle" => q.raced
      BY <3>2, <3>4 DEF AdmRequest
    <3>7. Asked(q) /\ CopyIsFile(q)
      BY <1>1, <3>4, <3>5 DEF RequestOK, Asked, CopyIsFile
    <3>8. ASSUME NEW s, s = q PROVE RequestOK(s)'
      BY <3>6, <3>7, <3>8 DEF RequestOK, Asked, CopyIsFile, CopyIsFresh, NewIsFree, OwnerLeft
    <3> QED
      BY <3>1, <3>3, <3>8
  <2> QED
    BY <2>1, <2>2
<1>6. adm' \in [Workers -> AdmRequest]
  BY <1>3, <1>5
<1>7. \A v \in Workers : /\ adm'[v].step # "idle" => adm'[v].user \in Admins
                         /\ adm'[v].step = "save" => adm'[v].copy \in AdminFiles
  BY <1>5 DEF RequestOK, Asked, CopyIsFile
<1> QED
  BY <1>2, <1>5, <1>6, <1>7 DEF AdminsInv, AdminsTypeOK
-----------------------------------------------------------------------------
LEMMA NobodyRuns == Nobody \notin Runners
  BY ConsoleAssumption, LifecycleAssumption DEF Runners

(* A step of one script: what another one that was not raced by it knows   *)
(* stays true.                                                             *)
LEMMA OneScriptStep ==
    ASSUME LifecycleInv, NEW w \in Runners, NEW r \in ScriptRun,
           FilesOK', script' \in [Runners -> ScriptRun], script'[w] = r,
           r.step # "idle" => r.slug \in Slugs, ScriptOK(r)',
           opsLock' = w <=> r.step \in Locking,
           \A v \in Runners \ {w} : opsLock' = v <=> opsLock = v,
           \A v \in Runners \ {w} :
               /\ script'[v].step = script[v].step /\ script'[v].op = script[v].op
               /\ script'[v].slug = script[v].slug /\ script'[v].staged = script[v].staged /\ script'[v].stamp = script[v].stamp
               /\ script[v].raced => script'[v].raced
               /\ script[v].slug \in Slugs /\ conf'[script[v].slug] # conf[script[v].slug] => script'[v].raced,
           tree \subseteq tree' \/ script[w].step \in Locking,
           archived' = archived \/ script[w].step \in Locking
    PROVE  LifecycleInv'
<1>1. \A v \in Runners : ScriptOK(script[v]) /\ (script[v].step # "idle" => script[v].slug \in Slugs)
  BY DEF LifecycleInv, LifecycleTypeOK
<1>2. \A v \in Runners : opsLock = v <=> script[v].step \in Locking
  BY DEF LifecycleInv, LifecycleTypeOK
<1>3. ASSUME NEW v \in Runners, v # w PROVE ScriptOK(script[v])'
  <2>1. MadeFirst(script[v])'
    BY <1>1, <1>2, <1>3 DEF ScriptOK, MadeFirst, Locking
  <2>2. EditsWhole(script[v])'
    BY <1>1, <1>3 DEF ScriptOK, EditsWhole
  <2>3. StagedIsNow(script[v])'
    BY <1>1, <1>3 DEF ScriptOK, StagedIsNow
  <2>4. IsArchived(script[v])'
    <3>1. CASE script[v].step \in Locking
      BY <1>1, <1>2, <1>3, <3>1 DEF ScriptOK, IsArchived
    <3>2. CASE script[v].step \notin Locking
      BY <1>3, <3>2 DEF IsArchived, Locking
    <3> QED
      BY <3>1, <3>2
  <2>6. Stamped(script[v])'
    BY <1>1, <1>3 DEF ScriptOK, Stamped
  <2>5. WasMissing(script[v])'
    BY <1>1, <1>3 DEF ScriptOK, WasMissing
  <2> QED
    BY <2>1, <2>2, <2>3, <2>4, <2>5, <2>6 DEF ScriptOK
<1>4. ScriptOK(script[w])'
  BY DEF ScriptOK, MadeFirst, EditsWhole, StagedIsNow, IsArchived, WasMissing, Stamped
<1>5. \A v \in Runners : opsLock' = v <=> script'[v].step \in Locking
  BY <1>2
<1>6. \A v \in Runners : script'[v].step # "idle" => script'[v].slug \in Slugs
  BY <1>1
<1> QED
  BY <1>3, <1>4, <1>5, <1>6 DEF LifecycleInv, LifecycleTypeOK, FilesOK

(* What Step does to the other scripts.                                    *)
LEMMA StepFacts ==
    ASSUME script \in [Runners -> ScriptRun], NEW w \in Runners, NEW r \in ScriptRun,
           NEW changes \in BOOLEAN, Step(w, r, changes)
    PROVE  /\ script' \in [Runners -> ScriptRun] /\ script'[w] = r
           /\ \A v \in Runners \ {w} :
               /\ script'[v].step = script[v].step /\ script'[v].op = script[v].op
               /\ script'[v].slug = script[v].slug /\ script'[v].staged = script[v].staged /\ script'[v].stamp = script[v].stamp
               /\ script[v].raced => script'[v].raced
               /\ changes /\ script[v].slug = script[w].slug => script'[v].raced
<1> DEFINE q(v) == [script[v] EXCEPT !.raced = @ \/ (changes /\ script[v].slug = script[w].slug)]
<1>1. ASSUME NEW v \in Runners
      PROVE  /\ q(v) \in ScriptRun /\ q(v).step = script[v].step /\ q(v).op = script[v].op
             /\ q(v).slug = script[v].slug /\ q(v).staged = script[v].staged /\ q(v).stamp = script[v].stamp
             /\ q(v).raced <=> script[v].raced \/ (changes /\ script[v].slug = script[w].slug)
  <2>1. script[v] \in ScriptRun
    OBVIOUS
  <2> QED
    BY <2>1 DEF ScriptRun
<1>2. script' = [v \in Runners |-> IF v = w THEN r ELSE q(v)]
  BY DEF Step
<1>3. script' \in [Runners -> ScriptRun] /\ script'[w] = r
  BY <1>1, <1>2
<1>4. \A v \in Runners \ {w} : script'[v] = q(v)
  BY <1>2
<1> QED
  BY <1>1, <1>3, <1>4
LEMMA ScriptMoves ==
    ASSUME LifecycleInv, NEW w \in Runners, NEW r \in ScriptRun, NEW changes \in BOOLEAN,
           Step(w, r, changes), FilesOK',
           r.step # "idle" => r.slug \in Slugs, ScriptOK(r)',
           opsLock' = w <=> r.step \in Locking,
           \A v \in Runners \ {w} : opsLock' = v <=> opsLock = v,
           \A s \in Slugs : conf'[s] # conf[s] => changes /\ s = script[w].slug,
           tree \subseteq tree' \/ script[w].step \in Locking,
           archived' = archived \/ script[w].step \in Locking
    PROVE  LifecycleInv'
<1>1. script \in [Runners -> ScriptRun]
  BY DEF LifecycleInv, LifecycleTypeOK
<1>2. /\ script' \in [Runners -> ScriptRun] /\ script'[w] = r
      /\ \A v \in Runners \ {w} :
           /\ script'[v].step = script[v].step /\ script'[v].op = script[v].op
           /\ script'[v].slug = script[v].slug /\ script'[v].staged = script[v].staged /\ script'[v].stamp = script[v].stamp
           /\ script[v].raced => script'[v].raced
           /\ changes /\ script[v].slug = script[w].slug => script'[v].raced
  BY <1>1, StepFacts
<1>3. \A v \in Runners \ {w} :
        script[v].slug \in Slugs /\ conf'[script[v].slug] # conf[script[v].slug] => script'[v].raced
  BY <1>2
<1> QED
  BY <1>2, <1>3, OneScriptStep
(* What is known before a step, in the parts the steps need.               *)
LEMMA ScriptFacts ==
    ASSUME LifecycleInv, NEW w \in Runners
    PROVE  /\ FilesOK /\ script[w] \in ScriptRun /\ ScriptOK(script[w])
           /\ script[w].step # "idle" => script[w].slug \in Slugs
           /\ \A v \in Runners : opsLock = v <=> script[v].step \in Locking
           /\ w # Nobody
  BY NobodyRuns DEF LifecycleInv, LifecycleTypeOK, FilesOK

LEMMA OnToFacts ==
    ASSUME NEW q \in ScriptRun,
           NEW step \in {"idle", "check", "wait", "dirs", "copy", "trim", "stage", "tar", "remove", "rmdir", "save"},
           NEW r, r = [q EXCEPT !.step = step]
    PROVE  /\ r \in ScriptRun /\ r.step = step /\ r.op = q.op
           /\ r.slug = q.slug /\ r.staged = q.staged /\ r.stamp = q.stamp /\ r.raced = q.raced
  BY DEF ScriptRun

LEMMA EndsStep ==
    ASSUME LifecycleInv, NEW w \in Runners, NEW changes \in BOOLEAN, Ends(w, changes), FilesOK',
           \A s \in Slugs : conf'[s] # conf[s] => changes /\ s = script[w].slug,
           tree \subseteq tree' \/ script[w].step \in Locking,
           archived' = archived \/ script[w].step \in Locking
    PROVE  LifecycleInv'
<1>1. NoScript \in ScriptRun /\ NoScript.step = "idle"
  BY LifecycleAssumption DEF NoScript, ScriptRun, Confs, NoFile
<1>2. Step(w, NoScript, changes) /\ opsLock' = IF opsLock = w THEN Nobody ELSE opsLock
  BY DEF Ends
<1>3. ScriptOK(NoScript)'
  BY <1>1 DEF ScriptOK, MadeFirst, EditsWhole, StagedIsNow, IsArchived, WasMissing, Stamped
<1>4. opsLock' # w /\ \A v \in Runners \ {w} : opsLock' = v <=> opsLock = v
  BY <1>2, NobodyRuns
<1>5. opsLock' = w <=> NoScript.step \in Locking
  BY <1>1, <1>4 DEF Locking
<1> QED
  BY <1>1, <1>2, <1>3, <1>4, <1>5, ScriptMoves

LEMMA CheckStep ==
    ASSUME LifecycleInv, NEW w \in Runners, Check(w)
    PROVE  LifecycleInv'
<1>1. PICK r : r = [script[w] EXCEPT !.step = "wait", !.raced = FALSE]
  OBVIOUS
<1>2. /\ FilesOK /\ script[w] \in ScriptRun /\ script[w].slug \in Slugs /\ script[w].step = "check"
      /\ opsLock # w /\ ScriptOK(script[w])
  BY ScriptFacts DEF Check, Locking
<1>3. UNCHANGED <<tree, conf, archived, edits, gone>>
  BY DEF Check
<1>4. CASE Ends(w, FALSE)
  <2>1. opsLock' = opsLock
    BY <1>2, <1>4 DEF Ends
  <2>2. FilesOK'
    BY <1>2, <1>3, <2>1 DEF FilesOK
  <2> QED
    BY <1>3, <1>4, <2>2, EndsStep
<1>5. CASE HasLooked(w) /\ UNCHANGED opsLock /\ (script[w].slug \in tree <=> script[w].op = "deprovision")
  <2>1. /\ r \in ScriptRun /\ r.step = "wait" /\ r.op = script[w].op
        /\ r.slug = script[w].slug /\ r.stamp = script[w].stamp
    BY <1>1, <1>2 DEF ScriptRun
  <2>2. FilesOK'
    BY <1>2, <1>3, <1>5 DEF FilesOK
  <2>3. r.op = "provision" => conf[r.slug] = NoFile
    BY <1>2, <1>5, <2>1 DEF FilesOK
  <2>4. ScriptOK(r)'
    BY <1>2, <1>3, <2>1, <2>3 DEF ScriptOK, MadeFirst, EditsWhole, StagedIsNow, IsArchived, WasMissing, Stamped
  <2>5. Step(w, r, FALSE)
    BY <1>1, <1>5 DEF HasLooked
  <2>6. opsLock' = w <=> r.step \in Locking
    BY <1>2, <1>5, <2>1 DEF Locking
  <2> QED
    BY <1>2, <1>3, <1>5, <2>1, <2>2, <2>4, <2>5, <2>6, ScriptMoves
<1> QED
  BY <1>4, <1>5 DEF Check

LEMMA TakeOpsLockStep ==
    ASSUME LifecycleInv, NEW w \in Runners, TakeOpsLock(w)
    PROVE  LifecycleInv'
<1>0. PICK next \in {"dirs", "stage"} : next = IF script[w].op = "provision" THEN "dirs" ELSE "stage"
  OBVIOUS
<1>1. PICK r : r = [script[w] EXCEPT !.step = next]
  OBVIOUS
<1>2. /\ FilesOK /\ script[w] \in ScriptRun /\ script[w].slug \in Slugs /\ ScriptOK(script[w])
      /\ script[w].step = "wait" /\ opsLock = Nobody /\ opsLock' = w
  BY ScriptFacts DEF TakeOpsLock
<1>3. UNCHANGED <<tree, conf, archived, edits, gone>> /\ Step(w, r, FALSE)
  BY <1>0, <1>1 DEF TakeOpsLock
<1>4. /\ r \in ScriptRun /\ r.step = next /\ r.op = script[w].op
      /\ r.slug = script[w].slug /\ r.staged = script[w].staged /\ r.stamp = script[w].stamp /\ r.raced = script[w].raced
  BY <1>1, <1>2, OnToFacts
<1>5. FilesOK'
  BY <1>2, <1>3 DEF FilesOK
<1>6. WasMissing(r)'
  BY <1>0, <1>2, <1>3, <1>4 DEF ScriptOK, WasMissing
<1>7. ScriptOK(r)'
  BY <1>0, <1>2, <1>4, <1>6 DEF ScriptOK, MadeFirst, EditsWhole, StagedIsNow, IsArchived, Stamped
<1>8. opsLock' = w <=> r.step \in Locking
  BY <1>0, <1>2, <1>4 DEF Locking
<1>9. \A v \in Runners \ {w} : opsLock' = v <=> opsLock = v
  BY <1>2, NobodyRuns
<1> QED
  BY <1>2, <1>3, <1>4, <1>5, <1>7, <1>8, <1>9, ScriptMoves

LEMMA GiveUpStep ==
    ASSUME LifecycleInv, NEW w \in Runners, GiveUp(w)
    PROVE  LifecycleInv'
<1>1. Ends(w, FALSE) /\ UNCHANGED <<tree, conf, archived, edits, gone>>
  BY DEF GiveUp
<1>2. FilesOK'
  BY <1>1, ScriptFacts DEF FilesOK, Ends
<1> QED
  BY <1>1, <1>2, EndsStep

LEMMA MakeDirsStep ==
    ASSUME LifecycleInv, NEW w \in Runners, MakeDirs(w)
    PROVE  LifecycleInv'
<1>1. PICK r : r = [script[w] EXCEPT !.step = "copy"]
  OBVIOUS
<1>2. /\ FilesOK /\ script[w] \in ScriptRun /\ script[w].slug \in Slugs /\ ScriptOK(script[w])
      /\ script[w].step = "dirs" /\ script[w].step \in Locking /\ opsLock = w
  BY ScriptFacts DEF MakeDirs, Locking
<1>3. /\ UNCHANGED <<conf, archived, edits>> /\ CommandDone(w, "copy", TRUE)
      /\ tree' = tree \cup {script[w].slug} /\ gone' = gone \ {script[w].slug}
  BY DEF MakeDirs
<1>4. CASE Ends(w, TRUE)
  <2>1. FilesOK'
    BY <1>2, <1>3, <1>4 DEF FilesOK, Ends
  <2> QED
    BY <1>2, <1>3, <1>4, <2>1, EndsStep
<1>5. CASE Step(w, r, TRUE) /\ UNCHANGED opsLock
  <2>1. /\ r \in ScriptRun /\ r.step = "copy" /\ r.op = script[w].op
        /\ r.slug = script[w].slug /\ r.staged = script[w].staged /\ r.stamp = script[w].stamp /\ r.raced = script[w].raced
    BY <1>1, <1>2, OnToFacts
  <2>2. FilesOK'
    BY <1>2, <1>3, <1>5 DEF FilesOK
  <2>3. MadeFirst(r)' /\ WasMissing(r)'
    BY <1>2, <1>3, <2>1 DEF ScriptOK, MadeFirst, WasMissing
  <2>4. ScriptOK(r)'
    BY <2>1, <2>3 DEF ScriptOK, EditsWhole, StagedIsNow, IsArchived, Stamped
  <2>5. opsLock' = w <=> r.step \in Locking
    BY <1>2, <1>5, <2>1 DEF Locking
  <2> QED
    BY <1>2, <1>3, <1>5, <2>1, <2>2, <2>4, <2>5, ScriptMoves
<1> QED
  BY <1>1, <1>3, <1>4, <1>5 DEF CommandDone, OnTo

LEMMA CopyExampleStep ==
    ASSUME LifecycleInv, NEW w \in Runners, CopyExample(w)
    PROVE  LifecycleInv'
<1>1. PICK r : r = [script[w] EXCEPT !.step = "trim"]
  OBVIOUS
<1>2. /\ FilesOK /\ script[w] \in ScriptRun /\ script[w].slug \in Slugs /\ ScriptOK(script[w])
      /\ script[w].step = "copy" /\ script[w].step \in Locking /\ opsLock = w
  BY ScriptFacts DEF CopyExample, Locking
<1>3. /\ UNCHANGED <<tree, archived, edits, gone>> /\ CommandDone(w, "trim", TRUE)
      /\ conf' = [conf EXCEPT ![script[w].slug] = Example]
  BY DEF CopyExample, Writes
<1>4. script[w].slug \in tree
  BY <1>2 DEF ScriptOK, MadeFirst
<1>5. Example \in Confs
  BY LifecycleAssumption DEF Confs, Example
<1>6. \A s \in Slugs : conf'[s] # conf[s] => s = script[w].slug
  BY <1>2, <1>3 DEF FilesOK
<1>7. CASE Ends(w, TRUE)
  <2>1. FilesOK'
    BY <1>2, <1>3, <1>4, <1>5, <1>7 DEF FilesOK, Ends
  <2> QED
    BY <1>2, <1>3, <1>6, <1>7, <2>1, EndsStep
<1>8. CASE Step(w, r, TRUE) /\ UNCHANGED opsLock
  <2>1. /\ r \in ScriptRun /\ r.step = "trim" /\ r.op = script[w].op
        /\ r.slug = script[w].slug /\ r.staged = script[w].staged /\ r.stamp = script[w].stamp /\ r.raced = script[w].raced
    BY <1>1, <1>2, OnToFacts
  <2>2. FilesOK'
    BY <1>2, <1>3, <1>4, <1>5, <1>8 DEF FilesOK
  <2>3. ScriptOK(r)'
    BY <1>3, <1>4, <2>1 DEF ScriptOK, MadeFirst, EditsWhole, StagedIsNow, IsArchived, WasMissing, Stamped
  <2>4. opsLock' = w <=> r.step \in Locking
    BY <1>2, <1>8, <2>1 DEF Locking
  <2> QED
    BY <1>2, <1>3, <1>6, <1>8, <2>1, <2>2, <2>3, <2>4, ScriptMoves
<1> QED
  BY <1>1, <1>3, <1>7, <1>8 DEF CommandDone, OnTo

LEMMA TrimStep ==
    ASSUME LifecycleInv, NEW w \in Runners, Trim(w)
    PROVE  LifecycleInv'
<1>1. /\ FilesOK /\ script[w] \in ScriptRun /\ script[w].slug \in Slugs /\ ScriptOK(script[w])
      /\ script[w].step = "trim"
  BY ScriptFacts DEF Trim
<1>2. /\ UNCHANGED <<tree, archived, edits, gone>> /\ Ends(w, TRUE)
      /\ conf' = [conf EXCEPT ![script[w].slug] = Empty]
  BY DEF Trim, Writes
<1>3. script[w].slug \in tree
  BY <1>1 DEF ScriptOK, MadeFirst
<1>4. Empty \in Confs
  BY LifecycleAssumption DEF Confs, Empty
<1>5. FilesOK'
  BY <1>1, <1>2, <1>3, <1>4 DEF FilesOK, Ends
<1>6. \A s \in Slugs : conf'[s] # conf[s] => s = script[w].slug
  BY <1>1, <1>2 DEF FilesOK
<1> QED
  BY <1>2, <1>5, <1>6, EndsStep

(* The copy is made of what is there, and nobody has changed it since.     *)
LEMMA StageStep ==
    ASSUME LifecycleInv, NEW w \in Runners, Stage(w)
    PROVE  LifecycleInv'
<1>1. PICK r : r = [script[w] EXCEPT !.step = "tar", !.staged = conf[script[w].slug], !.raced = FALSE]
  OBVIOUS
<1>2. /\ FilesOK /\ script[w] \in ScriptRun /\ script[w].slug \in Slugs
      /\ script[w].step = "stage" /\ opsLock = w /\ ScriptOK(script[w])
  BY ScriptFacts DEF Stage, Locking
<1>3. UNCHANGED <<tree, conf, archived, edits, gone>>
  BY DEF Stage
<1>4. CASE Ends(w, FALSE)
  <2>1. FilesOK'
    BY <1>2, <1>3, <1>4 DEF FilesOK, Ends
  <2> QED
    BY <1>3, <1>4, <2>1, EndsStep
<1>5. CASE Step(w, r, FALSE) /\ UNCHANGED opsLock
  <2>1. conf[script[w].slug] \in Confs
    BY <1>2 DEF FilesOK
  <2>2. /\ r \in ScriptRun /\ r.step = "tar" /\ r.slug = script[w].slug
        /\ r.staged = conf[script[w].slug] /\ r.stamp = script[w].stamp
    BY <1>1, <1>2, <2>1 DEF ScriptRun
  <2>3. FilesOK'
    BY <1>2, <1>3, <1>5 DEF FilesOK
  <2>4. ScriptOK(r)'
    BY <1>2, <1>3, <2>2 DEF ScriptOK, MadeFirst, EditsWhole, StagedIsNow, IsArchived, WasMissing, Stamped
  <2>5. opsLock' = w <=> r.step \in Locking
    BY <1>2, <1>5, <2>2 DEF Locking
  <2> QED
    BY <1>2, <1>3, <1>5, <2>2, <2>3, <2>4, <2>5, ScriptMoves
<1> QED
  BY <1>1, <1>4, <1>5 DEF Stage

LEMMA TarStep ==
    ASSUME LifecycleInv, NEW w \in Runners, Tar(w)
    PROVE  LifecycleInv'
<1>1. PICK r : r = [script[w] EXCEPT !.step = "remove"]
  OBVIOUS
<1>2. /\ FilesOK /\ script[w] \in ScriptRun /\ script[w].slug \in Slugs /\ ScriptOK(script[w])
      /\ script[w].step = "tar" /\ script[w].step \in Locking /\ opsLock = w
  BY ScriptFacts DEF Tar, Locking
<1>3. UNCHANGED <<tree, conf, edits, gone>>
  BY DEF Tar
<1>4. script[w].stamp \in Seconds /\ script[w].staged \in Archives /\ Cut \in Archives
  BY <1>2 DEF ScriptOK, Stamped, ScriptRun, Archives
<1>5. ASSUME NEW c \in Archives, Archive(w, c)
      PROVE  archived' \in [Slugs -> [Seconds -> Archives]] /\ archived'[script[w].slug][script[w].stamp] = c
  BY <1>2, <1>4, <1>5 DEF Archive, FilesOK
<1>6. archived' \in [Slugs -> [Seconds -> Archives]]
  BY <1>4, <1>5 DEF Tar
<1>7. CASE Ends(w, FALSE)
  <2>1. FilesOK'
    BY <1>2, <1>3, <1>6, <1>7 DEF FilesOK, Ends
  <2> QED
    BY <1>2, <1>3, <1>7, <2>1, EndsStep
<1>8. CASE Archive(w, script[w].staged) /\ Step(w, r, FALSE) /\ UNCHANGED opsLock
  <2>1. /\ r \in ScriptRun /\ r.step = "remove" /\ r.op = script[w].op
        /\ r.slug = script[w].slug /\ r.staged = script[w].staged /\ r.stamp = script[w].stamp /\ r.raced = script[w].raced
    BY <1>1, <1>2, OnToFacts
  <2>2. FilesOK'
    BY <1>2, <1>3, <1>6, <1>8 DEF FilesOK
  <2>3. IsArchived(r)'
    BY <1>4, <1>5, <1>8, <2>1 DEF IsArchived
  <2>4. StagedIsNow(r)'
    BY <1>2, <1>3, <2>1 DEF ScriptOK, StagedIsNow
  <2>5. ScriptOK(r)'
    BY <1>4, <2>1, <2>3, <2>4 DEF ScriptOK, MadeFirst, EditsWhole, WasMissing, Stamped
  <2>6. opsLock' = w <=> r.step \in Locking
    BY <1>2, <1>8, <2>1 DEF Locking
  <2> QED
    BY <1>2, <1>3, <1>8, <2>1, <2>2, <2>5, <2>6, ScriptMoves
<1> QED
  BY <1>1, <1>7, <1>8 DEF Tar, CommandDone, OnTo

LEMMA RemoveFilesStep ==
    ASSUME LifecycleInv, NEW w \in Runners, RemoveFiles(w)
    PROVE  LifecycleInv'
<1>1. PICK r : r = [script[w] EXCEPT !.step = "rmdir"]
  OBVIOUS
<1>2. /\ FilesOK /\ script[w] \in ScriptRun /\ script[w].slug \in Slugs
      /\ script[w].step = "remove" /\ opsLock = w /\ ScriptOK(script[w])
  BY ScriptFacts DEF RemoveFiles, Locking
<1>3. /\ UNCHANGED <<tree, archived, opsLock, edits, gone>> /\ Step(w, r, TRUE)
      /\ conf' = [conf EXCEPT ![script[w].slug] = NoFile]
  BY <1>1 DEF RemoveFiles, OnTo, Writes
<1>4. /\ r \in ScriptRun /\ r.step = "rmdir" /\ r.op = script[w].op
      /\ r.slug = script[w].slug /\ r.staged = script[w].staged /\ r.stamp = script[w].stamp /\ r.raced = script[w].raced
  BY <1>1, <1>2, OnToFacts
<1>5. NoFile \in Confs
  BY LifecycleAssumption DEF Confs, NoFile
<1>6. FilesOK'
  BY <1>2, <1>3, <1>5 DEF FilesOK
<1>7. ScriptOK(r)'
  BY <1>2, <1>4 DEF ScriptOK, MadeFirst, EditsWhole, StagedIsNow, IsArchived, WasMissing, Stamped
<1>8. opsLock' = w <=> r.step \in Locking
  BY <1>2, <1>3, <1>4 DEF Locking
<1>9. \A s \in Slugs : conf'[s] # conf[s] => s = script[w].slug
  BY <1>2, <1>3 DEF FilesOK
<1> QED
  BY <1>2, <1>3, <1>4, <1>6, <1>7, <1>8, <1>9, ScriptMoves

LEMMA RemoveDirStep ==
    ASSUME LifecycleInv, NEW w \in Runners, RemoveDir(w)
    PROVE  LifecycleInv'
<1>1. /\ FilesOK /\ script[w].slug \in Slugs /\ script[w].step \in Locking
  BY ScriptFacts DEF RemoveDir, Locking
<1>2. UNCHANGED <<conf, archived, edits>> /\ Ends(w, TRUE)
  BY DEF RemoveDir
<1>3. tree' \subseteq Slugs /\ gone' \subseteq Slugs /\ \A s \in Slugs : conf[s] # NoFile => s \in tree'
  BY <1>1 DEF RemoveDir, FilesOK
<1>4. FilesOK'
  BY <1>1, <1>2, <1>3 DEF FilesOK, Ends
<1> QED
  BY <1>1, <1>2, <1>4, EndsStep

LEMMA SaveConfigStep ==
    ASSUME LifecycleInv, NEW w \in Runners, SaveConfig(w)
    PROVE  LifecycleInv'
<1>1. /\ FilesOK /\ script[w] \in ScriptRun /\ script[w].slug \in Slugs
  BY ScriptFacts DEF SaveConfig
<1>2. /\ UNCHANGED <<archived, edits, gone>> /\ Ends(w, TRUE)
      /\ tree' = tree \cup {script[w].slug} /\ conf' = [conf EXCEPT ![script[w].slug] = script[w].staged]
  BY DEF SaveConfig, Writes
<1>3. script[w].staged \in Confs
  BY <1>1 DEF ScriptRun
<1>4. FilesOK'
  BY <1>1, <1>2, <1>3 DEF FilesOK, Ends
<1>5. \A s \in Slugs : conf'[s] # conf[s] => s = script[w].slug
  BY <1>1, <1>2 DEF FilesOK
<1> QED
  BY <1>2, <1>4, <1>5, EndsStep

LEMMA KilledStep ==
    ASSUME LifecycleInv, NEW w \in Runners, Killed(w)
    PROVE  LifecycleInv'
<1>1. Ends(w, FALSE) /\ UNCHANGED <<tree, conf, archived, edits, gone>>
  BY DEF Killed
<1>2. FilesOK'
  BY <1>1, ScriptFacts DEF FilesOK, Ends
<1> QED
  BY <1>1, <1>2, EndsStep

(* The command keeps the lock, and what its script knew.                   *)
LEMMA TimesOutStep ==
    ASSUME LifecycleInv, NEW w \in Workers, TimesOut(w)
    PROVE  LifecycleInv'
<1>1. /\ FilesOK /\ script[w] \in ScriptRun /\ ScriptOK(script[w]) /\ w \in Runners
      /\ script[w].step # "idle" => script[w].slug \in Slugs
      /\ \A v \in Runners : opsLock = v <=> script[v].step \in Locking
  BY ScriptFacts DEF Runners
<1>2. script[w].step \in Locking /\ opsLock = w /\ opsLock' = Stray
  BY <1>1 DEF TimesOut
<1>3. NoScript \in ScriptRun /\ NoScript.step = "idle" /\ NoScript.step \notin Locking
  BY LifecycleAssumption DEF NoScript, ScriptRun, Confs, NoFile, Locking
<1>4. Stray \in Runners /\ Stray # w
  BY LifecycleAssumption DEF Runners
<1>5. /\ script' \in [Runners -> ScriptRun] /\ script'[w] = NoScript /\ script'[Stray] = script[w]
      /\ \A v \in Runners \ {w, Stray} : script'[v] = script[v]
  BY <1>1, <1>3, <1>4 DEF TimesOut, LifecycleInv, LifecycleTypeOK
<1>6. UNCHANGED <<tree, conf, archived, edits, gone>>
  BY DEF TimesOut
<1>7. \A v \in Runners : opsLock' = v <=> script'[v].step \in Locking
  BY <1>1, <1>2, <1>3, <1>4, <1>5
<1>8. \A v \in Runners : script'[v].step # "idle" => script'[v].slug \in Slugs
  BY <1>1, <1>3, <1>5 DEF LifecycleInv, LifecycleTypeOK
<1>9. LifecycleTypeOK'
  BY <1>1, <1>2, <1>4, <1>5, <1>6, <1>7, <1>8 DEF LifecycleTypeOK, FilesOK
<1>10. ASSUME NEW v \in Runners PROVE ScriptOK(script[v])'
  <2>1. PICK q \in ScriptRun : script'[v] = q /\ ScriptOK(q)
    <3>1. ScriptOK(NoScript)
      BY <1>3 DEF ScriptOK, MadeFirst, EditsWhole, StagedIsNow, IsArchived, WasMissing, Stamped
    <3>2. \A u \in Runners : ScriptOK(script[u]) /\ script[u] \in ScriptRun
      BY DEF LifecycleInv, LifecycleTypeOK
    <3> QED
      BY <1>1, <1>3, <1>5, <3>1, <3>2
  <2> QED
    BY <1>6, <2>1 DEF ScriptOK, MadeFirst, EditsWhole, StagedIsNow, IsArchived, WasMissing, Stamped
<1> QED
  BY <1>9, <1>10 DEF LifecycleInv

(* A request that begins: no other script notices.                         *)
LEMMA TakesStep ==
    ASSUME LifecycleInv, NEW w \in Runners, script[w].step = "idle", NEW r \in ScriptRun,
           script' = [script EXCEPT ![w] = r], r.slug \in Slugs,
           \/ r.step = "check" /\ (r.op # "provision" => r.stamp \in Seconds)
           \/ r.step = "save" /\ r.staged > Empty,
           FilesOK', tree \subseteq tree', UNCHANGED <<conf, archived, opsLock>>
    PROVE  LifecycleInv'
<1>1. script \in [Runners -> ScriptRun]
  BY DEF LifecycleInv, LifecycleTypeOK
<1>2. script' \in [Runners -> ScriptRun] /\ script'[w] = r /\ \A v \in Runners \ {w} : script'[v] = script[v]
  BY <1>1
<1>3. ScriptOK(r)'
  BY DEF ScriptOK, MadeFirst, EditsWhole, StagedIsNow, IsArchived, WasMissing, Stamped
<1>4. opsLock' = w <=> r.step \in Locking
  BY ScriptFacts DEF Locking
<1> QED
  BY <1>2, <1>3, <1>4, OneScriptStep
-----------------------------------------------------------------------------
LEMMA AdminRequestStep ==
    ASSUME AdminsInv, tree \subseteq Slugs, NEW w \in Workers, Free(w), AdminRequest(w)
    PROVE  AdminsInv'
<1>1. adm[w].step = "idle"
  BY DEF Free
<1>2. PICK u \in Admins :
        \/ Setup(w, u)
        \/ \E by \in Admins, owner \in BOOLEAN, grants \in SUBSET tree :
              New(w, by, u, owner, grants) \/ Edit(w, by, u, owner, grants)
        \/ \E by \in Admins : Delete(w, by, u)
        \/ Known(u) /\ (NewPassword(w, u) \/ SetTotp(w, u))
  BY DEF AdminRequest
<1>3. CASE Setup(w, u)
  <2>1. Begin(w, "load", "new", u, TRUE, {}) /\ ~Known(u)
    BY <1>3 DEF Setup, Known
  <2>2. TRUE \in BOOLEAN /\ {} \in SUBSET Slugs
    OBVIOUS
  <2> QED
    BY <1>1, <2>1, <2>2, BeginStep
<1>4. CASE \E by \in Admins, owner \in BOOLEAN, grants \in SUBSET tree :
             New(w, by, u, owner, grants) \/ Edit(w, by, u, owner, grants)
  <2>1. PICK by \in Admins, owner \in BOOLEAN, grants \in SUBSET tree :
             New(w, by, u, owner, grants) \/ Edit(w, by, u, owner, grants)
    BY <1>4
  <2>2. grants \in SUBSET Slugs
    OBVIOUS
  <2>3. CASE Begin(w, "look", "new", u, owner, grants)
    BY <1>1, <2>2, <2>3, BeginStep
  <2>4. CASE Begin(w, "look", "edit", u, owner, grants)
    BY <1>1, <2>2, <2>4, BeginStep
  <2> QED
    BY <2>1, <2>3, <2>4 DEF New, Edit
<1>5. CASE \E by \in Admins : Delete(w, by, u)
  <2>1. Begin(w, "look", "delete", u, FALSE, {})
    BY <1>5 DEF Delete
  <2>2. FALSE \in BOOLEAN /\ {} \in SUBSET Slugs
    OBVIOUS
  <2> QED
    BY <1>1, <2>1, <2>2, BeginStep
<1>6. CASE NewPassword(w, u) \/ SetTotp(w, u)
  <2>1. FALSE \in BOOLEAN /\ {} \in SUBSET Slugs
    OBVIOUS
  <2>2. CASE Begin(w, "look", "password", u, FALSE, {})
    BY <1>1, <2>1, <2>2, BeginStep
  <2>3. CASE Begin(w, "load", "totp", u, FALSE, {})
    BY <1>1, <2>1, <2>3, BeginStep
  <2> QED
    BY <1>6, <2>2, <2>3 DEF NewPassword, SetTotp
<1> QED
  BY <1>2, <1>3, <1>4, <1>5, <1>6

LEMMA ViewStep ==
    ASSUME LifecycleInv, NEW w \in Workers, NEW s \in Slugs, View(w, s)
    PROVE  LifecycleInv'
<1>1. UNCHANGED <<conf, archived, opsLock, script, edits, gone>> /\ tree' = tree \cup {s}
  BY DEF View
<1>2. LifecycleTypeOK'
  BY <1>1 DEF LifecycleInv, LifecycleTypeOK
<1>3. (\A v \in Runners : ScriptOK(script[v]))'
  BY <1>1 DEF LifecycleInv, ScriptOK, MadeFirst, EditsWhole, StagedIsNow, IsArchived, WasMissing, Stamped
<1> QED
  BY <1>2, <1>3 DEF LifecycleInv

LEMMA CustomerRequestStep ==
    ASSUME LifecycleInv, NEW w \in Workers, Free(w), CustomerRequest(w)
    PROVE  LifecycleInv'
<1>1. FilesOK /\ script[w].step = "idle" /\ w \in Runners
  BY ScriptFacts DEF Free, Runners
<1>2. PICK s \in Slugs : Provision(w, s) \/ Deprovision(w, s) \/ View(w, s) \/ LoadConfig(w, s)
  BY DEF CustomerRequest
<1>3. ASSUME NEW op \in {"provision", "deprovision"}, NEW t \in 0 .. MaxSeconds, Takes(w, op, s, t),
             op # "provision" => t \in Seconds,
             UNCHANGED <<tree, conf, archived, opsLock, edits, gone>>
      PROVE  LifecycleInv'
  <2>1. PICK r : r = [NoScript EXCEPT !.step = "check", !.op = op, !.slug = s, !.stamp = t]
    OBVIOUS
  <2>2. r \in ScriptRun /\ r.step = "check" /\ r.slug = s /\ r.op = op /\ r.stamp = t
    <3>1. NoFile \in Confs
      BY LifecycleAssumption DEF Confs, NoFile
    <3> QED
      BY <2>1, <3>1 DEF NoScript, ScriptRun
  <2>3. FilesOK'
    BY <1>1, <1>3 DEF FilesOK
  <2>4. script' = [script EXCEPT ![w] = r]
    BY <1>3, <2>1 DEF Takes
  <2> QED
    BY <1>1, <1>3, <2>2, <2>3, <2>4, TakesStep
<1>4. CASE LoadConfig(w, s)
  <2>1. PICK r : r = [NoScript EXCEPT !.step = "save", !.op = "edit", !.slug = s, !.staged = Empty + edits + 1]
    OBVIOUS
  <2>2. edits \in 0 .. MaxEdits /\ edits < MaxEdits /\ edits' = edits + 1
    BY <1>1, <1>4 DEF FilesOK, LoadConfig
  <2>3. Empty + edits + 1 \in Confs /\ Empty + edits + 1 > Empty
    BY <2>2, LifecycleAssumption DEF Confs, Empty
  <2>4. r \in ScriptRun /\ r.step = "save" /\ r.slug = s /\ r.staged > Empty
    <3>1. NoFile \in Confs /\ 0 \in 0 .. MaxSeconds
      BY LifecycleAssumption DEF Confs, NoFile
    <3> QED
      BY <2>1, <2>3, <3>1 DEF NoScript, ScriptRun
  <2>5. /\ UNCHANGED <<conf, archived, opsLock, gone>> /\ tree' = tree \cup {s}
        /\ script' = [script EXCEPT ![w] = r]
    BY <1>4, <2>1 DEF LoadConfig
  <2>6. edits' \in 0 .. MaxEdits
    BY <2>2, LifecycleAssumption
  <2>7. FilesOK'
    BY <1>1, <2>5, <2>6 DEF FilesOK
  <2> QED
    BY <1>1, <2>4, <2>5, <2>7, TakesStep
<1>5. CASE View(w, s)
  BY <1>5, ViewStep
<1> QED
  <2>1. CASE Provision(w, s)
    BY <1>3, <2>1, LifecycleAssumption DEF Provision
  <2>2. CASE Deprovision(w, s)
    <3>1. PICK t \in Seconds : Takes(w, "deprovision", s, t)
      BY <2>2 DEF Deprovision
    <3>2. t \in 0 .. MaxSeconds
      BY LifecycleAssumption DEF Seconds
    <3> QED
      BY <1>3, <2>2, <3>1, <3>2 DEF Deprovision
  <2> QED
    BY <1>2, <1>4, <1>5, <2>1, <2>2

(* The parts of the console leave each other alone.                        *)
LEMMA AdminsFrame ==
    ASSUME AdminsInv, UNCHANGED <<admins, adm>>
    PROVE  AdminsInv'
  BY DEF AdminsInv, AdminsTypeOK, RequestOK, Asked, CopyIsFile, CopyIsFresh, NewIsFree, OwnerLeft, Known, Owners

LEMMA LifecycleFrame ==
    ASSUME LifecycleInv, UNCHANGED lifeVars
    PROVE  LifecycleInv'
  BY DEF LifecycleInv, LifecycleTypeOK, lifeVars, ScriptOK, MadeFirst, EditsWhole, StagedIsNow, IsArchived, WasMissing, Stamped

LEMMA IInvInit == Init => IInv
<1> SUFFICES ASSUME Init PROVE IInv
  OBVIOUS
<1>1. AdminsInv
  <2>1. NoAdm \in AdmRequest /\ NoAdm.step = "idle" /\ NoAdm.op = "none"
    BY DEF NoAdm, AdmRequest
  <2>2. RequestOK(NoAdm)
    BY <2>1 DEF RequestOK, Asked, CopyIsFile, CopyIsFresh, NewIsFree, OwnerLeft
  <2>3. adm \in [Workers -> AdmRequest] /\ \A w \in Workers : adm[w] = NoAdm
    BY <2>1 DEF Init, AdminsInit
  <2>4. admins \in AdminFiles /\ \A u \in DOMAIN admins : admins[u].owner => admins[u].grants = {}
    BY AdminsAssumption DEF Init, AdminsInit
  <2> QED
    BY <2>1, <2>2, <2>3, <2>4 DEF AdminsInv, AdminsTypeOK
<1>2. LifecycleInv
  <2>1. NoScript \in ScriptRun /\ NoScript.step = "idle"
    BY LifecycleAssumption DEF NoScript, ScriptRun, Confs, NoFile
  <2>2. ScriptOK(NoScript)
    BY <2>1 DEF ScriptOK, MadeFirst, EditsWhole, StagedIsNow, IsArchived, WasMissing, Stamped
  <2>3. script \in [Runners -> ScriptRun] /\ \A w \in Runners : script[w] = NoScript
    BY <2>1 DEF Init, LifecycleInit
  <2>4. Empty \in Confs /\ NoFile \in Confs /\ Empty # NoFile
    BY LifecycleAssumption DEF Confs, Empty, NoFile
  <2>5. tree \subseteq Slugs /\ conf \in [Slugs -> Confs] /\ \A s \in Slugs : conf[s] # NoFile => s \in tree
    BY <2>4 DEF Init, LifecycleInit
  <2>6. archived \in [Slugs -> [Seconds -> Archives]] /\ edits \in 0 .. MaxEdits /\ gone \subseteq Slugs /\ opsLock = Nobody
    BY <2>4, LifecycleAssumption DEF Init, LifecycleInit, Archives
  <2>7. \A w \in Runners : opsLock = w <=> script[w].step \in Locking
    BY <2>1, <2>3, <2>6, NobodyRuns DEF Locking
  <2> QED
    BY <2>1, <2>2, <2>3, <2>5, <2>6, <2>7 DEF LifecycleInv, LifecycleTypeOK
<1> QED
  BY <1>1, <1>2, RequestsAssumption DEF IInv, Init

LEMMA IInvStep == IInv /\ [Next]_vars => IInv'
<1> SUFFICES ASSUME IInv, [Next]_vars PROVE IInv'
  OBVIOUS
<1> USE DEF IInv
<1>1. ASSUME NEW w \in Workers, Request(w) PROVE IInv'
  <2>1. Free(w) /\ requests < MaxRequests /\ requests' = requests + 1 /\ (AdminRequest(w) \/ CustomerRequest(w))
    BY <1>1 DEF Request
  <2>2. requests' \in 0 .. MaxRequests
    BY <2>1, RequestsAssumption
  <2>3. CASE AdminRequest(w)
    <3>1. AdminsInv'
      BY <2>1, <2>3, AdminRequestStep DEF LifecycleInv, LifecycleTypeOK
    <3>2. LifecycleInv'
      BY <2>3, LifecycleFrame DEF AdminRequest
    <3> QED
      BY <2>2, <3>1, <3>2
  <2>4. CASE CustomerRequest(w)
    <3>1. AdminsInv'
      BY <2>4, AdminsFrame DEF CustomerRequest
    <3>2. LifecycleInv'
      BY <2>1, <2>4, CustomerRequestStep
    <3> QED
      BY <2>2, <3>1, <3>2
  <2> QED
    BY <2>1, <2>3, <2>4
<1>2. ASSUME NEW w \in Workers, Administer(w) \/ AdmDies(w), UNCHANGED lifeVars, UNCHANGED requests
      PROVE  IInv'
  <2>1. AdminsInv'
    BY <1>2, LookStep, CountStep, LoadAdminsStep, SaveAdminsStep, AnsweredStep DEF Administer, AdmDies
  <2> QED
    BY <1>2, <2>1, LifecycleFrame
<1>3. ASSUME NEW w \in Runners, Script(w) \/ Killed(w) \/ (w \in Workers /\ TimesOut(w)), UNCHANGED <<admins, adm>>, UNCHANGED requests
      PROVE  IInv'
  <2>1. LifecycleInv'
    BY <1>3, CheckStep, TakeOpsLockStep, GiveUpStep, MakeDirsStep, CopyExampleStep, TrimStep, StageStep,
       TarStep, RemoveFilesStep, RemoveDirStep, SaveConfigStep, KilledStep, TimesOutStep DEF Script, Command
  <2> QED
    BY <1>3, <2>1, AdminsFrame
<1>4. CASE UNCHANGED vars
  BY <1>4, AdminsFrame, LifecycleFrame DEF vars, lifeVars
<1> QED
  BY <1>1, <1>2, <1>3, <1>4 DEF Next, Serve, Dies, LeftBehind, StrayDies, Script, Runners

(* Every state the console gets into is one of its types; with them, an    *)
(* owner has no grants (auth.py:91, 101) and the lock of provisioning is   *)
(* held exactly by who is in its section, the command that a time-out has  *)
(* left behind (actions.py:47) included.                                   *)
THEOREM ConsoleTypeCorrect == Spec => []TypeOK
<1>1. IInv => TypeOK
  BY DEF IInv, TypeOK, AdminsInv, LifecycleInv
<1> QED
  BY <1>1, IInvInit, IInvStep, PTL DEF Spec
-----------------------------------------------------------------------------
(* Who saves without having been raced has counted another owner, or adds  *)
(* to a file in which there is one; so the last owner goes only when two   *)
(* requests overlap (app.py:1000, 1019, 221-223).                          *)
THEOREM LastOwnerStays == Spec => LastOwnerOnlyRaced
<1> DEFINE A == Owners(admins) # {} /\ Owners(admins') = {} =>
                  \E w \in Workers : adm[w].step = "save" /\ adm'[w].step = "idle" /\ adm[w].raced
<1>1. IInv /\ [Next]_vars => [A]_<<admins, adm>>
  <2> SUFFICES ASSUME IInv, [Next]_vars PROVE A
    OBVIOUS
  <2>1. CASE UNCHANGED admins
    BY <2>1
  <2>2. CASE \E w \in Workers : SaveAdmins(w)
    <3>1. PICK w \in Workers : SaveAdmins(w)
      BY <2>2
    <3>2. /\ adm[w] \in AdmRequest /\ RequestOK(adm[w]) /\ adm[w].step = "save"
          /\ admins' = Changed(adm[w]) /\ adm'[w] = NoAdm
      BY <3>1 DEF SaveAdmins, IInv, AdminsInv, AdminsTypeOK
    <3>3. CASE adm[w].raced
      BY <3>2, <3>3 DEF NoAdm
    <3>4. CASE ~adm[w].raced /\ Owners(admins) # {}
      <4>1. /\ adm[w].copy \in AdminFiles /\ adm[w].op # "none" /\ adm[w].copy = admins
            /\ adm[w].op \notin {"new", "delete"} => adm[w].user \in DOMAIN adm[w].copy
            /\ adm[w].op = "delete" => ~adm[w].owner
        BY <3>2, <3>4 DEF RequestOK, Asked, CopyIsFile, CopyIsFresh
      <4>2. adm[w].op = "new" => adm[w].user \notin DOMAIN adm[w].copy
        BY <3>2, <3>4, <4>1 DEF RequestOK, NewIsFree, Known
      <4>3. adm[w].op \in {"edit", "delete"} /\ ~adm[w].owner => Owners(adm[w].copy) # {adm[w].user}
        BY <3>2, <3>4, <4>1 DEF RequestOK, OwnerLeft
      <4>4. Owners(admins') # {}
        BY <3>2, <3>4, <4>1, <4>2, <4>3, ChangedKeepsOwner
      <4> QED
        BY <4>4
    <3> QED
      BY <3>3, <3>4
  <2>3. UNCHANGED admins \/ \E w \in Workers : SaveAdmins(w)
    <3>1. ASSUME NEW w \in Workers, AdminRequest(w) PROVE UNCHANGED admins
      BY <3>1 DEF AdminRequest, Setup, New, Edit, Delete, NewPassword, SetTotp, Begin
    <3>2. ASSUME NEW w \in Workers, Look(w) \/ Count(w) \/ LoadAdmins(w) \/ AdmDies(w) PROVE UNCHANGED admins
      BY <3>2 DEF Look, Count, LoadAdmins, AdmDies
    <3> QED
      BY <3>1, <3>2 DEF Next, Request, CustomerRequest, Serve, Dies, LeftBehind, StrayDies, Administer, vars
  <2> QED
    BY <2>1, <2>2, <2>3
<1>2. Spec => [][A]_<<admins, adm>>
  BY <1>1, IInvInit, IInvStep, PTL DEF Spec
<1> QED
  BY <1>2 DEF LastOwnerOnlyRaced

(* Who writes a configuration.                                             *)
LEMMA ConfWriters ==
    ASSUME [Next]_vars, conf' # conf
    PROVE  \E w \in Runners : CopyExample(w) \/ Trim(w) \/ RemoveFiles(w) \/ SaveConfig(w)
<1>1. ASSUME NEW w \in Workers, CustomerRequest(w) PROVE UNCHANGED conf
  BY <1>1 DEF CustomerRequest, Provision, Deprovision, View, LoadConfig
<1>2. ASSUME NEW w \in Runners,
             Check(w) \/ TakeOpsLock(w) \/ GiveUp(w) \/ MakeDirs(w) \/ Stage(w) \/ Tar(w) \/ RemoveDir(w) \/ Killed(w) \/ TimesOut(w)
      PROVE  UNCHANGED conf
  BY <1>2 DEF Check, TakeOpsLock, GiveUp, MakeDirs, Stage, Tar, RemoveDir, Killed, TimesOut
<1> QED
  BY <1>1, <1>2 DEF Next, Request, AdminRequest, Serve, Dies, LeftBehind, StrayDies, Script, Command, Runners, vars, lifeVars

(* What the writer knows, and what it writes.                              *)
LEMMA ConfWritten ==
    ASSUME IInv, [Next]_vars, NEW s \in Slugs, conf'[s] # conf[s]
    PROVE  \E w \in Runners :
             /\ script[w].slug = s /\ ScriptOK(script[w])
             /\ \/ script[w].step = "copy" /\ conf'[s] = Example
                \/ script[w].step = "trim" /\ conf'[s] = Empty
                \/ script[w].step = "remove" /\ conf'[s] = NoFile
                \/ script[w].step = "save" /\ conf'[s] > Empty
<1>1. PICK w \in Runners : CopyExample(w) \/ Trim(w) \/ RemoveFiles(w) \/ SaveConfig(w)
  BY ConfWriters
<1>2. conf \in [Slugs -> Confs] /\ script[w].slug \in Slugs /\ ScriptOK(script[w])
  BY <1>1, ScriptFacts DEF IInv, FilesOK, CopyExample, Trim, RemoveFiles, SaveConfig
<1>3. CASE CopyExample(w)
  BY <1>2, <1>3 DEF CopyExample, Writes
<1>4. CASE Trim(w)
  BY <1>2, <1>4 DEF Trim, Writes
<1>5. CASE RemoveFiles(w)
  BY <1>2, <1>5 DEF RemoveFiles, Writes
<1>6. CASE SaveConfig(w)
  BY <1>2, <1>6 DEF SaveConfig, Writes, ScriptOK, EditsWhole
<1> QED
  BY <1>1, <1>3, <1>4, <1>5, <1>6

(* A configuration goes only after it was put into the archive, as it was  *)
(* when nobody changed it in between                                       *)
(* (msp-deprovision-customer.sh:3-4, 75-83).                             *)
THEOREM NothingDeletedOutright == Spec => RemovedIsArchived
<1> DEFINE A == \A s \in Slugs : conf[s] # NoFile /\ conf'[s] = NoFile =>
                  \E w \in Runners :
                      /\ script[w].slug = s /\ script[w].step = "remove"
                      /\ archived[s][script[w].stamp] = script[w].staged
                      /\ conf[s] = script[w].staged \/ script[w].raced
<1>1. IInv /\ [Next]_vars => [A]_lifeVars
  <2> SUFFICES ASSUME IInv, [Next]_vars, NEW s \in Slugs, conf[s] # NoFile, conf'[s] = NoFile
               PROVE  \E w \in Runners :
                          /\ script[w].slug = s /\ script[w].step = "remove"
                          /\ archived[s][script[w].stamp] = script[w].staged
                          /\ conf[s] = script[w].staged \/ script[w].raced
    OBVIOUS
  <2>1. PICK w \in Runners : /\ script[w].slug = s /\ ScriptOK(script[w])
                             /\ script[w].step = "remove"
    BY ConfWritten DEF NoFile, Example, Empty
  <2> QED
    BY <2>1 DEF ScriptOK, StagedIsNow, IsArchived
<1>2. Spec => [][A]_lifeVars
  BY <1>1, IInvInit, IInvStep, PTL DEF Spec
<1> QED
  BY <1>2 DEF RemovedIsArchived

(* The example replaces a configuration only when another worker made that *)
(* customer since this script had looked for it                            *)
(* (msp-provision-customer.sh:65-68, 102).                               *)
THEOREM ExistingNotOverwritten == Spec => OverwrittenOnlyRaced
<1> DEFINE A == \A s \in Slugs : conf[s] \notin {NoFile, Example} /\ conf'[s] = Example =>
                  \E w \in Runners : script[w].slug = s /\ script[w].step = "copy" /\ script[w].raced
<1>1. IInv /\ [Next]_vars => [A]_lifeVars
  <2> SUFFICES ASSUME IInv, [Next]_vars, NEW s \in Slugs, conf[s] \notin {NoFile, Example}, conf'[s] = Example
               PROVE  \E w \in Runners : script[w].slug = s /\ script[w].step = "copy" /\ script[w].raced
    OBVIOUS
  <2>1. PICK w \in Runners : /\ script[w].slug = s /\ ScriptOK(script[w])
                             /\ script[w].step = "copy"
    BY ConfWritten DEF NoFile, Example, Empty
  <2> QED
    BY <2>1 DEF ScriptOK, WasMissing
<1>2. Spec => [][A]_lifeVars
  BY <1>1, IInvInit, IInvStep, PTL DEF Spec
<1> QED
  BY <1>2 DEF OverwrittenOnlyRaced
=============================================================================
