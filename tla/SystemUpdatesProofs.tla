------------------------- MODULE SystemUpdatesProofs -------------------------
(***************************************************************************)
(* SystemUpdates adds to RenewJobs and changes nothing in it: every        *)
(* behaviour of the two together is one of RenewJobs, which carries the    *)
(* theorems about the lock files over.  Then type correctness and what the *)
(* updates page shows.                                                     *)
(***************************************************************************)
EXTENDS SystemUpdates, RenewJobsProofs

(* A step of the page is a stutter of RenewJobs; all others are steps of   *)
(* it.                                                                     *)
LEMMA SysStepIsStep == SysNext => [Next]_vars
<1> SUFFICES ASSUME SysNext PROVE [Next]_vars
  OBVIOUS
<1>1. ASSUME NEW w \in Workers, ServeButton(w) PROVE Next
  BY <1>1 DEF ServeButton, Next
<1>2. ASSUME NEW w \in Workers, ServePage(w) PROVE UNCHANGED vars
  BY <1>2 DEF ServePage, OpenPage, AskCheck, AskApply, AskReboot, Asks, LookForUpdate, StartCheck,
              StartUpdate, StartFails, Answer, ReadPage, AskDies
<1>3. OthersRun => Next
  BY DEF OthersRun, Next
<1>4. RunCheck \/ RunUpdate \/ UnitKilled => UNCHANGED vars
  BY DEF RunCheck, RunUpdate, LockUpdate, DnfUpdate, RecordUpdate, EndUpdate, UnitKilled
<1>5. RestartWebUI \/ RebootAll => Next
  BY DEF RestartWebUI, RebootAll, Next
<1> QED
  BY <1>1, <1>2, <1>3, <1>4, <1>5 DEF SysNext

(* Beside the updates page and a reboot the buttons and their jobs do      *)
(* nothing they would not do alone (webui/app.py:144-198, 340-410).        *)
THEOREM SysImplementsJobs == SysSpec => Spec
<1>1. SysInit => Init
  BY DEF SysInit
<1>2. [SysNext]_allVars => [Next]_vars
  BY SysStepIsStep DEF allVars
<1> QED
  BY <1>1, <1>2, PTL DEF SysSpec, Spec

(* With one worker the lock files exclude the jobs of two buttons and stay *)
(* while a job runs (app.py:173-186, 189-198), also beside the updates     *)
(* page and a reboot.                                                      *)
THEOREM BesideUpdatesLocksHold ==
    ASSUME SingleInstance
    PROVE  SysSpec => []ButtonsExclusive /\ []RunningIsLocked
<1>1. Spec => []ButtonsExclusive
  BY OneWorkerButtonsExclusive
<1>2. Spec => []RunningIsLocked
  BY OneWorkerRunningIsLocked
<1> QED
  BY <1>1, <1>2, SysImplementsJobs, PTL
-----------------------------------------------------------------------------
(* The output is replaced first, so no other file is of a later check; the *)
(* exit code, where there is one, is written before the time.              *)
FilesOrdered ==
    /\ Honest(files) /\ files.out <= units
    /\ check \in {"clear_stamp", "stamp"} => files.code \in {0, files.out}

(* What a request has read is no later than what it is to read next, which *)
(* only becomes later, or empty where that is honest.                      *)
SeenOrdered == \A w \in Workers :
    /\ ask[w].step = "code" =>
        /\ ask[w].seen.at <= files.out
        /\ files.code = 0 \/ ask[w].seen.at <= files.code
    /\ ask[w].step = "out" =>
        /\ ask[w].seen.at <= files.out /\ ask[w].seen.code <= files.out
        /\ ask[w].seen.code = 0 \/ ask[w].seen.at <= ask[w].seen.code
    /\ ask[w].step = "shown" => Honest(ask[w].seen)

PageInv == TypeOK /\ Served /\ SysTypeOK /\ FilesOrdered /\ SeenOrdered

(* SysTypeOK in two parts, as the provers want their Booleans apart.       *)
PageTyped ==
    /\ check \in CheckSteps /\ files \in FileSet
    /\ units \in 0 .. MaxUnits /\ ask \in [Workers -> Ask]
    /\ \A w \in Workers : ask[w].step # "idle" => pc[w] = "idle"

UpdateTyped ==
    /\ upd \in UpdateSteps /\ updLock \in BOOLEAN
    /\ status \in {"none", "ok", "failed"}
    /\ upd \in UpdateSteps \ {"off", "lock"} => updLock

LEMMA TypedInParts == SysTypeOK <=> PageTyped /\ UpdateTyped
BY DEF SysTypeOK, PageTyped, UpdateTyped

LEMMA NoAskFacts ==
    /\ NoFiles \in FileSet /\ NoAsk \in Ask
    /\ NoAsk.step = "idle" /\ NoAsk.op = "none"
    /\ NoFiles.at = 0 /\ NoFiles.code = 0 /\ NoFiles.out = 0
BY UnitsAssumption DEF NoFiles, NoAsk, FileSet, Ask

LEMMA PageInit == SysInit => PageInv
<1> SUFFICES ASSUME SysInit PROVE PageInv
  OBVIOUS
<1>1. TypeOK /\ Served
  BY TypeInit DEF SysInit, Init, Served
<1>2. SysTypeOK
  <2>1. files \in FileSet /\ ask \in [Workers -> Ask] /\ \A w \in Workers : pc[w] = "idle"
    BY NoAskFacts DEF SysInit, Init
  <2>2. units \in 0 .. MaxUnits
    BY UnitsAssumption DEF SysInit
  <2> QED
    BY <2>1, <2>2 DEF SysInit, SysTypeOK, CheckSteps, UpdateSteps
<1>3. FilesOrdered /\ SeenOrdered
  BY NoAskFacts, UnitsAssumption DEF SysInit, FilesOrdered, SeenOrdered, Honest
<1> QED
  BY <1>1, <1>2, <1>3 DEF PageInv

Steps == {"idle", "look", "start", "wait", "answer", "at", "code", "out", "shown"}

LEMMA AskMoves ==
    ASSUME ask \in [Workers -> Ask], NEW w \in Workers, NEW step \in Steps, OnTo(w, step)
    PROVE  /\ ask' \in [Workers -> Ask] /\ ask'[w].step = step
           /\ \A v \in Workers \ {w} : ask'[v] = ask[v]
<1>1. [ask[w] EXCEPT !.step = step] \in Ask /\ [ask[w] EXCEPT !.step = step].step = step
  BY DEF Ask, Steps
<1>2. ask' = [ask EXCEPT ![w] = [ask[w] EXCEPT !.step = step]]
  BY DEF OnTo
<1> QED
  BY <1>1, <1>2

(* Who waited for a unit has an answer, all others are where they were.    *)
Told == /\ ask' \in [Workers -> Ask]
        /\ \A w \in Workers :
            /\ ask'[w].step = ask[w].step \/ (ask[w].step = "wait" /\ ask'[w].step = "answer")
            /\ ask'[w].seen = ask[w].seen

LEMMA TellsTold ==
    ASSUME ask \in [Workers -> Ask], NEW op, Tells(op)
    PROVE  Told
<1>1. \A a \in Ask : [a EXCEPT !.step = "answer"] \in Ask
  BY DEF Ask
<1>2. \A a \in Ask : [a EXCEPT !.step = "answer"].seen = a.seen
                  /\ [a EXCEPT !.step = "answer"].step = "answer"
  BY DEF Ask
<1>3. \A w \in Workers : ask'[w] = IF ask[w].step = "wait" /\ ask[w].op = op
                                  THEN [ask[w] EXCEPT !.step = "answer"] ELSE ask[w]
  BY DEF Tells
<1>4. DOMAIN ask' = Workers /\ ask' = [w \in Workers |-> ask'[w]]
  BY DEF Tells
<1>5. \A w \in Workers :
        /\ ask'[w] \in Ask /\ ask'[w].seen = ask[w].seen
        /\ ask'[w].step = ask[w].step \/ (ask[w].step = "wait" /\ ask'[w].step = "answer")
  <2> SUFFICES ASSUME NEW w \in Workers
               PROVE  /\ ask'[w] \in Ask /\ ask'[w].seen = ask[w].seen
                      /\ ask'[w].step = ask[w].step \/ (ask[w].step = "wait" /\ ask'[w].step = "answer")
    OBVIOUS
  <2>1. CASE ask[w].step = "wait" /\ ask[w].op = op
    <3>1. ask'[w] = [ask[w] EXCEPT !.step = "answer"] /\ ask[w] \in Ask
      BY <1>3, <2>1
    <3> QED
      BY <1>1, <1>2, <2>1, <3>1, Zenon
  <2>2. CASE ~(ask[w].step = "wait" /\ ask[w].op = op)
    <3>1. ask'[w] = ask[w] /\ ask[w] \in Ask
      BY <1>3, <2>2
    <3> QED
      BY <3>1
  <2> QED
    BY <2>1, <2>2
<1> QED
  BY <1>4, <1>5 DEF Told

(* What the page and a check are about.                                    *)
LEMMA PagePartStep == PageInv /\ [SysNext]_allVars => (PageTyped /\ FilesOrdered /\ SeenOrdered)'
<1> SUFFICES ASSUME PageInv, [SysNext]_allVars PROVE (PageTyped /\ FilesOrdered /\ SeenOrdered)'
  OBVIOUS
<1> DEFINE Page == PageTyped /\ FilesOrdered /\ SeenOrdered
<1>b. Page
  BY TypedInParts DEF PageInv
<1>c. pc \in [Workers -> {"idle", "checked", "locked"}]
  BY DEF PageInv, TypeOK
<1>d. /\ units \in 0 .. MaxUnits /\ files.out <= units
      /\ files.out \in Nat /\ files.code \in Nat /\ files.at \in Nat /\ units \in Nat
      /\ files.out <= MaxUnits /\ 0 \in 0 .. MaxUnits
  <2>1. files \in FileSet /\ units \in 0 .. MaxUnits /\ files.out <= units
    BY <1>b DEF PageTyped, FilesOrdered
  <2> QED
    BY <2>1, UnitsAssumption DEF FileSet
<1>e. \A v \in Workers : /\ ask[v].seen.out \in Nat /\ ask[v].seen.code \in Nat
                          /\ ask[v].seen.at \in Nat
  BY <1>b, UnitsAssumption DEF PageTyped, Ask, FileSet
<1> USE DEF PageTyped, CheckSteps, FilesOrdered, SeenOrdered, Honest, unitVars, vars, sysVars
<1>1. ASSUME NEW w \in Workers, ServeButton(w) PROVE Page'
  <2>1. ask[w].step = "idle" /\ UNCHANGED sysVars
    BY <1>1 DEF ServeButton
  <2>2. \A v \in Workers : v # w => pc'[v] = pc[v]
    BY <1>1, <1>c DEF ServeButton, Press, Serve, WriteLock, Spawn, SpawnFails, WorkerDies, Answered
  <2> QED
    BY <1>b, <2>1, <2>2
<1>2. ASSUME NEW w \in Workers, NEW op \in {"page", "check", "apply", "reboot"},
             NEW step \in {"look", "start", "at"}, Asks(w, op, step)
      PROVE  Page'
  <2>1. [NoAsk EXCEPT !.op = op, !.step = step] \in Ask
    BY NoAskFacts DEF Ask
  <2>2. ask'[w].step = step
    BY <1>b, <1>2, NoAskFacts DEF Asks, Ask
  <2> QED
    BY <1>b, <1>2, <2>1, <2>2 DEF Asks
<1>3. ASSUME NEW w \in Workers, ask[w].step # "idle", OnTo(w, "start") \/ Done(w), UNCHANGED <<unitVars, vars>>
      PROVE  Page'
  <2>1. CASE OnTo(w, "start")
    <3>1. ask' \in [Workers -> Ask] /\ ask'[w].step = "start" /\ \A v \in Workers \ {w} : ask'[v] = ask[v]
      BY <1>b, <2>1, AskMoves DEF Steps
    <3> QED
      BY <1>b, <1>3, <3>1
  <2>2. CASE Done(w)
    BY <1>b, <1>3, <2>2, NoAskFacts DEF Done
  <2> QED
    BY <1>3, <2>1, <2>2
<1>4. ASSUME NEW w \in Workers, StartCheck(w) PROVE Page'
  <2>1. units' \in 0 .. MaxUnits /\ units <= units'
    BY <1>d, <1>4, UnitsAssumption DEF StartCheck
  <2>2. ask' \in [Workers -> Ask] /\ ask'[w].step = "wait" /\ \A v \in Workers \ {w} : ask'[v] = ask[v]
    BY <1>b, <1>4, AskMoves DEF StartCheck, Steps
  <2>3. ask[w].step = "start"
    BY <1>4 DEF StartCheck
  <2>4. UNCHANGED <<files, pc>> /\ check' \in {check, "dnf"}
    BY <1>4 DEF StartCheck
  <2>5. PageTyped' /\ SeenOrdered'
    BY <1>b, <2>1, <2>2, <2>3, <2>4
  <2>6. FilesOrdered'
    BY <1>b, <1>d, <2>1, <2>4
  <2> QED
    BY <2>5, <2>6
<1>5. ASSUME NEW w \in Workers, StartUpdate(w) PROVE Page'
  <2>1. units' \in 0 .. MaxUnits /\ units <= units'
    BY <1>d, <1>5, UnitsAssumption DEF StartUpdate
  <2>2. ask' \in [Workers -> Ask] /\ ask'[w].step = "wait" /\ \A v \in Workers \ {w} : ask'[v] = ask[v]
    BY <1>b, <1>5, AskMoves DEF StartUpdate, Steps
  <2>3. ask[w].step = "start"
    BY <1>5 DEF StartUpdate
  <2>4. UNCHANGED <<files, pc>> /\ check' = check
    BY <1>5 DEF StartUpdate
  <2>5. PageTyped' /\ SeenOrdered'
    BY <1>b, <2>1, <2>2, <2>3, <2>4
  <2>6. FilesOrdered'
    BY <1>b, <1>d, <2>1, <2>4
  <2> QED
    BY <2>5, <2>6
<1>6. ASSUME NEW w \in Workers, ReadPage(w) PROVE Page'
  <2>1. CASE ask[w].step = "at" /\ ask' = [ask EXCEPT ![w].seen.at = files.at, ![w].step = "code"]
    BY <1>b, <1>6, <2>1 DEF ReadPage, Ask, FileSet
  <2>2. CASE ask[w].step = "code" /\ ask' = [ask EXCEPT ![w].seen.code = files.code, ![w].step = "out"]
    BY <1>b, <1>6, <2>2 DEF ReadPage, Ask, FileSet
  <2>3. CASE ask[w].step = "out" /\ ask' = [ask EXCEPT ![w].seen.out = files.out, ![w].step = "shown"]
    BY <1>b, <1>6, <2>3 DEF ReadPage, Ask, FileSet
  <2>4. CASE ask[w].step = "shown" /\ Done(w)
    BY <1>b, <1>6, <2>4, NoAskFacts DEF ReadPage, Done
  <2> QED
    BY <1>6, <2>1, <2>2, <2>3, <2>4 DEF ReadPage
<1>7. CASE OthersRun
  <2>1. UNCHANGED sysVars /\ UNCHANGED pc
    BY <1>7, RunKeeps DEF OthersRun, TimerFires, PageInv
  <2> QED
    BY <1>b, <2>1
<1>9. CASE RunCheck
  <2>c. UNCHANGED <<units, pc>>
    BY <1>9 DEF RunCheck
  <2>1. CASE check = "dnf" /\ check' = "clear_code" /\ files' = [files EXCEPT !.out = units] /\ UNCHANGED ask
    <3>1. files' \in FileSet /\ files'.out = units /\ files'.code = files.code /\ files'.at = files.at
      BY <1>b, <2>1 DEF FileSet
    <3>2. FilesOrdered'
      BY <1>b, <1>d, <2>c, <2>1, <3>1
    <3>3. SeenOrdered'
      BY <1>b, <1>d, <1>e, <2>1, <3>1
    <3> QED
      BY <1>b, <2>c, <2>1, <3>1, <3>2, <3>3
  <2>2. ASSUME NEW n \in {0, files.out}, check \in {"clear_code", "code"},
               check' \in {"code", "clear_stamp"}, files' = [files EXCEPT !.code = n], UNCHANGED ask
        PROVE  Page'
    <3>1. files' \in FileSet /\ files'.out = files.out /\ files'.code = n /\ files'.at = files.at
      BY <1>b, <1>d, <2>2 DEF FileSet
    <3>2. FilesOrdered'
      BY <1>b, <1>d, <2>c, <2>2, <3>1
    <3>3. SeenOrdered'
      BY <1>b, <1>d, <1>e, <2>2, <3>1
    <3> QED
      BY <1>b, <2>c, <2>2, <3>1, <3>2, <3>3
  <2>3. ASSUME NEW n \in {0, files.out}, check \in {"clear_stamp", "stamp"},
               check' \in {"stamp", "off"}, files' = [files EXCEPT !.at = n], Told
        PROVE  Page'
    <3>1. files' \in FileSet /\ files'.out = files.out /\ files'.code = files.code /\ files'.at = n
      BY <1>b, <1>d, <2>3 DEF FileSet
    <3>2. FilesOrdered'
      <4>1. files.code \in {0, files.out}
        BY <1>b, <2>3
      <4> QED
        BY <1>b, <1>d, <2>c, <2>3, <3>1, <4>1
    <3>3. SeenOrdered'
      BY <1>b, <1>d, <1>e, <2>3, <3>1 DEF Told
    <3> QED
      BY <1>b, <2>c, <2>3, <3>1, <3>2, <3>3 DEF Told
  <2>4. Tells("check") => Told
    BY <1>b, TellsTold
  <2>5. UNCHANGED ask => Told
    BY <1>b DEF Told
  <2> QED
    BY <1>9, <2>1, <2>2, <2>3, <2>4, <2>5 DEF RunCheck
<1>10. CASE LockUpdate \/ DnfUpdate \/ RecordUpdate
  BY <1>b, <1>10 DEF LockUpdate, DnfUpdate, RecordUpdate
<1>11. CASE EndUpdate
  <2>1. Tells("apply") => Told
    BY <1>b, TellsTold
  <2>2. Told /\ UNCHANGED <<check, files, units, pc>>
    BY <1>11, <2>1 DEF EndUpdate
  <2> QED
    BY <1>b, <2>2 DEF Told
<1>12. CASE UnitKilled
  <2>1. Tells("check") => Told
    BY <1>b, TellsTold
  <2>2. Tells("apply") => Told
    BY <1>b, TellsTold
  <2>3. Told /\ UNCHANGED <<files, units, pc>> /\ check' \in {check, "off"}
    BY <1>12, <2>1, <2>2, Zenon DEF UnitKilled
  <2> QED
    BY <1>b, <2>3 DEF Told
<1>13. CASE RebootAll
  <2>1. /\ files' = NoFiles /\ check' = "off" /\ ask' = [w \in Workers |-> NoAsk] /\ units' = units
    BY <1>13 DEF RebootAll
  <2> QED
    BY <1>b, <1>d, <2>1, NoAskFacts
<1>14. CASE RestartWebUI
  BY <1>b, <1>14, NoAskFacts DEF RestartWebUI, Restart
<1>15. CASE UNCHANGED allVars
  BY <1>b, <1>15 DEF allVars
<1>16. ASSUME NEW w \in Workers, ServePage(w) PROVE Page'
  <2>1. CASE OpenPage(w) \/ AskCheck(w) \/ AskApply(w) \/ AskReboot(w)
    BY <1>2, <2>1 DEF OpenPage, AskCheck, AskApply, AskReboot
  <2>2. CASE LookForUpdate(w) \/ StartFails(w) \/ Answer(w) \/ AskDies(w)
    BY <1>3, <2>2 DEF LookForUpdate, StartFails, Answer, AskDies
  <2> QED
    BY <1>4, <1>5, <1>6, <1>16, <2>1, <2>2 DEF ServePage
<1> QED
  BY <1>1, <1>7, <1>9, <1>10, <1>11, <1>12, <1>13, <1>14, <1>15, <1>16 DEF SysNext, RunUpdate

(* What an update is about.                                                *)
LEMMA UpdatePartStep == PageInv /\ [SysNext]_allVars => UpdateTyped'
<1> SUFFICES ASSUME PageInv, [SysNext]_allVars PROVE UpdateTyped'
  OBVIOUS
<1>b. UpdateTyped
  BY TypedInParts DEF PageInv
<1> USE DEF UpdateTyped, UpdateSteps
<1>1. ASSUME NEW w \in Workers, StartUpdate(w) PROVE UpdateTyped'
  BY <1>b, <1>1 DEF StartUpdate
<1>2. CASE LockUpdate
  BY <1>b, <1>2 DEF LockUpdate
<1>3. CASE DnfUpdate
  BY <1>b, <1>3 DEF DnfUpdate
<1>4. CASE RecordUpdate
  BY <1>b, <1>4 DEF RecordUpdate
<1>5. CASE EndUpdate
  BY <1>b, <1>5 DEF EndUpdate
<1>6. CASE UnitKilled
  BY <1>b, <1>6 DEF UnitKilled
<1>7. CASE RebootAll
  BY <1>b, <1>7 DEF RebootAll
<1>8. CASE UNCHANGED <<upd, updLock, status>>
  BY <1>b, <1>8
<1>9. ASSUME NEW w \in Workers, ServePage(w), ~StartUpdate(w) PROVE UNCHANGED <<upd, updLock, status>>
  BY <1>9 DEF ServePage, OpenPage, AskCheck, AskApply, AskReboot, Asks, LookForUpdate, StartCheck,
              StartFails, Answer, ReadPage, AskDies, unitVars
<1>10. ASSUME (\E w \in Workers : ServeButton(w)) \/ OthersRun \/ RunCheck \/ RestartWebUI \/ UNCHANGED allVars
       PROVE  UNCHANGED <<upd, updLock, status>>
  BY <1>10 DEF ServeButton, OthersRun, RunCheck, RestartWebUI, allVars, sysVars, unitVars
<1> QED
  BY <1>1, <1>2, <1>3, <1>4, <1>5, <1>6, <1>7, <1>8, <1>9, <1>10 DEF SysNext, RunUpdate

LEMMA PageStep == PageInv /\ [SysNext]_allVars => PageInv'
<1> SUFFICES ASSUME PageInv, [SysNext]_allVars PROVE PageInv'
  OBVIOUS
<1>1. (TypeOK /\ Served)'
  BY SysStepIsStep, TypeStep DEF PageInv, allVars
<1>2. SysTypeOK' <=> (PageTyped /\ UpdateTyped)'
  BY DEF SysTypeOK, PageTyped, UpdateTyped
<1> QED
  BY <1>1, <1>2, PagePartStep, UpdatePartStep DEF PageInv

(* Types, in both profiles, for any number of workers and units.           *)
THEOREM SysTypeCorrect == SysSpec => []SysTypeOK
<1>1. PageInv => SysTypeOK
  BY DEF PageInv
<1> QED
  BY <1>1, PageInit, PageStep, PTL DEF SysSpec

(* system_updates.py:199-203: what the page shows as the time or the exit  *)
(* code of a check is never later than the result it shows beside it, nor  *)
(* the time later than the exit code, where there is one.                  *)
THEOREM PageAlwaysHonest == SysSpec => []PageHonest
<1>1. PageInv => PageHonest
  BY DEF PageInv, SeenOrdered, PageHonest
<1> QED
  BY <1>1, PageInit, PageStep, PTL DEF SysSpec
=============================================================================
