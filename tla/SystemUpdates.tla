---------------------------- MODULE SystemUpdates ----------------------------
(***************************************************************************)
(* The system updates page of the single-instance web UI                   *)
(* (webui/system_updates.py), beside the renew and redeploy buttons: one   *)
(* worker serves both, and a reboot ends everything.  A request asks       *)
(* systemd to start a oneshot unit and waits for it, 20 seconds at most;   *)
(* bin/check-system-updates.sh and bin/apply-system-update.sh leave their  *)
(* results in files under /var/run that the page reads.                    *)
(*                                                                         *)
(* Abstracted: the list of packages, whether a reboot is required, what a  *)
(* request tells its user, and the step-up sign-in, which refuses a request*)
(* before it does anything here.  A oneshot unit is "activating" while it  *)
(* runs, so what is asked of systemctl is-active is never answered         *)
(* "active".  A full /run fails the write after a file was truncated;      *)
(* making or renaming a file succeeds.                                     *)
(***************************************************************************)
EXTENDS RenewJobs

CONSTANT MaxUnits   \* bound: starts of the check and update units

ASSUME UnitsAssumption == MaxUnits \in Nat

VARIABLES
    check,     \* how far the unit that checks for updates is
    files,     \* what its three files hold: the number of a check, 0: nothing
    upd,       \* how far the unit that updates is
    updLock,   \* system-update.lock exists
    status,    \* last-update-status.txt
    ask,       \* per worker: the request for this page it is serving
    units      \* how many units were started

sysVars == <<check, files, upd, updLock, status, ask, units>>
allVars == <<vars, sysVars>>

FileSet == [out : 0 .. MaxUnits, code : 0 .. MaxUnits, at : 0 .. MaxUnits]
NoFiles == [out |-> 0, code |-> 0, at |-> 0]

(* The page's request reads the three files one after the other; a request *)
(* that starts a unit waits for it.                                        *)
Ask == [op : {"none", "page", "check", "apply", "reboot"}, seen : FileSet,
        step : {"idle", "look", "start", "wait", "answer", "at", "code", "out", "shown"}]
NoAsk == [op |-> "none", step |-> "idle", seen |-> NoFiles]

CheckSteps  == {"off", "dnf", "clear_code", "code", "clear_stamp", "stamp"}
UpdateSteps == {"off", "lock", "dnf", "clear_status", "status", "end"}

(* With the types: an update that is past its first command has its lock   *)
(* file, and a worker serves one request.                                  *)
SysTypeOK ==
    /\ check \in CheckSteps /\ files \in FileSet
    /\ upd \in UpdateSteps /\ updLock \in BOOLEAN
    /\ status \in {"none", "ok", "failed"} /\ units \in 0 .. MaxUnits
    /\ ask \in [Workers -> Ask]
    /\ \A w \in Workers : ask[w].step # "idle" => pc[w] = "idle"
    /\ upd \in UpdateSteps \ {"off", "lock"} => updLock

SysInit ==
    /\ Init
    /\ check = "off" /\ files = NoFiles
    /\ upd = "off" /\ updLock = FALSE /\ status = "none"
    /\ ask = [w \in Workers |-> NoAsk]
    /\ units = 0

unitVars == <<check, files, upd, updLock, status, units>>
-----------------------------------------------------------------------------
Asks(w, op, step) ==
    /\ pc[w] = "idle" /\ ask[w].step = "idle"
    /\ ask' = [ask EXCEPT ![w] = [NoAsk EXCEPT !.op = op, !.step = step]]
    /\ UNCHANGED <<unitVars, vars>>

(* system_page, system_check, system_apply, system_reboot.                 *)
OpenPage(w)    == Asks(w, "page", "at")
AskCheck(w)    == Asks(w, "check", "start")
AskApply(w)    == Asks(w, "apply", "look")
AskReboot(w)   == Asks(w, "reboot", "start")

OnTo(w, step) == ask' = [ask EXCEPT ![w].step = step]
Done(w)       == ask' = [ask EXCEPT ![w] = NoAsk]

(* is_update_in_progress.                                                  *)
LookForUpdate(w) ==
    /\ ask[w].step = "look"
    /\ IF updLock THEN Done(w) ELSE OnTo(w, "start")
    /\ UNCHANGED <<unitVars, vars>>

(* systemctl start: the unit starts, or the request joins the one that     *)
(* runs.                                                                   *)
StartCheck(w) ==
    /\ ask[w].step = "start" /\ ask[w].op = "check"
    /\ check = "off" => units < MaxUnits
    /\ IF check = "off" THEN check' = "dnf" /\ units' = units + 1 ELSE UNCHANGED <<check, units>>
    /\ OnTo(w, "wait")
    /\ UNCHANGED <<files, upd, updLock, status, vars>>

StartUpdate(w) ==
    /\ ask[w].step = "start" /\ ask[w].op = "apply"
    /\ upd = "off" => units < MaxUnits
    /\ IF upd = "off" THEN upd' = "lock" /\ units' = units + 1 ELSE UNCHANGED <<upd, units>>
    /\ OnTo(w, "wait")
    /\ UNCHANGED <<check, files, updLock, status, vars>>

(* sudo or systemctl refuses, or the 20 seconds are over: the request says *)
(* that nothing was started, also when the unit runs.                      *)
StartFails(w) ==
    /\ ask[w].step \in {"start", "wait"}
    /\ Done(w)
    /\ UNCHANGED <<unitVars, vars>>

(* "Update started in the background", or that it could not be started.    *)
Answer(w) ==
    /\ ask[w].step = "answer"
    /\ Done(w)
    /\ UNCHANGED <<unitVars, vars>>

(* systemd tells those who wait for a unit that it has ended.              *)
Tells(op) ==
    ask' = [w \in Workers |->
        IF ask[w].step = "wait" /\ ask[w].op = op THEN [ask[w] EXCEPT !.step = "answer"] ELSE ask[w]]
-----------------------------------------------------------------------------
(* A mutant of the next definition: the output is read first.              *)
ReadPageOutputFirst(w) ==
    /\ \/ ask[w].step = "at" /\ ask' = [ask EXCEPT ![w].seen.out = files.out, ![w].step = "code"]
       \/ ask[w].step = "code" /\ ask' = [ask EXCEPT ![w].seen.code = files.code, ![w].step = "out"]
       \/ ask[w].step = "out" /\ ask' = [ask EXCEPT ![w].seen.at = files.at, ![w].step = "shown"]
       \/ ask[w].step = "shown" /\ Done(w)
    /\ UNCHANGED <<unitVars, vars>>

(* The page reads the time of the last check, its exit code, its output.   *)
ReadPage(w) ==
    /\ \/ ask[w].step = "at" /\ ask' = [ask EXCEPT ![w].seen.at = files.at, ![w].step = "code"]
       \/ ask[w].step = "code" /\ ask' = [ask EXCEPT ![w].seen.code = files.code, ![w].step = "out"]
       \/ ask[w].step = "out" /\ ask' = [ask EXCEPT ![w].seen.out = files.out, ![w].step = "shown"]
       \/ ask[w].step = "shown" /\ Done(w)
    /\ UNCHANGED <<unitVars, vars>>

(* check-system-updates.sh: the output is renamed into its place; then the *)
(* file of the exit code and that of the time are each emptied and written,*)
(* where a write that fails is passed over.                                *)
RunCheck ==
    /\ \/ check = "dnf" /\ check' = "clear_code" /\ files' = [files EXCEPT !.out = units] /\ UNCHANGED ask
       \/ check = "clear_code" /\ check' = "code" /\ files' = [files EXCEPT !.code = 0] /\ UNCHANGED ask
       \/ check = "code" /\ check' = "clear_stamp" /\ UNCHANGED ask
          /\ \E n \in {0, files.out} : files' = [files EXCEPT !.code = n]
       \/ check = "clear_stamp" /\ check' = "stamp" /\ files' = [files EXCEPT !.at = 0] /\ UNCHANGED ask
       \/ check = "stamp" /\ check' = "off" /\ Tells("check")
          /\ \E n \in {0, files.out} : files' = [files EXCEPT !.at = n]
    /\ UNCHANGED <<upd, updLock, status, units, vars>>

(* apply-system-update.sh: the lock file, dnf, the status, and the trap.   *)
LockUpdate ==
    /\ upd = "lock"
    /\ upd' = "dnf" /\ updLock' = TRUE
    /\ UNCHANGED <<check, files, status, ask, units, vars>>

DnfUpdate ==
    /\ upd = "dnf"
    /\ upd' = "clear_status"
    /\ UNCHANGED <<check, files, updLock, status, ask, units, vars>>

(* A mutant of the next definition: the lock file goes before the status   *)
(* is written.                                                             *)
RecordUnlocked ==
    /\ upd = "clear_status" /\ upd' = "status" /\ status' = "none"
    /\ updLock' = FALSE
    /\ UNCHANGED <<check, files, ask, units, vars>>

(* The status file is emptied and says how dnf ended, or stays empty when  *)
(* the write fails: the script goes on.                                    *)
RecordUpdate ==
    /\ \/ upd = "clear_status" /\ upd' = "status" /\ status' = "none"
       \/ upd = "status" /\ upd' = "end" /\ status' \in {"none", "ok", "failed"}
    /\ UNCHANGED <<check, files, updLock, ask, units, vars>>

EndUpdate ==
    /\ upd = "end"
    /\ upd' = "off" /\ updLock' = FALSE
    /\ Tells("apply")
    /\ UNCHANGED <<check, files, status, units, vars>>

RunUpdate == LockUpdate \/ DnfUpdate \/ RecordUpdate \/ EndUpdate

(* A unit is stopped, which runs the trap, or killed, which does not.      *)
UnitKilled ==
    /\ \/ check # "off" /\ check' = "off" /\ Tells("check") /\ UNCHANGED <<upd, updLock>>
       \/ upd # "off" /\ upd' = "off" /\ updLock' \in {updLock, FALSE} /\ Tells("apply") /\ UNCHANGED check
    /\ UNCHANGED <<files, status, units, vars>>
-----------------------------------------------------------------------------
(* The host reboots, because the reboot unit was started (no request waits *)
(* for an update first) or by itself: no process and no file under /run    *)
(* survives.                                                               *)
RebootAll ==
    /\ Reboot
    /\ check' = "off" /\ upd' = "off" /\ updLock' = FALSE
    /\ files' = NoFiles /\ status' = "none"
    /\ ask' = [w \in Workers |-> NoAsk]
    /\ UNCHANGED units

(* The web service restarts, or its worker dies; units go on.              *)
RestartWebUI == Restart /\ ask' = [w \in Workers |-> NoAsk] /\ UNCHANGED unitVars
AskDies(w)   == ask[w].step # "idle" /\ Done(w) /\ UNCHANGED <<unitVars, vars>>

(* The steps of RenewJobs, by a worker that serves no other request.       *)
ServeButton(w) ==
    /\ ask[w].step = "idle"
    /\ Press(w) \/ Serve(w) \/ WorkerDies(w)
    /\ UNCHANGED sysVars

OthersRun ==
    /\ TimerFires \/ \E j \in Slots \cup {Timer} : Run(j)
    /\ UNCHANGED sysVars

ServePage(w) ==
    \/ OpenPage(w) \/ AskCheck(w) \/ AskApply(w) \/ AskReboot(w)
    \/ LookForUpdate(w) \/ StartCheck(w) \/ StartUpdate(w) \/ StartFails(w) \/ Answer(w) \/ ReadPage(w) \/ AskDies(w)

SysNext ==
    \/ \E w \in Workers : ServeButton(w) \/ ServePage(w)
    \/ OthersRun \/ RunCheck \/ RunUpdate \/ UnitKilled \/ RestartWebUI \/ RebootAll

SysSpec == SysInit /\ [][SysNext]_allVars
-----------------------------------------------------------------------------
(* system_updates.py:199-203: the page is put together from three files    *)
(* that a check replaces one after the other; also when it reads them in   *)
(* the middle of a check, or after one that was killed or could not write, *)
(* the time and the exit code it shows are never those of a later check    *)
(* than the result, nor is the time that of a later check than the exit    *)
(* code, where there is one.                                               *)
Honest(seen) ==
    /\ seen.at <= seen.out /\ seen.code <= seen.out
    /\ seen.code = 0 \/ seen.at <= seen.code

PageHonest == \A w \in Workers : ask[w].step = "shown" => Honest(ask[w].seen)
=============================================================================
