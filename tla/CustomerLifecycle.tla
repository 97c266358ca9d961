-------------------------- MODULE CustomerLifecycle --------------------------
(***************************************************************************)
(* Provisioning and deprovisioning of a customer: the scripts a request of *)
(* the console waits for (bin/msp-provision-customer.sh,                   *)
(* bin/msp-deprovision-customer.sh, msp_console/actions.py), beside the    *)
(* requests that load and save the customer's configuration.               *)
(*                                                                         *)
(* Abstracted: ConfigStore has the save step by step, here it is one step; *)
(* certificates, state and logs go with the directory; a copy or a trim    *)
(* that is cut off counts as the example.                                  *)
(***************************************************************************)
EXTENDS Naturals, ConsoleWorkers

CONSTANTS
    MaxEdits,    \* bound: configurations that are edited
    MaxSeconds,  \* bound: the seconds archives are named after
    Stray        \* the command whose script was killed by the time-out

(* appliance.yaml: missing, a copy of the example, the empty start, or as  *)
(* one of the saves left it.                                               *)
NoFile  == 0
Example == 1
Empty   == 2
Confs   == 0 .. 2 + MaxEdits

(* An archive, <slug>-<second>.tar.gz: missing or without a configuration  *)
(* (NoFile), with one, or cut off.                                         *)
Cut      == 3 + MaxEdits
Archives == Confs \cup {Cut}
Seconds  == 1 .. MaxSeconds

Runners == Workers \cup {Stray}

ASSUME LifecycleAssumption == MaxEdits \in Nat /\ MaxSeconds \in Nat /\ Stray \notin Workers \cup {Nobody}

VARIABLES
    tree,      \* customers whose directory exists
    conf,      \* their appliance.yaml
    archived,  \* the archives of each customer
    opsLock,   \* who holds msp-provision-ops.lock
    script,    \* per worker: the script, or the configuration request, it is in; and the stray command
    edits      \* how many configurations were edited

VARIABLE gone  \* history: customers deprovisioned, and not provisioned since

lifeVars == <<tree, conf, archived, opsLock, script, edits, gone>>

(* staged is the copy a deprovisioning archives, or what an edit will save;*)
(* stamp is the second in which a deprovisioning began; raced records that *)
(* another one changed the customer since the script looked for it, or     *)
(* made that copy.                                                         *)
ScriptRun == [
    step   : {"idle", "check", "wait", "dirs", "copy", "trim", "stage", "tar", "remove", "rmdir", "save"},
    op     : {"none", "provision", "deprovision", "edit"},
    slug   : Slugs \cup {Nobody},
    staged : Confs,
    stamp  : 0 .. MaxSeconds,
    raced  : BOOLEAN]
NoScript == [step |-> "idle", op |-> "none", slug |-> Nobody, staged |-> NoFile, stamp |-> 0, raced |-> FALSE]

Locking == {"dirs", "copy", "trim", "stage", "tar", "remove", "rmdir"}

LifecycleTypeOK ==
    /\ tree \subseteq Slugs /\ gone \subseteq Slugs /\ conf \in [Slugs -> Confs]
    /\ archived \in [Slugs -> [Seconds -> Archives]] /\ edits \in 0 .. MaxEdits
    /\ opsLock \in Runners \cup {Nobody}
    /\ script \in [Runners -> ScriptRun]
    /\ \A w \in Runners : script[w].step # "idle" => script[w].slug \in Slugs
    /\ \A w \in Runners : opsLock = w <=> script[w].step \in Locking
    /\ \A s \in Slugs : conf[s] # NoFile => s \in tree

LifecycleInit ==
    /\ tree \in SUBSET Slugs
    /\ conf = [s \in Slugs |-> IF s \in tree THEN Empty ELSE NoFile]
    /\ archived = [s \in Slugs |-> [t \in Seconds |-> NoFile]]
    /\ opsLock = Nobody
    /\ script = [w \in Runners |-> NoScript]
    /\ edits = 0 /\ gone = {}
-----------------------------------------------------------------------------
Takes(w, op, s, t) ==
    script' = [script EXCEPT ![w] = [NoScript EXCEPT !.step = "check", !.op = op, !.slug = s, !.stamp = t]]

(* The script of w goes on; when it changes its customer, the others who   *)
(* are at that customer have been raced.                                   *)
Step(w, r, changes) ==
    script' = [v \in Runners |->
        IF v = w THEN r ELSE [script[v] EXCEPT !.raced = @ \/ (changes /\ script[v].slug = script[w].slug)]]
OnTo(w, step, changes) == Step(w, [script[w] EXCEPT !.step = step], changes) /\ UNCHANGED opsLock
Ends(w, changes)       == Step(w, NoScript, changes) /\ opsLock' = IF opsLock = w THEN Nobody ELSE opsLock

(* The command of this step is done: the script goes on to the next one;   *)
(* a stray one has no script.                                              *)
CommandDone(w, next, changes) == IF w = Stray THEN Ends(w, changes) ELSE OnTo(w, next, changes)

(* A request to provision a customer that is not listed, or to deprovision *)
(* one, starts the script.                                                 *)
Provision(w, s) ==
    /\ s \notin tree
    /\ Takes(w, "provision", s, 0)
    /\ UNCHANGED <<tree, conf, archived, opsLock, edits, gone>>

Deprovision(w, s) ==
    /\ \E t \in Seconds : Takes(w, "deprovision", s, t)
    /\ UNCHANGED <<tree, conf, archived, opsLock, edits, gone>>

HasLooked(w) == Step(w, [script[w] EXCEPT !.step = "wait", !.raced = FALSE], FALSE)

(* A mutant of the next definition: whatever the script sees, it goes on.  *)
CheckNot(w) ==
    /\ script[w].step = "check"
    /\ HasLooked(w) /\ UNCHANGED opsLock
    /\ UNCHANGED <<tree, conf, archived, edits, gone>>

(* The script looks for the directory, before it takes the lock.           *)
Check(w) ==
    /\ script[w].step = "check"
    /\ IF (script[w].slug \in tree) = (script[w].op = "deprovision")
       THEN HasLooked(w) /\ UNCHANGED opsLock
       ELSE Ends(w, FALSE)
    /\ UNCHANGED <<tree, conf, archived, edits, gone>>

TakeOpsLock(w) ==
    /\ script[w].step = "wait" /\ opsLock = Nobody
    /\ opsLock' = w
    /\ Step(w, [script[w] EXCEPT !.step = IF script[w].op = "provision" THEN "dirs" ELSE "stage"], FALSE)
    /\ UNCHANGED <<tree, conf, archived, edits, gone>>

(* flock -w 30.                                                            *)
GiveUp(w) ==
    /\ script[w].step = "wait" /\ opsLock # Nobody
    /\ Ends(w, FALSE)
    /\ UNCHANGED <<tree, conf, archived, edits, gone>>

MakeDirs(w) ==
    /\ script[w].step = "dirs"
    /\ tree' = tree \cup {script[w].slug} /\ gone' = gone \ {script[w].slug}
    /\ CommandDone(w, "copy", TRUE)
    /\ UNCHANGED <<conf, archived, edits>>

Writes(w, c) == conf' = [conf EXCEPT ![script[w].slug] = c]

CopyExample(w) ==
    /\ script[w].step = "copy"
    /\ Writes(w, Example)
    /\ CommandDone(w, "trim", TRUE)
    /\ UNCHANGED <<tree, archived, edits, gone>>

(* The example is emptied and the script is done.                          *)
Trim(w) ==
    /\ script[w].step = "trim"
    /\ Writes(w, Empty)
    /\ Ends(w, TRUE)
    /\ UNCHANGED <<tree, archived, edits, gone>>
-----------------------------------------------------------------------------
(* The copy to be archived; it fails if the directory is gone by now.      *)
Stage(w) ==
    /\ script[w].step = "stage"
    /\ IF script[w].slug \in tree /\ w # Stray
       THEN Step(w, [script[w] EXCEPT !.step = "tar", !.staged = conf[script[w].slug], !.raced = FALSE], FALSE) /\ UNCHANGED opsLock
       ELSE Ends(w, FALSE)
    /\ UNCHANGED <<tree, conf, archived, edits, gone>>

(* The archive of that second, if there is one, is replaced.               *)
Archive(w, c) == archived' = [archived EXCEPT ![script[w].slug][script[w].stamp] = c]

(* A mutant of the next definition: without set -e the script goes on.     *)
TarUnnoticed(w) ==
    /\ script[w].step = "tar"
    /\ Archive(w, script[w].staged) \/ Archive(w, Cut)
    /\ OnTo(w, "remove", FALSE)
    /\ UNCHANGED <<tree, conf, edits, gone>>

(* tar: it succeeds, or it fails with its archive cut off, and the script  *)
(* ends before anything goes.                                              *)
Tar(w) ==
    /\ script[w].step = "tar"
    /\ \/ Archive(w, script[w].staged) /\ CommandDone(w, "remove", FALSE)
       \/ Archive(w, Cut) /\ Ends(w, FALSE)
    /\ UNCHANGED <<tree, conf, edits, gone>>

(* rm -rf: first the files of the directory, then the directory, unless    *)
(* there is a new file in it.                                              *)
RemoveFiles(w) ==
    /\ script[w].step = "remove"
    /\ Writes(w, NoFile)
    /\ OnTo(w, "rmdir", TRUE)
    /\ UNCHANGED <<tree, archived, edits, gone>>

RemoveDir(w) ==
    /\ script[w].step = "rmdir"
    /\ IF conf[script[w].slug] = NoFile
       THEN tree' = tree \ {script[w].slug} /\ gone' = gone \cup {script[w].slug}
       ELSE UNCHANGED <<tree, gone>>
    /\ Ends(w, TRUE)
    /\ UNCHANGED <<conf, archived, edits>>
-----------------------------------------------------------------------------
(* A page or a form of the customer: load_config makes the directory.      *)
View(w, s) ==
    /\ tree' = tree \cup {s}
    /\ UNCHANGED <<conf, archived, opsLock, script, edits, gone>>

LoadConfig(w, s) ==
    /\ edits < MaxEdits /\ edits' = edits + 1
    /\ tree' = tree \cup {s}
    /\ script' = [script EXCEPT ![w] = [NoScript EXCEPT !.step = "save", !.op = "edit", !.slug = s, !.staged = Empty + edits + 1]]
    /\ UNCHANGED <<conf, archived, opsLock, gone>>

(* save_config: the directory again, and the whole file.                   *)
SaveConfig(w) ==
    /\ script[w].step = "save"
    /\ tree' = tree \cup {script[w].slug}
    /\ Writes(w, script[w].staged)
    /\ Ends(w, TRUE)
    /\ UNCHANGED <<archived, edits, gone>>

(* A mutant of the next definition: the lock is a file that stays.         *)
KilledLocked(w) ==
    /\ script[w].step # "idle"
    /\ Step(w, NoScript, FALSE) /\ UNCHANGED opsLock
    /\ UNCHANGED <<tree, conf, archived, edits, gone>>

(* The script is killed between two commands, or the service is stopped    *)
(* and every process of it with it; the kernel drops the lock.             *)
Killed(w) ==
    /\ script[w].step # "idle"
    /\ Ends(w, FALSE)
    /\ UNCHANGED <<tree, conf, archived, edits, gone>>

(* subprocess.run kills the script after its 60 seconds, and only that:    *)
(* the command it was waiting for has inherited the lock (exec 9>) and     *)
(* goes on to its end.                                                     *)
TimesOut(w) ==
    /\ script[w].step \in Locking
    /\ opsLock' = Stray
    /\ script' = [script EXCEPT ![w] = NoScript, ![Stray] = script[w]]
    /\ UNCHANGED <<tree, conf, archived, edits, gone>>

Command(w) == MakeDirs(w) \/ CopyExample(w) \/ Trim(w) \/ Stage(w) \/ Tar(w) \/ RemoveFiles(w) \/ RemoveDir(w)
Script(w)  == Check(w) \/ TakeOpsLock(w) \/ GiveUp(w) \/ Command(w) \/ SaveConfig(w)
-----------------------------------------------------------------------------
(* msp-deprovision-customer.sh:3-4: "nothing is deleted outright".  What a *)
(* deprovisioning removes it has archived, but for what another request    *)
(* saved after the copy was made.                                          *)
RemovedIsArchived ==
    [][\A s \in Slugs : conf[s] # NoFile /\ conf'[s] = NoFile =>
        \E w \in Runners :
            /\ script[w].slug = s /\ script[w].step = "remove"
            /\ archived[s][script[w].stamp] = script[w].staged
            /\ conf[s] = script[w].staged \/ script[w].raced]_lifeVars

(* msp-provision-customer.sh:67: "refusing to overwrite an existing        *)
(* customer".  The example replaces a configuration only if another request*)
(* made that customer after this one had looked.                           *)
OverwrittenOnlyRaced ==
    [][\A s \in Slugs : conf[s] \notin {NoFile, Example} /\ conf'[s] = Example =>
        \E w \in Runners : script[w].slug = s /\ script[w].step = "copy" /\ script[w].raced]_lifeVars

(* bin/msp-deprovision-customer.sh:5 ("removes its directory tree"): a     *)
(* customer that was deprovisioned is not listed again until it is         *)
(* provisioned again.                                                      *)
GoneStaysGone == gone \cap tree = {}
=============================================================================
