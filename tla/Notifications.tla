---------------------------- MODULE Notifications ----------------------------
(***************************************************************************)
(* E-mail alerts (notifications.py, bin/acme-notify.py): an alert of a     *)
(* script, and the daily scan that sends one digest per customer, both     *)
(* through the locked state file that remembers when a message was sent.   *)
(*                                                                         *)
(* Abstracted: subjects, bodies, transports and the reasons why a message  *)
(* cannot be sent; a digest is one message per certificate it lists; a     *)
(* state directory that cannot be written is a save that fails; settings   *)
(* stay as they are, and the domains of a customer only become fewer.      *)
(***************************************************************************)
EXTENDS Integers, Sequences

CONSTANTS
    Callers,       \* processes that raise alerts: scripts with their hooks
    Scans,         \* the unit of the timer: one process, or none
    Customers,     \* configurations, each with a state file of its own
    Order,         \* the customers in the order of their directories
    Names,         \* entries, certificate lineages, names of challenges
    EventsOn,      \* events that are switched on
    MinGap,        \* per event: the shortest time between two messages
    LastGap, WarnGap,    \* the same for a certificate in its last days, and before
    LastDays, WarnDays,  \* how long before its expiry a certificate is in each
    Keep,          \* how long an entry stays in the state file
    Day, Jitter,   \* the timer's period, and the latest it starts after its hour
    InitialSettings, InitialEntries, InitialCerts,
    Life,          \* how long a certificate lives
    MaxNow,        \* bound: the clock
    MaxFaults,     \* bound: failed sends and writes, deaths, removed entries
    Nobody

Procs    == Callers \cup Scans
Events   == DOMAIN MinGap
Expiring == "cert_expiring"

(* A key of the state file; expiry is 0 for an event that has none.        *)
Key(e, n, x) == [event |-> e, name |-> n, expiry |-> x]
Keys == [event : Events \cup {Expiring}, name : Names, expiry : 0 .. MaxNow + Life]
Gaps == {LastGap, WarnGap} \cup {MinGap[e] : e \in Events}

Times  == 0 .. MaxNow
Stamps == [key : Keys, at : Times]  \* the entries of a state file
Wants  == [key : Keys, gap : Gaps]  \* what an alert is about

ASSUME ProcsAssumption ==
    /\ Callers \cap Scans = {} /\ \A s, t \in Scans : s = t
    /\ Nobody \notin Procs \cup Customers \cup Names
ASSUME GapsAssumption  ==
    /\ MinGap \in [Events -> Nat] /\ Expiring \notin Events /\ EventsOn \subseteq Events \cup {Expiring}
    /\ {LastGap, WarnGap, LastDays, WarnDays, Keep, Day, Jitter, Life, MaxNow, MaxFaults} \subseteq Nat
    /\ \A g \in Gaps : g <= Keep
ASSUME OrderAssumption == Order \in Seq(Customers)
ASSUME SettingsAssumption ==
    /\ InitialSettings \subseteq [Customers -> {"on", "off", "no_email", "unreadable", "broken"}]
    /\ InitialEntries \in [Customers -> SUBSET Names]
    /\ InitialCerts \subseteq [Customers -> [Names -> 0 .. Life]]

VARIABLES
    now,       \* the time, in units of the gaps
    settings,  \* alerts on or off, or what a customer's file lacks
    entries,   \* the domain entries of each customer
    certs,     \* per customer and name: when its certificate expires, 0: none
    disk,      \* notification-state.json: keys with times
    lock,      \* who holds the flock next to it
    call,      \* per process: how far its use of the state file is
    scan,      \* the timer's process
    day,       \* the day its timer is to fire next
    faults     \* what failed so far

VARIABLE mails \* history: messages sent, and the time each is recorded under

stateVars == <<disk, lock, call, mails>>
scanVars  == <<scan, day>>
world     == <<now, settings, entries, certs>>

Call == [
    step : {"none", "wait", "send", "save"},
    cust : Customers \cup {Nobody},
    at   : Times,           \* when the alert was raised
    want : SUBSET Wants,    \* what it is about
    due  : SUBSET Wants,    \* what of that is to be sent
    seen : SUBSET Stamps,   \* the state file as read, then as it is to be written
    ok   : BOOLEAN]
NoCall == [step |-> "none", cust |-> Nobody, at |-> 0, want |-> {}, due |-> {}, seen |-> {}, ok |-> TRUE]

ScanRun == [
    pc    : {"customers", "alert"},
    todo  : Seq(Customers),
    rc    : {0, 1},
    asked : SUBSET [cust : Customers, at : Times, want : Wants]]
NoScan == [pc |-> "customers", todo |-> <<>>, rc |-> 0, asked |-> {}]

Mails == [cust : Customers, key : Keys, gap : Gaps, at : Times, kept : BOOLEAN]

(* The flock of a state file is held by who is between reading and saving. *)
NotifyTypeOK ==
    /\ now \in Times /\ settings \in InitialSettings
    /\ entries \in [Customers -> SUBSET Names]
    /\ certs \in [Customers -> [Names -> 0 .. MaxNow + Life]]
    /\ disk \in [Customers -> SUBSET Stamps] /\ mails \subseteq Mails
    /\ lock \in [Customers -> Procs \cup {Nobody}]
    /\ call \in [Procs -> Call] /\ scan \in [Scans -> ScanRun]
    /\ \A p \in Procs, c \in Customers : lock[c] = p <=> call[p].step \in {"send", "save"} /\ call[p].cust = c
    /\ day \in Nat /\ faults \in 0 .. MaxFaults

NotifyInit ==
    /\ now = 0 /\ settings \in InitialSettings /\ certs \in InitialCerts
    /\ entries = InitialEntries
    /\ disk = [c \in Customers |-> {}]
    /\ lock = [c \in Customers |-> Nobody]
    /\ call = [p \in Procs |-> NoCall]
    /\ scan = [s \in Scans |-> NoScan] /\ day = 0
    /\ mails = {} /\ faults = 0
-----------------------------------------------------------------------------
Due(state, w, at) == \A e \in state : e.key = w.key => at - e.at >= w.gap

(* The entries that survive a save at time t.                              *)
Recent(state, t) == {e \in state : e.at >= t - Keep}

Recorded(state, ks, at) == {e \in state : e.key \notin ks} \cup {[key |-> k, at |-> at] : k \in ks}

DueKeys(p) == {w.key : w \in call[p].due}

Fault == faults < MaxFaults /\ faults' = faults + 1

(* The alert is raised: its time is read here, before the lock is taken.   *)
Raise(p, c, want) ==
    call' = [call EXCEPT ![p] = [NoCall EXCEPT !.step = "wait", !.cust = c, !.at = now, !.want = want]]

(* The state file is read, and what of the alert is due is kept.           *)
ReadState(p) ==
    LET c   == call[p].cust
        due == {w \in call[p].want : Due(disk[c], w, call[p].at)}
    IN  call' = [call EXCEPT ![p].step = IF due = {} THEN "save" ELSE "send", ![p].due = due, ![p].seen = disk[c]]

(* A mutant of the next definition: the state file is read without a lock. *)
TakeLockShared(p) ==
    /\ call[p].step = "wait"
    /\ ReadState(p)
    /\ UNCHANGED <<disk, lock, mails, faults>>

TakeLock(p) ==
    /\ call[p].step = "wait"
    /\ lock[call[p].cust] = Nobody
    /\ lock' = [lock EXCEPT ![call[p].cust] = p]
    /\ ReadState(p)
    /\ UNCHANGED <<disk, mails, faults>>

Send(p) ==
    /\ call[p].step = "send"
    /\ mails' = mails \cup
        {[cust |-> call[p].cust, key |-> w.key, gap |-> w.gap, at |-> call[p].at, kept |-> FALSE] : w \in call[p].due}
    /\ call' = [call EXCEPT ![p].step = "save", ![p].seen = Recorded(@, DueKeys(p), call[p].at)]
    /\ UNCHANGED <<disk, lock, faults>>

Release(p) == lock' = [c \in Customers |-> IF lock[c] = p THEN Nobody ELSE lock[c]]
Failed(p)  == call' = [call EXCEPT ![p] = [NoCall EXCEPT !.ok = FALSE]]

(* A mutant of SendFails: the message counts as sent.                      *)
SendFailsSaved(p) ==
    /\ call[p].step = "send" /\ Fault
    /\ Failed(p) /\ Release(p)
    /\ disk' = [disk EXCEPT ![call[p].cust] = Recorded(@, DueKeys(p), call[p].at)]
    /\ UNCHANGED mails

(* A mutant of SendFails: the exception passes by the release of the lock. *)
SendFailsHolding(p) ==
    /\ call[p].step = "send" /\ Fault
    /\ Failed(p)
    /\ UNCHANGED <<disk, lock, mails>>

(* The exception leaves the block of _state before it saves.               *)
SendFails(p) ==
    /\ call[p].step = "send" /\ Fault
    /\ Failed(p) /\ Release(p)
    /\ UNCHANGED <<disk, mails>>

(* The message is in the state file: it was not lost from it by a crash or *)
(* a write that failed, and is there before a message it would have        *)
(* repeated could have been dropped for its age.                           *)
InTime(m) == now - m.at + m.gap <= Keep
MarkKept(p) ==
    mails' = {IF m.cust = call[p].cust /\ m.at = call[p].at /\ [key |-> m.key, gap |-> m.gap] \in call[p].due /\ InTime(m)
              THEN [m EXCEPT !.kept = TRUE] ELSE m : m \in mails}

(* The block ends, also when nothing was due: the recent entries are       *)
(* written and the lock goes; a write that fails is only logged.           *)
Save(p) ==
    /\ call[p].step = "save"
    /\ \/ disk' = [disk EXCEPT ![call[p].cust] = Recent(call[p].seen, now)] /\ MarkKept(p) /\ UNCHANGED faults
       \/ Fault /\ UNCHANGED <<disk, mails>>
    /\ call' = [call EXCEPT ![p] = NoCall]
    /\ Release(p)

UseState(p) == TakeLock(p) \/ Send(p) \/ SendFails(p) \/ Save(p)

(* The process dies: the kernel drops its flock.                           *)
Dropped(p) ==
    /\ call' = [call EXCEPT ![p] = NoCall]
    /\ Release(p)
    /\ Fault
    /\ UNCHANGED <<disk, mails>>

(* The scan can use the file: it can be read, and its settings of alerts   *)
(* are well-formed.  An account without an e-mail address is no matter.    *)
Usable(c) == settings[c] \in {"on", "off", "no_email"}

(* notify_event: never fails its caller, and sends nothing when the event  *)
(* is off or the file is no use; else it goes to the state file.           *)
Listening(c, e) == settings[c] = "on" /\ e \in EventsOn

Notify(p, c, e, n) == Raise(p, c, {[key |-> Key(e, n, 0), gap |-> MinGap[e]]})
-----------------------------------------------------------------------------
ScanEnded(s) == scan[s].pc = "customers" /\ scan[s].todo = <<>>

Overdue == day * Day + Jitter <= now

(* The clock; a timer that is overdue fires first.                         *)
Tick ==
    /\ now < MaxNow
    /\ \A s \in Scans : ScanEnded(s) => ~Overdue
    /\ now' = now + 1
    /\ UNCHANGED <<settings, entries, certs, stateVars, scanVars, faults>>

(* The timer fires at its hour plus a random delay.                        *)
TimerFires(s) ==
    /\ ScanEnded(s)
    /\ day * Day <= now
    /\ scan' = [scan EXCEPT ![s] = [NoScan EXCEPT !.todo = Order]]
    /\ day' = day + 1
    /\ UNCHANGED <<world, stateVars, faults>>

(* The certificates of configured names that are close to their expiry.    *)
DaysLeft(c, n) == certs[c][n] - now
ExpiringNames(c) == {n \in entries[c] : certs[c][n] # 0 /\ DaysLeft(c, n) <= WarnDays}
ExpiryWants(c) ==
    {[key |-> Key(Expiring, n, certs[c][n]), gap |-> IF DaysLeft(c, n) <= LastDays THEN LastGap ELSE WarnGap] :
        n \in ExpiringNames(c)}

ScanAsks(s, c) ==
    scan' = [scan EXCEPT ![s].pc = "alert",
                         ![s].asked = @ \cup {[cust |-> c, at |-> now, want |-> w] : w \in ExpiryWants(c)}]

(* check_expiry of the next customer.  A file that cannot be read is       *)
(* reported; an exception of another kind ends the whole scan.             *)
ScanCustomer(s) ==
    /\ scan[s].pc = "customers" /\ scan[s].todo # <<>>
    /\ LET c == Head(scan[s].todo) IN
       \/ /\ settings[c] = "unreadable"
          /\ scan' = [scan EXCEPT ![s].todo = Tail(@), ![s].rc = 1]
          /\ UNCHANGED call
       \/ /\ settings[c] = "broken"
          /\ scan' = [scan EXCEPT ![s].todo = <<>>, ![s].rc = 1]
          /\ UNCHANGED call
       \/ /\ Usable(c) /\ (ExpiringNames(c) = {} \/ ~Listening(c, Expiring))
          /\ scan' = [scan EXCEPT ![s].todo = Tail(@)]
          /\ UNCHANGED call
       \/ /\ ExpiringNames(c) # {} /\ Listening(c, Expiring)
          /\ ScanAsks(s, c) /\ Raise(s, c, ExpiryWants(c))
    /\ UNCHANGED <<world, disk, lock, mails, day, faults>>

(* A mutant of the next definition: a message that failed is only logged.  *)
ScanAlertedAnyway(s) ==
    /\ scan[s].pc = "alert" /\ call[s].step = "none"
    /\ scan' = [scan EXCEPT ![s].pc = "customers", ![s].todo = Tail(@)]
    /\ UNCHANGED <<world, stateVars, day, faults>>

(* What prevented the message is reported, or ends the whole scan.         *)
ScanAlerted(s) ==
    /\ scan[s].pc = "alert" /\ call[s].step = "none"
    /\ \/ scan' = [scan EXCEPT ![s].pc = "customers", ![s].todo = Tail(@), ![s].rc = IF call[s].ok THEN @ ELSE 1]
       \/ ~call[s].ok /\ scan' = [scan EXCEPT ![s].pc = "customers", ![s].todo = <<>>, ![s].rc = 1]
    /\ UNCHANGED <<world, stateVars, day, faults>>

Scan(s) == ScanCustomer(s) \/ ScanAlerted(s)
-----------------------------------------------------------------------------
Mailed(c, w, at) == \E m \in mails : m.cust = c /\ m.key = w.key /\ (m.at = at \/ at - m.at < w.gap)

(* notifications.py:592-599, docs/NOTIFICATIONS.md ("At most one email per *)
(* domain per 6 hours"): of the messages that reached the state file in    *)
(* time, two of one kind are at least their gap apart, whatever the        *)
(* processes that raised them were doing at the same time.                 *)
RateLimited ==
    \A m1, m2 \in {m \in mails : m.kept} :
        m1.cust = m2.cust /\ m1.key = m2.key /\ m1.at < m2.at => m2.at - m1.at >= m2.gap

(* A use of the state file that did not fail, and was not cut short, leaves*)
(* a message of each kind it was asked for, sent now or less than its gap  *)
(* ago: what could not be sent is never taken for sent (564-612, 673-706). *)
LimitedWasMailed ==
    [][\A p \in Procs : call[p].step = "wait" /\ call'[p].step \in {"send", "save"} =>
        \A w \in call[p].want \ call'[p].due : Mailed(call[p].cust, w, call[p].at)]_stateVars

(* acme-notify.py check-expiry (772-796): a scan that ends with 0 could use *)
(* every customer's file and mailed every certificate it saw expiring      *)
(* within the gap that applies to it.                                      *)
ScanTells ==
    \A s \in Scans : day > 0 /\ ScanEnded(s) /\ scan[s].rc = 0 =>
        /\ \A i \in 1 .. Len(Order) : Usable(Order[i])
        /\ \A a \in scan[s].asked : Mailed(a.cust, a.want, a.at)

(* notifications.py:655-656: "Re-alerts every 3 days, and daily once 3     *)
(* days or less remain": each day's scan, unless it failed, mails every    *)
(* certificate that is in its last days.                                   *)
LastDaysDaily ==
    \A s \in Scans : ScanEnded(s) /\ scan[s].rc = 0 =>
        \A a \in scan[s].asked : a.want.gap = LastGap =>
            \E m \in mails : m.cust = a.cust /\ m.key = a.want.key /\ m.at >= (day - 1) * Day
=============================================================================
