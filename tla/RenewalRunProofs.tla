-------------------------- MODULE RenewalRunProofs --------------------------
(***************************************************************************)
(* Type correctness of RenewalRun with Notifications, the distance between *)
(* alerts, and that neither the scan nor a run ends with a success it did  *)
(* not have.  The inductive invariant says what a state file is worth, on  *)
(* disk and in the hands of who holds its lock: each entry stands for a    *)
(* message that was sent, and each message that was recorded in time has   *)
(* an entry no older than itself until the entry is too old to matter.     *)
(***************************************************************************)
EXTENDS RenewalRun, SequenceTheorems, TLAPS

Holds(p) == call[p].step \in {"send", "save"}

(* The uses of the state file.                                             *)
CallKnown(p) == call[p].step # "none" => call[p].cust # Nobody /\ call[p].at <= now

Sent(c, k, t) == \E m \in mails : m.cust = c /\ m.key = k /\ m.at = t

Stamped(c)     == \A e \in disk[c] : Sent(c, e.key, e.at)
SeenStamped(p) == Holds(p) => \A e \in call[p].seen : Sent(call[p].cust, e.key, e.at)

Forgotten(m) == m.at + Keep < now
InFile(f, m) == Forgotten(m) \/ \E e \in f : e.key = m.key /\ e.at >= m.at

Remembered(c)   == \A m \in mails : m.kept /\ m.cust = c => InFile(disk[c], m)
SeenRemembers(p) == Holds(p) => \A m \in mails : m.kept /\ m.cust = call[p].cust => InFile(call[p].seen, m)

IsDue(p)      == call[p].step = "send" => \A w \in call[p].due : Due(call[p].seen, w, call[p].at)
IsRecorded(p) == call[p].step = "save" => \A w \in call[p].due : [key |-> w.key, at |-> call[p].at] \in call[p].seen
SpacedOut(p)  == Holds(p) => \A w \in call[p].due, m \in mails :
                    m.kept /\ m.cust = call[p].cust /\ m.key = w.key => Forgotten(m) \/ call[p].at - m.at >= w.gap

FileInv(c) == Stamped(c) /\ Remembered(c)
CallInv(p) == CallKnown(p) /\ SeenStamped(p) /\ SeenRemembers(p) /\ IsDue(p) /\ IsRecorded(p) /\ SpacedOut(p)

(* The scan: what it has still to look at is the end of the list.          *)
EndOfOrder(q) == Len(q) <= Len(Order) /\ \A i \in 1 .. Len(q) : q[i] = Order[Len(Order) - Len(q) + i]
Before(q)   == 1 .. (Len(Order) - Len(q))
ScanAt(s)   ==
    /\ EndOfOrder(scan[s].todo)
    /\ scan[s].pc = "alert" => scan[s].todo # <<>> /\ Usable(Head(scan[s].todo))
    /\ scan[s].pc = "customers" => call[s].step = "none"
ScanUsed(s) == day > 0 /\ scan[s].rc = 0 => \A i \in Before(scan[s].todo) : Usable(Order[i])
Asking(s, a) ==
    /\ scan[s].pc = "alert"
    /\ \/ call[s].step = "none" /\ ~call[s].ok
       \/ /\ a.cust = call[s].cust /\ a.at = call[s].at
          /\ \/ call[s].step = "wait" /\ a.want \in call[s].want
             \/ call[s].step = "send" /\ a.want \in call[s].due
ScanAsked(s) == scan[s].rc = 0 => \A a \in scan[s].asked : Asking(s, a) \/ Mailed(a.cust, a.want, a.at)

ScanInv(s) == ScanAt(s) /\ ScanUsed(s) /\ ScanAsked(s)

(* The runs.                                                               *)
SayKnown(p) ==
    /\ run[p].say # <<>> => run[p].at # Nobody
    /\ run[p].pc = "customers" => run[p].say = <<>>
ResultSet(p) == run[p].pc # "hook" => run[p].result = 0
BadTells(p) ==
    /\ run[p].failed \/ run[p].entryFailed <=> run[p].bad # {}
    /\ run[p].pc = "customers" /\ run[p].entryFailed => run[p].failed
Working(p, e) ==
    /\ run[p].pc # "customers" /\ e.cust = run[p].cust
    /\ \/ e.name \in run[p].names
       \/ run[p].pc = "certbot" /\ e.name = run[p].at
       \/ run[p].pc = "hook" /\ e.name = run[p].at /\ run[p].result = 1
Covered(p) ==
    /\ run[p].started <= now
    /\ \A e \in run[p].snapshot : e \in run[p].bad \/ Renewed(e.cust, e.name, run[p].started) \/ Working(p, e)

RunInv(p) == SayKnown(p) /\ ResultSet(p) /\ BadTells(p) /\ Covered(p)

WorldOK ==
    /\ now \in Times /\ settings \in InitialSettings
    /\ entries \in [Customers -> SUBSET Names]
    /\ certs \in [Customers -> [Names -> 0 .. MaxNow + Life]]
    /\ day \in Nat /\ faults \in 0 .. MaxFaults /\ runs \in 0 .. MaxRuns

FilesOK ==
    /\ disk \in [Customers -> SUBSET Stamps] /\ mails \subseteq Mails
    /\ lock \in [Customers -> Procs \cup {Nobody}] /\ call \in [Procs -> Call]
    /\ \A p \in Procs, c \in Customers : lock[c] = p <=> Holds(p) /\ call[p].cust = c

StatePart ==
    /\ FilesOK /\ RateLimited
    /\ \A c \in Customers : FileInv(c)
    /\ \A p \in Procs : CallInv(p)
ScanPart == scan \in [Scans -> ScanRun] /\ \A s \in Scans : ScanInv(s)
RunPart  ==
    /\ run \in [Callers -> Script]
    /\ \A p \in Callers : run[p].pc # "customers" => run[p].cust # Nobody
    /\ \A p \in Callers : run[p].pc \in {"certbot", "hook"} => run[p].at # Nobody
    /\ \A p \in Callers : RunInv(p)

IInv == WorldOK /\ StatePart /\ ScanPart /\ RunPart
-----------------------------------------------------------------------------
LEMMA ConstantFacts ==
    /\ Keep \in Nat /\ MaxNow \in Nat /\ Life \in Nat /\ MaxFaults \in Nat /\ MaxRuns \in Nat
    /\ RenewBefore \in Nat /\ RenewBefore < Life /\ LastGap \in Gaps /\ WarnGap \in Gaps
    /\ \A g \in Gaps : g \in Nat
    /\ \A e \in Events : MinGap[e] \in Gaps
    /\ Times \subseteq Nat /\ 0 \in Times
  BY GapsAssumption, RunsAssumption DEF Gaps, Times

(* What the records are, as far as the proofs need it.                     *)
LEMMA RecordFacts ==
    /\ \A m \in Mails : m.cust \in Customers /\ m.key \in Keys /\ m.gap \in Gaps /\ m.gap \in Nat /\ m.at \in Nat
    /\ \A e \in Stamps : e.key \in Keys /\ e.at \in Nat
    /\ \A w \in Wants : w.key \in Keys /\ w.gap \in Gaps /\ w.gap \in Nat
    /\ \A r \in Call : /\ r.cust \in Customers \cup {Nobody} /\ r.at \in Times /\ r.at \in Nat
                       /\ r.want \subseteq Wants /\ r.due \subseteq Wants /\ r.seen \subseteq Stamps
<1>1. \A m \in Mails : m.cust \in Customers /\ m.key \in Keys /\ m.gap \in Gaps /\ m.at \in Times
  BY DEF Mails
<1>2. \A e \in Stamps : e.key \in Keys /\ e.at \in Times
  BY DEF Stamps
<1>3. \A w \in Wants : w.key \in Keys /\ w.gap \in Gaps
  BY DEF Wants
<1>4. \A r \in Call : /\ r.cust \in Customers \cup {Nobody} /\ r.at \in Times
                     /\ r.want \subseteq Wants /\ r.due \subseteq Wants /\ r.seen \subseteq Stamps
  BY DEF Call
<1> QED
  BY <1>1, <1>2, <1>3, <1>4, ConstantFacts

(* A step that only adds messages, of which none is recorded by the step   *)
(* but perhaps some of customer c.                                         *)
MailsStay    == \A m \in mails : \E n \in mails' : n.cust = m.cust /\ n.key = m.key /\ n.at = m.at
KeptWere(c)  == \A n \in mails' : n.kept /\ n.cust # c =>
                    \E m \in mails : m.kept /\ m.cust = n.cust /\ m.key = n.key /\ m.at = n.at

LEMMA SentStays ==
    ASSUME MailsStay, NEW c, NEW k, NEW t, Sent(c, k, t)
    PROVE  Sent(c, k, t)'
  BY DEF MailsStay, Sent

(* Nothing is remembered anew, and time goes on.                           *)
LEMMA InFileStays ==
    ASSUME NEW f \in SUBSET Stamps, NEW m \in Mails, InFile(f, m),
           NEW n \in Mails, n.key = m.key, n.at = m.at, now \in Nat, now' \in Nat, now <= now'
    PROVE  InFile(f, n)'
  BY ConstantFacts, RecordFacts DEF InFile, Forgotten

(* The other calls: a step of one that holds the lock of customer c.       *)
LEMMA OtherCall ==
    ASSUME FilesOK, FilesOK', NEW c, MailsStay, KeptWere(c), now \in Nat, now' \in Nat, now <= now',
           NEW q \in Procs, CallInv(q), UNCHANGED call[q], Holds(q) => call[q].cust # c
    PROVE  CallInv(q)'
<1> DEFINE r == call[q]
<1>1. /\ r \in Call /\ mails \subseteq Mails /\ mails' \subseteq Mails
      /\ Holds(q)' <=> Holds(q)
  BY DEF FilesOK, Holds
<1>2. CallKnown(q)'
  BY <1>1, RecordFacts DEF CallInv, CallKnown
<1>3. SeenStamped(q)'
  BY <1>1, SentStays DEF CallInv, SeenStamped
<1>4. SeenRemembers(q)'
  <2> SUFFICES ASSUME Holds(q), NEW n \in mails', n.kept, n.cust = r.cust PROVE InFile(r.seen, n)'
    BY <1>1 DEF SeenRemembers
  <2>1. PICK m \in mails : m.kept /\ m.cust = n.cust /\ m.key = n.key /\ m.at = n.at
    BY DEF KeptWere
  <2>2. InFile(r.seen, m) /\ r.seen \in SUBSET Stamps
    BY <1>1, <2>1 DEF CallInv, SeenRemembers, Call
  <2> QED
    BY <1>1, <2>1, <2>2, InFileStays
<1>5. IsDue(q)' /\ IsRecorded(q)'
  BY DEF CallInv, IsDue, IsRecorded, Due
<1>6. SpacedOut(q)'
  <2> SUFFICES ASSUME Holds(q), NEW w \in r.due, NEW n \in mails', n.kept, n.cust = r.cust, n.key = w.key
               PROVE  Forgotten(n)' \/ r.at - n.at >= w.gap
    BY <1>1 DEF SpacedOut
  <2>1. PICK m \in mails : m.kept /\ m.cust = n.cust /\ m.key = n.key /\ m.at = n.at
    BY DEF KeptWere
  <2>2. Forgotten(m) \/ r.at - m.at >= w.gap
    BY <2>1 DEF CallInv, SpacedOut
  <2> QED
    BY <1>1, <2>1, <2>2, ConstantFacts, RecordFacts DEF Forgotten
<1> QED
  BY <1>2, <1>3, <1>4, <1>5, <1>6 DEF CallInv

(* The other files.                                                        *)
LEMMA OtherFile ==
    ASSUME FilesOK, FilesOK', NEW c, MailsStay, KeptWere(c), now \in Nat, now' \in Nat, now <= now',
           NEW d \in Customers, FileInv(d), UNCHANGED disk[d], d # c
    PROVE  FileInv(d)'
<1>1. disk[d] \in SUBSET Stamps /\ mails \subseteq Mails /\ mails' \subseteq Mails
  BY DEF FilesOK
<1>2. Stamped(d)'
  BY SentStays DEF FileInv, Stamped
<1>3. Remembered(d)'
  <2> SUFFICES ASSUME NEW n \in mails', n.kept, n.cust = d PROVE InFile(disk[d], n)'
    BY DEF Remembered
  <2>1. PICK m \in mails : m.kept /\ m.cust = n.cust /\ m.key = n.key /\ m.at = n.at
    BY DEF KeptWere
  <2>2. InFile(disk[d], m)
    BY <2>1 DEF FileInv, Remembered
  <2> QED
    BY <1>1, <2>1, <2>2, InFileStays
<1> QED
  BY <1>2, <1>3 DEF FileInv

(* Of two processes that hold a lock.                                      *)
LEMMA Holders ==
    ASSUME FilesOK, NEW p \in Procs, CallInv(p), Holds(p), NEW q \in Procs, Holds(q), p # q
    PROVE  call[p].cust \in Customers /\ call[q].cust # call[p].cust
<1>1. call[p].cust \in Customers
  BY RecordFacts DEF FilesOK, CallInv, CallKnown, Holds
<1> QED
  BY <1>1 DEF FilesOK

LEMMA StateTakeLock ==
    ASSUME WorldOK, StatePart, NEW p \in Procs, TakeLock(p), UNCHANGED now
    PROVE  StatePart'
<1> DEFINE r0  == call[p]
           c   == r0.cust
           due == {w \in r0.want : Due(disk[c], w, r0.at)}
           st  == IF due = {} THEN "save" ELSE "send"
<1>1. PICK r : r = [r0 EXCEPT !.step = st, !.due = due, !.seen = disk[c]]
  OBVIOUS
<1>2. /\ FilesOK /\ RateLimited /\ now \in Nat
      /\ \A d \in Customers : FileInv(d)
      /\ \A q \in Procs : CallInv(q)
  BY ConstantFacts DEF StatePart, WorldOK
<1>3. /\ r0 \in Call /\ r0.step = "wait" /\ lock[c] = Nobody
      /\ disk' = disk /\ mails' = mails /\ lock' = [lock EXCEPT ![c] = p]
  BY <1>2 DEF TakeLock, FilesOK
<1>4. c \in Customers /\ r0.at <= now /\ r0.at \in Nat
  BY <1>2, <1>3, RecordFacts DEF CallInv, CallKnown
<1>5. /\ disk[c] \in SUBSET Stamps /\ due \in SUBSET Wants /\ st \in {"send", "save"}
      /\ mails \subseteq Mails
  BY <1>2, <1>3, <1>4, RecordFacts DEF FilesOK
<1>6. /\ r \in Call /\ r.step = st /\ r.due = due /\ r.seen = disk[c]
      /\ r.cust = c /\ r.at = r0.at
  <2>1. st \in {"none", "wait", "send", "save"} /\ disk[c] \in SUBSET Stamps
    BY <1>5
  <2> HIDE DEF due, st, c
  <2>2. r0 \in Call /\ due \in SUBSET Wants /\ r = [r0 EXCEPT !.step = st, !.due = due, !.seen = disk[c]]
    BY <1>1, <1>3, <1>5
  <2>3. /\ r \in Call /\ r.step = st /\ r.due = due /\ r.seen = disk[c]
        /\ r.cust = r0.cust /\ r.at = r0.at
    BY <2>1, <2>2 DEF Call
  <2> QED
    BY <2>3 DEF c
<1>7. call' = [call EXCEPT ![p] = r]
  BY <1>1, <1>2, <1>3 DEF TakeLock, ReadState, FilesOK
<1>8. /\ call'[p] = r
      /\ \A q \in Procs : q # p => call'[q] = call[q]
      /\ call' \in [Procs -> Call]
  BY <1>2, <1>6, <1>7 DEF FilesOK
<1>9. FilesOK'
  <2>1. lock' \in [Customers -> Procs \cup {Nobody}]
    BY <1>2, <1>3 DEF FilesOK
  <2>2. ASSUME NEW q \in Procs, NEW d \in Customers
        PROVE  lock'[d] = q <=> Holds(q)' /\ call'[q].cust = d
    <3>1. CASE q = p
      <4>1. Holds(q)' /\ call'[q].cust = c /\ ~Holds(p)
        BY <3>1, <1>3, <1>5, <1>6, <1>8 DEF Holds
      <4> QED
        BY <3>1, <4>1, <1>2, <1>3, <1>4 DEF FilesOK
    <3>2. CASE q # p
      <4>1. (Holds(q)' <=> Holds(q)) /\ call'[q].cust = call[q].cust
        BY <3>2, <1>8 DEF Holds
      <4> QED
        BY <3>2, <4>1, <1>2, <1>3, <1>4, ProcsAssumption DEF FilesOK
    <3> QED
      BY <3>1, <3>2
  <2> QED
    BY <2>1, <2>2, <1>2, <1>3, <1>8 DEF FilesOK
<1>10. /\ MailsStay /\ KeptWere(Nobody)
  BY <1>3 DEF MailsStay, KeptWere
<1>11. ASSUME NEW d \in Customers PROVE FileInv(d)'
  BY <1>2, <1>3, <1>9, <1>10, OtherFile, ProcsAssumption
<1>12. ASSUME NEW q \in Procs, q # p PROVE CallInv(q)'
  <2>1. call[q].cust # Nobody \/ ~Holds(q)
    BY <1>2 DEF CallInv, CallKnown, Holds
  <2> QED
    BY <2>1, <1>2, <1>8, <1>9, <1>10, <1>12, OtherCall
<1>13. CallInv(p)'
  <2>1. CallKnown(p)'
    BY <1>4, <1>6, <1>8, ProcsAssumption DEF CallKnown
  <2>2. SeenStamped(p)'
    BY <1>2, <1>3, <1>4, <1>6, <1>8 DEF SeenStamped, FileInv, Stamped, Sent
  <2>3. SeenRemembers(p)'
    BY <1>2, <1>3, <1>4, <1>6, <1>8 DEF SeenRemembers, FileInv, Remembered, InFile, Forgotten
  <2>4. IsDue(p)' /\ IsRecorded(p)'
    BY <1>6, <1>8 DEF IsDue, IsRecorded, Due
  <2>5. SpacedOut(p)'
    <3> SUFFICES ASSUME NEW w \in due, NEW m \in mails, m.kept, m.cust = c, m.key = w.key
                 PROVE  Forgotten(m) \/ r0.at - m.at >= w.gap
      BY <1>3, <1>6, <1>8 DEF SpacedOut, Forgotten
    <3>1. InFile(disk[c], m)
      BY <1>2, <1>4 DEF FileInv, Remembered
    <3>2. CASE \E e \in disk[c] : e.key = m.key /\ e.at >= m.at
      <4>1. PICK e \in disk[c] : e.key = m.key /\ e.at >= m.at
        BY <3>2
      <4>2. r0.at - e.at >= w.gap
        BY <4>1 DEF Due
      <4>3. e.at \in Nat /\ m.at \in Nat /\ w.gap \in Nat
        BY <1>5, <4>1, RecordFacts
      <4> QED
        BY <4>1, <4>2, <4>3, <1>4
    <3> QED
      BY <3>1, <3>2 DEF InFile
  <2> QED
    BY <2>1, <2>2, <2>3, <2>4, <2>5 DEF CallInv
<1>14. RateLimited'
  BY <1>2, <1>3 DEF RateLimited
<1> QED
  BY <1>9, <1>11, <1>12, <1>13, <1>14 DEF StatePart

(* A call that keeps its lock, and only adds messages not yet recorded.    *)
LEMMA StateSend ==
    ASSUME WorldOK, StatePart, NEW p \in Procs, Send(p), UNCHANGED now
    PROVE  StatePart'
<1> DEFINE r0  == call[p]
           c   == r0.cust
           s   == Recorded(r0.seen, DueKeys(p), r0.at)
           new == {[cust |-> c, key |-> w.key, gap |-> w.gap, at |-> r0.at, kept |-> FALSE] : w \in r0.due}
<1>1. PICK r : r = [r0 EXCEPT !.step = "save", !.seen = s]
  OBVIOUS
<1>2. /\ FilesOK /\ RateLimited /\ now \in Nat
      /\ \A d \in Customers : FileInv(d)
      /\ \A q \in Procs : CallInv(q)
  BY ConstantFacts DEF StatePart, WorldOK
<1>3. /\ r0 \in Call /\ r0.step = "send" /\ Holds(p)
      /\ disk' = disk /\ lock' = lock /\ mails' = mails \cup new
  BY <1>2 DEF Send, FilesOK, Holds
<1>4. c \in Customers /\ r0.at <= now /\ r0.at \in Nat /\ r0.at \in Times
  BY <1>2, <1>3, RecordFacts DEF CallInv, CallKnown
<1>5. r0.seen \in SUBSET Stamps /\ r0.due \in SUBSET Wants /\ mails \subseteq Mails
  BY <1>2, <1>3, RecordFacts DEF FilesOK
<1>6. s \in SUBSET Stamps
  <2>1. \A w \in r0.due : [key |-> w.key, at |-> r0.at] \in Stamps
    BY <1>4, <1>5, RecordFacts DEF Stamps
  <2> QED
    BY <1>5, <2>1 DEF Recorded, DueKeys
<1>7. new \subseteq Mails /\ \A n \in new : ~n.kept
  <2> SUFFICES ASSUME NEW w \in r0.due
               PROVE  [cust |-> c, key |-> w.key, gap |-> w.gap, at |-> r0.at, kept |-> FALSE] \in Mails
    OBVIOUS
  <2>1. w.key \in Keys /\ w.gap \in Gaps
    BY <1>5, RecordFacts
  <2> QED
    BY <1>4, <2>1 DEF Mails
<1>8. /\ r \in Call /\ r.step = "save" /\ r.due = r0.due /\ r.seen = s
      /\ r.cust = c /\ r.at = r0.at
  <2> HIDE DEF s
  <2> QED
    BY <1>1, <1>3, <1>6 DEF Call
<1>9. call' = [call EXCEPT ![p] = r]
  BY <1>1, <1>2, <1>3 DEF Send, FilesOK
<1>10. /\ call'[p] = r
       /\ \A q \in Procs : q # p => call'[q] = call[q]
       /\ call' \in [Procs -> Call]
  BY <1>2, <1>8, <1>9 DEF FilesOK
<1>11. FilesOK'
  <2>1. \A q \in Procs : (Holds(q)' <=> Holds(q)) /\ call'[q].cust = call[q].cust
    BY <1>3, <1>8, <1>10 DEF Holds
  <2> QED
    BY <2>1, <1>2, <1>3, <1>5, <1>7, <1>10 DEF FilesOK
<1>12. /\ MailsStay /\ KeptWere(Nobody)
       /\ \A n \in mails' : n.kept => n \in mails
  BY <1>3, <1>7 DEF MailsStay, KeptWere
<1>13. ASSUME NEW d \in Customers PROVE FileInv(d)'
  BY <1>2, <1>3, <1>11, <1>12, OtherFile, ProcsAssumption
<1>14. ASSUME NEW q \in Procs, q # p PROVE CallInv(q)'
  <2>1. call[q].cust # Nobody \/ ~Holds(q)
    BY <1>2 DEF CallInv, CallKnown, Holds
  <2> QED
    BY <2>1, <1>2, <1>10, <1>11, <1>12, <1>14, OtherCall
<1>15. CallInv(p)'
  <2>1. CallKnown(p)'
    BY <1>4, <1>8, <1>10, ProcsAssumption DEF CallKnown
  <2>2. SeenStamped(p)'
    <3> SUFFICES ASSUME NEW e \in s PROVE \E m \in mails' : m.cust = c /\ m.key = e.key /\ m.at = e.at
      BY <1>8, <1>10 DEF SeenStamped, Sent
    <3>1. CASE e \in r0.seen
      BY <3>1, <1>2, <1>3 DEF CallInv, SeenStamped, Sent
    <3>2. CASE \E w \in r0.due : e = [key |-> w.key, at |-> r0.at]
      <4>1. PICK w \in r0.due : e = [key |-> w.key, at |-> r0.at]
        BY <3>2
      <4>2. PICK n : n = [cust |-> c, key |-> w.key, gap |-> w.gap, at |-> r0.at, kept |-> FALSE]
        OBVIOUS
      <4>3. n \in new
        BY <4>2
      <4>4. n.cust = c /\ n.key = w.key /\ n.at = r0.at
        BY <4>2
      <4> QED
        BY <4>1, <4>3, <4>4, <1>3
    <3> QED
      BY <3>1, <3>2 DEF Recorded, DueKeys
  <2>3. SeenRemembers(p)'
    <3> SUFFICES ASSUME NEW m \in mails, m.kept, m.cust = c PROVE InFile(s, m)
      BY <1>3, <1>8, <1>10, <1>12 DEF SeenRemembers, InFile, Forgotten
    <3>1. InFile(r0.seen, m)
      BY <1>2, <1>3 DEF CallInv, SeenRemembers
    <3>2. ASSUME NEW e \in r0.seen, e.key = m.key, e.at >= m.at PROVE InFile(s, m)
      <4>1. CASE e.key \notin DueKeys(p)
        BY <3>2, <4>1 DEF InFile, Recorded
      <4>2. CASE e.key \in DueKeys(p)
        <5>1. PICK w \in r0.due : w.key = e.key
          BY <4>2 DEF DueKeys
        <5>2. r0.at - e.at >= w.gap
          BY <5>1, <1>2, <1>3 DEF CallInv, IsDue, Due
        <5>3. e.at \in Nat /\ m.at \in Nat /\ w.gap \in Nat
          BY <1>5, RecordFacts
        <5>4. [key |-> w.key, at |-> r0.at] \in s
          BY DEF Recorded, DueKeys
        <5> QED
          BY <3>2, <5>1, <5>2, <5>3, <5>4, <1>4 DEF InFile
      <4> QED
        BY <4>1, <4>2
    <3> QED
      BY <3>1, <3>2 DEF InFile
  <2>4. IsDue(p)' /\ IsRecorded(p)'
    BY <1>8, <1>10 DEF IsDue, IsRecorded, Recorded, DueKeys
  <2>5. SpacedOut(p)'
    BY <1>2, <1>3, <1>8, <1>10, <1>12 DEF CallInv, SpacedOut, Forgotten
  <2> QED
    BY <2>1, <2>2, <2>3, <2>4, <2>5 DEF CallInv
<1>16. RateLimited'
  BY <1>2, <1>12 DEF RateLimited
<1> QED
  BY <1>11, <1>13, <1>14, <1>15, <1>16 DEF StatePart

LEMMA IdleCalls ==
    ASSUME NEW r \in {NoCall, [NoCall EXCEPT !.ok = FALSE]}
    PROVE  r \in Call /\ r.step = "none"
<1>1. NoCall \in Call /\ NoCall.step = "none"
  BY ConstantFacts DEF NoCall, Call
<1>2. [NoCall EXCEPT !.ok = FALSE] \in Call /\ [NoCall EXCEPT !.ok = FALSE].step = "none"
  BY ConstantFacts DEF NoCall, Call
<1> QED
  BY <1>1, <1>2

(* A call that ends: its locks go, the others have what they had.          *)
LEMMA FilesReleased ==
    ASSUME FilesOK, NEW p \in Procs, NEW r \in Call, r.step = "none", call' = [call EXCEPT ![p] = r], Release(p),
           disk' \in [Customers -> SUBSET Stamps], mails' \subseteq Mails
    PROVE  /\ FilesOK' /\ call'[p] = r
           /\ \A q \in Procs : q # p => call'[q] = call[q]
<1>1. /\ call'[p] = r
      /\ \A q \in Procs : q # p => call'[q] = call[q]
      /\ call' \in [Procs -> Call]
  BY DEF FilesOK
<1>2. lock' \in [Customers -> Procs \cup {Nobody}]
  BY DEF FilesOK, Release
<1>3. ASSUME NEW q \in Procs, NEW d \in Customers
      PROVE  lock'[d] = q <=> Holds(q)' /\ call'[q].cust = d
  <2>1. lock'[d] = IF lock[d] = p THEN Nobody ELSE lock[d]
    BY DEF Release
  <2>2. CASE q = p
    BY <2>1, <2>2, <1>1, ProcsAssumption DEF Holds
  <2>3. CASE q # p
    <3>1. (Holds(q)' <=> Holds(q)) /\ call'[q].cust = call[q].cust
      BY <2>3, <1>1 DEF Holds
    <3> QED
      BY <2>1, <2>3, <3>1, ProcsAssumption DEF FilesOK
  <2> QED
    BY <2>2, <2>3
<1> QED
  BY <1>1, <1>2, <1>3 DEF FilesOK

LEMMA StateReleases ==
    ASSUME WorldOK, StatePart, NEW p \in Procs, NEW r \in {NoCall, [NoCall EXCEPT !.ok = FALSE]},
           call' = [call EXCEPT ![p] = r], Release(p), UNCHANGED <<now, disk, mails>>
    PROVE  StatePart'
<1>1. /\ FilesOK /\ RateLimited /\ now \in Nat
      /\ \A d \in Customers : FileInv(d)
      /\ \A q \in Procs : CallInv(q)
  BY ConstantFacts DEF StatePart, WorldOK
<1>2. r \in Call /\ r.step = "none"
  BY IdleCalls
<1>3. disk' \in [Customers -> SUBSET Stamps] /\ mails' \subseteq Mails
  BY <1>1 DEF FilesOK
<1>4. /\ FilesOK' /\ call'[p] = r
      /\ \A q \in Procs : q # p => call'[q] = call[q]
  BY <1>1, <1>2, <1>3, FilesReleased
<1>5. MailsStay /\ KeptWere(Nobody)
  BY DEF MailsStay, KeptWere
<1>6. ASSUME NEW d \in Customers PROVE FileInv(d)'
  BY <1>1, <1>4, <1>5, OtherFile, ProcsAssumption
<1>7. ASSUME NEW q \in Procs PROVE CallInv(q)'
  <2>1. CASE q = p
    BY <2>1, <1>2, <1>4 DEF CallInv, CallKnown, SeenStamped, SeenRemembers, IsDue, IsRecorded, SpacedOut, Holds
  <2>2. CASE q # p
    <3>1. call[q].cust # Nobody \/ ~Holds(q)
      BY <1>1 DEF CallInv, CallKnown, Holds
    <3> QED
      BY <2>2, <3>1, <1>1, <1>4, <1>5, OtherCall
  <2> QED
    BY <2>1, <2>2
<1>8. RateLimited'
  BY <1>1 DEF RateLimited
<1> QED
  BY <1>4, <1>6, <1>7, <1>8 DEF StatePart

(* The save that succeeds.  A message is marked only when the entries of   *)
(* earlier ones could still be there when the state file was read.         *)
LEMMA StateSaves ==
    ASSUME WorldOK, StatePart, NEW p \in Procs, call[p].step = "save", MarkKept(p), Release(p),
           disk' = [disk EXCEPT ![call[p].cust] = Recent(call[p].seen, now)],
           call' = [call EXCEPT ![p] = NoCall], UNCHANGED now
    PROVE  StatePart'
<1> DEFINE r0 == call[p]
           Marked(m) == m.cust = r0.cust /\ m.at = r0.at /\ [key |-> m.key, gap |-> m.gap] \in r0.due /\ InTime(m)
           Same(m, n) == n.cust = m.cust /\ n.key = m.key /\ n.gap = m.gap /\ n.at = m.at
<1>1. /\ FilesOK /\ RateLimited /\ now \in Nat
      /\ \A d \in Customers : FileInv(d)
      /\ \A q \in Procs : CallInv(q)
  BY ConstantFacts DEF StatePart, WorldOK
<1>2. PICK c : c = r0.cust
  OBVIOUS
<1>3. r0 \in Call /\ r0.step = "save" /\ Holds(p)
  BY <1>1 DEF FilesOK, Holds
<1>4. /\ c \in Customers /\ r0.at <= now /\ r0.at \in Nat
      /\ r0.seen \in SUBSET Stamps /\ r0.due \in SUBSET Wants /\ mails \subseteq Mails
  BY <1>1, <1>2, <1>3, RecordFacts DEF CallInv, CallKnown, FilesOK
<1>5. ASSUME NEW m \in mails
      PROVE  LET n == [m EXCEPT !.kept = TRUE] IN n \in Mails /\ Same(m, n)
  BY <1>4 DEF Mails
<1>6. /\ mails' \subseteq Mails
      /\ \A n \in mails' : \E m \in mails : Same(m, n) /\ (n.kept => m.kept \/ Marked(m))
      /\ \A m \in mails : \E n \in mails' : Same(m, n)
  <2>1. mails' = {IF Marked(m) THEN [m EXCEPT !.kept = TRUE] ELSE m : m \in mails}
    BY DEF MarkKept
  <2> HIDE DEF Marked
  <2>2. \A n \in mails' : \E m \in mails : n = IF Marked(m) THEN [m EXCEPT !.kept = TRUE] ELSE m
    BY <2>1
  <2>3. \A m \in mails : \E n \in mails' : n = IF Marked(m) THEN [m EXCEPT !.kept = TRUE] ELSE m
    BY <2>1
  <2>4. ASSUME NEW n \in mails'
        PROVE  n \in Mails /\ \E m \in mails : Same(m, n) /\ (n.kept => m.kept \/ Marked(m))
    <3>1. PICK m \in mails : n = IF Marked(m) THEN [m EXCEPT !.kept = TRUE] ELSE m
      BY <2>2
    <3>2. CASE Marked(m)
      BY <3>1, <3>2, <1>5
    <3>3. CASE ~Marked(m)
      BY <3>1, <3>3, <1>4
    <3> QED
      BY <3>2, <3>3
  <2>5. ASSUME NEW m \in mails PROVE \E n \in mails' : Same(m, n)
    <3>1. PICK n \in mails' : n = IF Marked(m) THEN [m EXCEPT !.kept = TRUE] ELSE m
      BY <2>3
    <3>2. CASE Marked(m)
      BY <3>1, <3>2, <1>5
    <3>3. CASE ~Marked(m)
      BY <3>1, <3>3, <1>4
    <3> QED
      BY <3>2, <3>3
  <2> QED
    BY <2>4, <2>5
<1>7. /\ disk' \in [Customers -> SUBSET Stamps] /\ disk'[c] = Recent(r0.seen, now)
      /\ \A d \in Customers : d # c => disk'[d] = disk[d]
  BY <1>1, <1>2, <1>4 DEF FilesOK, Recent
<1>8. /\ FilesOK' /\ call'[p] = NoCall /\ NoCall.step = "none"
      /\ \A q \in Procs : q # p => call'[q] = call[q]
  BY <1>1, <1>6, <1>7, IdleCalls, FilesReleased
<1>9. MailsStay /\ KeptWere(c)
  <2>1. MailsStay
    BY <1>6 DEF MailsStay
  <2>2. ASSUME NEW n \in mails', n.kept, n.cust # c
        PROVE  \E m \in mails : m.kept /\ m.cust = n.cust /\ m.key = n.key /\ m.at = n.at
    <3>1. PICK m \in mails : Same(m, n) /\ (m.kept \/ Marked(m))
      BY <2>2, <1>6
    <3> QED
      BY <2>2, <3>1, <1>2
  <2> QED
    BY <2>1, <2>2 DEF KeptWere
<1>10. ASSUME NEW d \in Customers, d # c PROVE FileInv(d)'
  BY <1>1, <1>7, <1>8, <1>9, <1>10, OtherFile
<1>11. FileInv(c)'
  <2>1. Stamped(c)'
    <3> SUFFICES ASSUME NEW e \in Recent(r0.seen, now) PROVE \E n \in mails' : n.cust = c /\ n.key = e.key /\ n.at = e.at
      BY <1>7 DEF Stamped, Sent
    <3>1. PICK m \in mails : m.cust = c /\ m.key = e.key /\ m.at = e.at
      BY <1>1, <1>2, <1>3 DEF Recent, CallInv, SeenStamped, Sent
    <3> QED
      BY <3>1, <1>6
  <2>2. Remembered(c)'
    <3> SUFFICES ASSUME NEW n \in mails', n.kept, n.cust = c PROVE InFile(Recent(r0.seen, now), n)
      BY <1>7 DEF Remembered, InFile, Forgotten
    <3>1. PICK m \in mails : Same(m, n) /\ (m.kept \/ Marked(m))
      BY <1>6
    <3>2. InFile(r0.seen, m)
      <4>1. CASE m.kept
        BY <3>1, <4>1, <1>1, <1>2, <1>3 DEF CallInv, SeenRemembers
      <4>2. CASE Marked(m)
        <5>1. [key |-> m.key, at |-> m.at] \in r0.seen
          BY <4>2, <1>1, <1>3 DEF CallInv, IsRecorded
        <5> QED
          BY <5>1, <1>4, RecordFacts DEF InFile
      <4> QED
        BY <3>1, <4>1, <4>2
    <3>3. m.at \in Nat /\ n.at = m.at /\ n.key = m.key /\ Keep \in Nat
      BY <3>1, <1>4, RecordFacts, ConstantFacts
    <3>4. ASSUME NEW e \in r0.seen, e.key = m.key, e.at >= m.at PROVE InFile(Recent(r0.seen, now), n)
      <4>1. e.at \in Nat
        BY <1>4, RecordFacts
      <4> QED
        BY <3>3, <3>4, <4>1, <1>1 DEF InFile, Recent, Forgotten
    <3> QED
      BY <3>2, <3>3, <3>4 DEF InFile, Forgotten
  <2> QED
    BY <2>1, <2>2 DEF FileInv
<1>12. ASSUME NEW q \in Procs PROVE CallInv(q)'
  <2>1. CASE q = p
    BY <2>1, <1>8 DEF CallInv, CallKnown, SeenStamped, SeenRemembers, IsDue, IsRecorded, SpacedOut, Holds
  <2>2. CASE q # p
    <3>1. call[q].cust # c \/ ~Holds(q)
      BY <2>2, <1>1, <1>2, <1>3, Holders
    <3> QED
      BY <2>2, <3>1, <1>1, <1>8, <1>9, OtherCall
  <2> QED
    BY <2>1, <2>2
<1>13. RateLimited'
  <2> SUFFICES ASSUME NEW u1 \in mails', NEW u2 \in mails', u1.kept, u2.kept,
                      u1.cust = u2.cust, u1.key = u2.key, u1.at < u2.at
               PROVE  u2.at - u1.at >= u2.gap
    BY DEF RateLimited
  <2>1. PICK m1 \in mails : Same(m1, u1) /\ (m1.kept \/ Marked(m1))
    BY <1>6
  <2>2. PICK m2 \in mails : Same(m2, u2) /\ (m2.kept \/ Marked(m2))
    BY <1>6
  <2>3. /\ m1.at \in Nat /\ m2.at \in Nat /\ m1.gap \in Nat /\ m2.gap \in Nat /\ Keep \in Nat
        /\ m1.cust = m2.cust /\ m1.key = m2.key /\ m1.at < m2.at
    BY <2>1, <2>2, <1>4, RecordFacts, ConstantFacts
  <2>4. ASSUME NEW m \in mails, m.kept, NEW x \in mails, Marked(x), m.cust = x.cust, m.key = x.key
        PROVE  m.at + Keep < now \/ x.at - m.at >= x.gap
    <3>1. PICK w \in r0.due : w = [key |-> x.key, gap |-> x.gap]
      BY <2>4
    <3>2. w.key = x.key /\ w.gap = x.gap
      BY <3>1
    <3> QED
      BY <2>4, <3>2, <1>1, <1>3 DEF CallInv, SpacedOut, Forgotten
  <2>5. m2.at - m1.at >= m2.gap
    <3>1. CASE m1.kept /\ m2.kept
      BY <3>1, <2>3, <1>1 DEF RateLimited
    <3>2. CASE m1.kept /\ Marked(m2)
      <4>1. m1.at + Keep < now \/ m2.at - m1.at >= m2.gap
        BY <3>2, <2>3, <2>4
      <4>2. now - m2.at + m2.gap <= Keep
        BY <3>2 DEF InTime
      <4> QED
        BY <4>1, <4>2, <2>3, <1>1
    <3>3. CASE Marked(m1) /\ m2.kept
      <4>1. m2.at + Keep < now \/ m1.at - m2.at >= m1.gap
        BY <3>3, <2>3, <2>4
      <4>2. now - m1.at + m1.gap <= Keep
        BY <3>3 DEF InTime
      <4> QED
        BY <4>1, <4>2, <2>3, <1>1
    <3>4. CASE Marked(m1) /\ Marked(m2)
      BY <3>4, <2>3, <1>4
    <3> QED
      BY <3>1, <3>2, <3>3, <3>4, <2>1, <2>2
  <2> QED
    BY <2>1, <2>2, <2>5
<1> QED
  BY <1>8, <1>10, <1>11, <1>12, <1>13 DEF StatePart

LEMMA StateRaises ==
    ASSUME WorldOK, StatePart, NEW p \in Procs, call[p].step = "none", NEW c \in Customers, NEW want \in SUBSET Wants,
           Raise(p, c, want), UNCHANGED <<now, disk, lock, mails>>
    PROVE  StatePart'
<1>1. /\ FilesOK /\ RateLimited /\ now \in Nat /\ now \in Times
      /\ \A d \in Customers : FileInv(d)
      /\ \A q \in Procs : CallInv(q)
  BY ConstantFacts DEF StatePart, WorldOK
<1>2. PICK r : r = [NoCall EXCEPT !.step = "wait", !.cust = c, !.at = now, !.want = want]
  OBVIOUS
<1>3. r \in Call /\ r.step = "wait" /\ r.cust = c /\ r.at = now
  BY <1>1, <1>2 DEF NoCall, Call
<1>4. /\ call'[p] = r
      /\ \A q \in Procs : q # p => call'[q] = call[q]
      /\ call' \in [Procs -> Call]
  BY <1>1, <1>2, <1>3 DEF Raise, FilesOK
<1>5. FilesOK'
  <2>1. ~Holds(p) /\ ~Holds(p)'
    BY <1>3, <1>4 DEF Holds
  <2>2. \A q \in Procs : q # p => (Holds(q)' <=> Holds(q)) /\ call'[q].cust = call[q].cust
    BY <1>4 DEF Holds
  <2> QED
    BY <2>1, <2>2, <1>1, <1>4 DEF FilesOK
<1>6. MailsStay /\ KeptWere(Nobody)
  BY DEF MailsStay, KeptWere
<1>7. ASSUME NEW d \in Customers PROVE FileInv(d)'
  BY <1>1, <1>5, <1>6, OtherFile, ProcsAssumption
<1>8. ASSUME NEW q \in Procs PROVE CallInv(q)'
  <2>1. CASE q = p
    <3>1. CallKnown(p)'
      BY <1>1, <1>3, <1>4, ProcsAssumption DEF CallKnown
    <3> QED
      BY <2>1, <3>1, <1>3, <1>4 DEF CallInv, SeenStamped, SeenRemembers, IsDue, IsRecorded, SpacedOut, Holds
  <2>2. CASE q # p
    <3>1. call[q].cust # Nobody \/ ~Holds(q)
      BY <1>1 DEF CallInv, CallKnown, Holds
    <3> QED
      BY <2>2, <3>1, <1>1, <1>4, <1>5, <1>6, OtherCall
  <2> QED
    BY <2>1, <2>2
<1>9. RateLimited'
  BY <1>1 DEF RateLimited
<1> QED
  BY <1>5, <1>7, <1>8, <1>9 DEF StatePart

(* Time goes on, or not.                                                   *)
LEMMA StateWaits ==
    ASSUME WorldOK, StatePart, UNCHANGED stateVars, now' \in Nat, now <= now'
    PROVE  StatePart'
<1>1. /\ FilesOK /\ RateLimited /\ now \in Nat
      /\ \A d \in Customers : FileInv(d)
      /\ \A q \in Procs : CallInv(q)
      /\ UNCHANGED <<disk, lock, call, mails>>
  BY ConstantFacts DEF StatePart, WorldOK, stateVars
<1>2. FilesOK' /\ RateLimited'
  BY <1>1 DEF FilesOK, RateLimited, Holds
<1>3. MailsStay /\ KeptWere(Nobody)
  BY <1>1 DEF MailsStay, KeptWere
<1>4. ASSUME NEW d \in Customers PROVE FileInv(d)'
  BY <1>1, <1>2, <1>3, OtherFile, ProcsAssumption
<1>5. ASSUME NEW q \in Procs PROVE CallInv(q)'
  <2>1. call[q].cust # Nobody \/ ~Holds(q)
    BY <1>1 DEF CallInv, CallKnown, Holds
  <2> QED
    BY <2>1, <1>1, <1>2, <1>3, OtherCall
<1> QED
  BY <1>2, <1>4, <1>5 DEF StatePart
-----------------------------------------------------------------------------
LEMMA WantsKnown ==
    ASSUME WorldOK
    PROVE  /\ \A c \in Customers : ExpiryWants(c) \in SUBSET Wants
           /\ \A e \in Events, n \in Names : {[key |-> Key(e, n, 0), gap |-> MinGap[e]]} \in SUBSET Wants
<1>1. ASSUME NEW e \in Events \cup {Expiring}, NEW n \in Names, NEW x \in 0 .. MaxNow + Life, NEW g \in Gaps
      PROVE  [key |-> Key(e, n, x), gap |-> g] \in Wants
  BY DEF Key, Keys, Wants
<1>2. ASSUME NEW c \in Customers PROVE ExpiryWants(c) \in SUBSET Wants
  <2> SUFFICES ASSUME NEW n \in ExpiringNames(c)
               PROVE  [key |-> Key(Expiring, n, certs[c][n]),
                       gap |-> IF DaysLeft(c, n) <= LastDays THEN LastGap ELSE WarnGap] \in Wants
    BY DEF ExpiryWants
  <2>1. n \in Names /\ certs[c][n] \in 0 .. MaxNow + Life
    BY DEF ExpiringNames, WorldOK
  <2>2. (IF DaysLeft(c, n) <= LastDays THEN LastGap ELSE WarnGap) \in Gaps
    BY ConstantFacts
  <2> QED
    BY <2>1, <2>2, <1>1
<1>3. 0 \in 0 .. MaxNow + Life
  BY ConstantFacts
<1> QED
  BY <1>1, <1>2, <1>3, ConstantFacts

LEMMA StateUses ==
    ASSUME WorldOK, StatePart, NEW p \in Procs, UseState(p), UNCHANGED now
    PROVE  StatePart'
<1>1. CASE TakeLock(p)
  BY <1>1, StateTakeLock
<1>2. CASE Send(p)
  BY <1>2, StateSend
<1>3. CASE SendFails(p)
  BY <1>3, StateReleases DEF SendFails, Failed
<1>4. CASE Save(p)
  <2>1. CASE UNCHANGED <<disk, mails>>
    BY <1>4, <2>1, StateReleases DEF Save
  <2>2. CASE disk' = [disk EXCEPT ![call[p].cust] = Recent(call[p].seen, now)] /\ MarkKept(p)
    BY <1>4, <2>2, StateSaves DEF Save
  <2> QED
    BY <1>4, <2>1, <2>2 DEF Save
<1> QED
  BY <1>1, <1>2, <1>3, <1>4 DEF UseState

LEMMA ScriptFacts ==
    /\ \A r \in Script :
        /\ r.pc \in {"customers", "entries", "certbot", "hook"} /\ r.todo \in Seq(Customers)
        /\ r.cust \in Customers \cup {Nobody} /\ r.only \in Names \cup {Nobody} /\ r.names \subseteq Names
        /\ r.at \in Names \cup {Nobody} /\ r.say \in Seq(Events) /\ r.result \in {0, 1} /\ r.started \in Times
        /\ r.todo # <<>> => Head(r.todo) \in Customers /\ Tail(r.todo) \in Seq(Customers)
        /\ r.say # <<>> => Head(r.say) \in Events /\ Tail(r.say) \in Seq(Events)
        /\ \A e \in r.snapshot : e.cust \in Customers /\ e.name \in Names /\ e = [cust |-> e.cust, name |-> e.name]
    /\ \A r \in ScanRun :
        /\ r.pc \in {"customers", "alert"} /\ r.todo \in Seq(Customers) /\ r.rc \in {0, 1}
        /\ r.todo # <<>> => Head(r.todo) \in Customers /\ Tail(r.todo) \in Seq(Customers)
<1>1. ASSUME NEW S, NEW q \in Seq(S), q # <<>>
      PROVE  Head(q) \in S /\ Tail(q) \in Seq(S)
  BY <1>1, HeadTailProperties
<1>2. ASSUME NEW r \in Script
      PROVE  /\ r.pc \in {"customers", "entries", "certbot", "hook"} /\ r.todo \in Seq(Customers)
             /\ r.cust \in Customers \cup {Nobody} /\ r.only \in Names \cup {Nobody} /\ r.names \subseteq Names
             /\ r.at \in Names \cup {Nobody} /\ r.say \in Seq(Events) /\ r.result \in {0, 1} /\ r.started \in Times
  BY DEF Script
<1>3. ASSUME NEW r \in ScanRun
      PROVE  r.pc \in {"customers", "alert"} /\ r.todo \in Seq(Customers) /\ r.rc \in {0, 1}
  BY DEF ScanRun
<1>4. ASSUME NEW r \in Script
      PROVE  /\ r.todo # <<>> => Head(r.todo) \in Customers /\ Tail(r.todo) \in Seq(Customers)
             /\ r.say # <<>> => Head(r.say) \in Events /\ Tail(r.say) \in Seq(Events)
  BY <1>1, <1>2
<1>5. ASSUME NEW r \in ScanRun
      PROVE  r.todo # <<>> => Head(r.todo) \in Customers /\ Tail(r.todo) \in Seq(Customers)
  BY <1>1, <1>3
<1>6. ASSUME NEW r \in Script, NEW e \in r.snapshot
      PROVE  e.cust \in Customers /\ e.name \in Names /\ e = [cust |-> e.cust, name |-> e.name]
  <2>1. e \in [cust : Customers, name : Names]
    BY DEF Script
  <2> QED
    BY <2>1
<1> QED
  BY <1>2, <1>3, <1>4, <1>5, <1>6

LEMMA ClockMoves ==
    ASSUME WorldOK, [Next]_vars
    PROVE  now' \in Times /\ now' \in Nat /\ now <= now'
<1>1. now \in Nat /\ now \in Times /\ MaxNow \in Nat
  BY ConstantFacts DEF WorldOK
<1>2. ASSUME NEW p \in Callers, StartOne(p) \/ Go(p) PROVE UNCHANGED now
  BY <1>2 DEF StartOne, Starts, Go, NextCustomer, CustomerDone, StartCertbot, CertbotDecides, CertbotEnds, Alert, world
<1>3. ASSUME NEW p \in Procs, UsesState(p) \/ Dies(p) PROVE UNCHANGED now
  BY <1>3 DEF UsesState, Dies, world
<1>4. ASSUME NEW s \in Scans, TimerFires(s) \/ Scanning(s) PROVE UNCHANGED now
  BY <1>4 DEF TimerFires, Scanning, Scan, ScanCustomer, ScanAlerted, world
<1>5. CASE StartAll \/ RemoveEntry \/ UNCHANGED vars
  BY <1>1, <1>5 DEF StartAll, Starts, RemoveEntry, world, vars
<1>6. CASE Tick
  BY <1>1, <1>6 DEF Tick, Times
<1>7. CASE UNCHANGED now
  BY <1>1, <1>7
<1> QED
  BY <1>2, <1>3, <1>4, <1>5, <1>6, <1>7 DEF Next

LEMMA StateStep ==
    ASSUME WorldOK, StatePart, ScanPart, RunPart, [Next]_vars
    PROVE  StatePart'
<1>1. now' \in Nat /\ now <= now'
  BY ClockMoves
<1>2. CASE UNCHANGED stateVars
  BY <1>1, <1>2, StateWaits
<1>3. ASSUME NEW p \in Callers, Alert(p) PROVE StatePart'
  <2>1. run[p] \in Script /\ run[p].pc # "customers" /\ run[p].cust # Nobody /\ run[p].at # Nobody /\ run[p].say # <<>>
    BY <1>3 DEF Alert, RunPart, RunInv, SayKnown
  <2>2. run[p].cust \in Customers /\ Head(run[p].say) \in Events /\ run[p].at \in Names
    BY <2>1, ScriptFacts
  <2> QED
    BY <2>2, <1>3, WantsKnown, StateRaises DEF Alert, Quiet, Notify, world, Procs
<1>4. ASSUME NEW p \in Procs, UsesState(p) PROVE StatePart'
  BY <1>4, StateUses DEF UsesState, world
<1>5. ASSUME NEW p \in Procs, Dies(p) PROVE StatePart'
  BY <1>5, StateReleases DEF Dies, Dropped, world
<1>6. ASSUME NEW s \in Scans, ScanCustomer(s) PROVE StatePart'
  <2>1. Head(scan[s].todo) \in Customers /\ call[s].step = "none"
    BY <1>6, ScriptFacts DEF ScanCustomer, ScanPart, ScanInv, ScanAt
  <2>2. UNCHANGED <<disk, lock, mails, now>>
    BY <1>6 DEF ScanCustomer, world
  <2>3. CASE UNCHANGED call
    BY <2>2, <2>3, <1>1, StateWaits DEF stateVars
  <2>4. CASE Raise(s, Head(scan[s].todo), ExpiryWants(Head(scan[s].todo)))
    BY <2>1, <2>2, <2>4, WantsKnown, StateRaises DEF Procs
  <2> QED
    BY <1>6, <2>3, <2>4 DEF ScanCustomer
<1>7. ASSUME NEW p \in Callers, StartOne(p) \/ Go(p), ~Alert(p) PROVE StatePart'
  BY <1>2, <1>7 DEF StartOne, Starts, Go, NextCustomer, CustomerDone, StartCertbot, CertbotDecides, CertbotEnds
<1>8. ASSUME NEW s \in Scans, TimerFires(s) \/ ScanAlerted(s) PROVE StatePart'
  BY <1>2, <1>8 DEF TimerFires, ScanAlerted
<1>9. CASE StartAll \/ RemoveEntry \/ Tick \/ UNCHANGED vars
  BY <1>2, <1>9 DEF StartAll, Starts, RemoveEntry, Tick, vars, stateVars
<1> QED
  BY <1>3, <1>4, <1>5, <1>6, <1>7, <1>8, <1>9 DEF Next, Scanning, Scan
-----------------------------------------------------------------------------
LEMMA MailedStays ==
    ASSUME MailsStay, NEW c, NEW w, NEW t, Mailed(c, w, t)
    PROVE  Mailed(c, w, t)'
  BY DEF MailsStay, Mailed

LEMMA MailsGrow ==
    ASSUME FilesOK, NEW p \in Procs, UseState(p)
    PROVE  MailsStay
<1>1. CASE TakeLock(p) \/ Send(p) \/ SendFails(p)
  BY <1>1 DEF TakeLock, Send, SendFails, MailsStay
<1>2. CASE UNCHANGED mails
  BY <1>2 DEF MailsStay
<1>3. CASE MarkKept(p)
  <2> SUFFICES ASSUME NEW m \in mails
               PROVE  \E n \in mails' : n.cust = m.cust /\ n.key = m.key /\ n.at = m.at
    BY DEF MailsStay
  <2>1. PICK n \in mails' : n = m \/ n = [m EXCEPT !.kept = TRUE]
    BY <1>3 DEF MarkKept
  <2>2. m \in Mails
    BY DEF FilesOK
  <2> QED
    BY <2>1, <2>2 DEF Mails
<1> QED
  BY <1>1, <1>2, <1>3 DEF UseState, Save

LEMMA ScanStays ==
    ASSUME NEW s \in Scans, ScanInv(s), UNCHANGED <<scan, day, settings, call[s]>>, MailsStay
    PROVE  ScanInv(s)'
<1>1. ScanAt(s)' /\ ScanUsed(s)'
  BY DEF ScanInv, ScanAt, ScanUsed, Usable
<1>2. ScanAsked(s)'
  <2> SUFFICES ASSUME scan[s].rc = 0, NEW a \in scan[s].asked PROVE Asking(s, a)' \/ Mailed(a.cust, a.want, a.at)'
    BY DEF ScanAsked
  <2>1. CASE Asking(s, a)
    BY <2>1 DEF Asking
  <2>2. CASE Mailed(a.cust, a.want, a.at)
    BY <2>2, MailedStays
  <2> QED
    BY <2>1, <2>2 DEF ScanInv, ScanAsked
<1> QED
  BY <1>1, <1>2 DEF ScanInv

(* The scan's own use of a state file: what is not due was mailed before.  *)
LEMMA ScanUses ==
    ASSUME WorldOK, StatePart, NEW s \in Scans, ScanInv(s), UseState(s), UNCHANGED <<scan, day, settings, now>>
    PROVE  ScanInv(s)'
<1> DEFINE r0 == call[s]
<1>1. /\ FilesOK /\ s \in Procs /\ r0 \in Call /\ r0.cust \in Customers \cup {Nobody}
      /\ \A c \in Customers : FileInv(c)
      /\ CallInv(s) /\ MailsStay
  BY MailsGrow, RecordFacts DEF StatePart, FilesOK, Procs
<1>2. r0.step # "none" /\ r0.cust \in Customers
  BY <1>1 DEF UseState, TakeLock, Send, SendFails, Save, CallInv, CallKnown
<1>3. scan[s].pc # "customers"
  BY <1>2 DEF ScanInv, ScanAt
<1>4. ScanAt(s)' /\ ScanUsed(s)'
  BY <1>3 DEF ScanInv, ScanAt, ScanUsed, Usable
<1>5. ASSUME NEW a \in scan[s].asked, Asking(s, a) PROVE Asking(s, a)' \/ Mailed(a.cust, a.want, a.at)'
  <2>1. PICK c, t, w : c = a.cust /\ t = a.at /\ w = a.want
    OBVIOUS
  <2>2. scan[s].pc = "alert" /\ c = r0.cust /\ t = r0.at
    BY <1>2, <1>5, <2>1 DEF Asking
  <2>3. CASE TakeLock(s) /\ Due(disk[c], w, t)
    <3>1. w \in {v \in r0.want : Due(disk[r0.cust], v, r0.at)} /\ r0.step = "wait"
      BY <1>5, <2>1, <2>2, <2>3 DEF Asking, TakeLock
    <3>2. call'[s].step = "send" /\ w \in call'[s].due /\ call'[s].cust = c /\ call'[s].at = t
      BY <1>1, <2>2, <2>3, <3>1 DEF TakeLock, ReadState, FilesOK, Call
    <3> QED
      BY <2>1, <2>2, <3>2 DEF Asking
  <2>4. CASE TakeLock(s) /\ ~Due(disk[c], w, t)
    <3>1. PICK e \in disk[c] : e.key = w.key /\ ~(t - e.at >= w.gap)
      BY <2>4 DEF Due
    <3>2. w \in Wants /\ e \in Stamps /\ t \in Nat
      BY <1>1, <1>2, <1>5, <2>1, <2>2, <2>4, RecordFacts DEF Asking, TakeLock, FilesOK
    <3>3. t - e.at < w.gap
      BY <3>1, <3>2, RecordFacts
    <3>4. PICK m \in mails : m.cust = c /\ m.key = e.key /\ m.at = e.at
      BY <1>1, <1>2, <2>2 DEF FileInv, Stamped, Sent
    <3>5. Mailed(c, w, t)
      BY <3>1, <3>3, <3>4 DEF Mailed
    <3> QED
      BY <1>1, <2>1, <3>5, MailedStays
  <2>5. CASE Send(s)
    <3>1. w \in r0.due
      BY <1>5, <2>1, <2>5 DEF Asking, Send
    <3>2. PICK n : n = [cust |-> c, key |-> w.key, gap |-> w.gap, at |-> t, kept |-> FALSE]
      OBVIOUS
    <3>3. n.cust = c /\ n.key = w.key /\ n.at = t
      BY <3>2
    <3>4. n \in mails'
      BY <2>2, <2>5, <3>1, <3>2 DEF Send
    <3>5. Mailed(c, w, t)'
      BY <3>3, <3>4 DEF Mailed
    <3> QED
      BY <2>1, <3>5
  <2>6. CASE SendFails(s)
    <3>1. call'[s] = [NoCall EXCEPT !.ok = FALSE]
      BY <1>1, <2>6 DEF SendFails, Failed, FilesOK
    <3>2. call'[s].step = "none" /\ ~call'[s].ok
      BY <3>1 DEF NoCall
    <3> QED
      BY <2>2, <3>2 DEF Asking
  <2>7. CASE Save(s)
    BY <1>5, <2>7 DEF Asking, Save
  <2> QED
    BY <2>3, <2>4, <2>5, <2>6, <2>7 DEF UseState
<1>6. ScanAsked(s)'
  <2> SUFFICES ASSUME scan[s].rc = 0, NEW a \in scan[s].asked PROVE Asking(s, a)' \/ Mailed(a.cust, a.want, a.at)'
    BY DEF ScanAsked
  <2>1. CASE Mailed(a.cust, a.want, a.at)
    BY <2>1, <1>1, MailedStays
  <2> QED
    BY <2>1, <1>5 DEF ScanInv, ScanAsked
<1> QED
  BY <1>4, <1>6 DEF ScanInv

LEMMA NextInOrder ==
    ASSUME NEW q \in Seq(Customers), EndOfOrder(q), q # <<>>
    PROVE  /\ EndOfOrder(Tail(q))
           /\ \A i \in Before(Tail(q)) : i \in Before(q) \/ Order[i] = Head(q)
<1>1. /\ Len(q) \in Nat /\ Len(q) > 0 /\ Len(Order) \in Nat
      /\ Tail(q) \in Seq(Customers) /\ Len(Tail(q)) = Len(q) - 1
      /\ \A i \in 1 .. Len(q) - 1 : Tail(q)[i] = q[i + 1]
  BY HeadTailProperties, EmptySeq, LenProperties, OrderAssumption
<1>2. Head(q) = q[1] /\ q[1] = Order[Len(Order) - Len(q) + 1]
  BY <1>1 DEF EndOfOrder
<1>3. ASSUME NEW i \in 1 .. Len(Tail(q)) PROVE Tail(q)[i] = Order[Len(Order) - Len(Tail(q)) + i]
  <2>1. i + 1 \in 1 .. Len(q) /\ i \in 1 .. Len(q) - 1
    BY <1>1
  <2>2. q[i + 1] = Order[Len(Order) - Len(q) + (i + 1)]
    BY <2>1 DEF EndOfOrder
  <2>3. Len(Order) - Len(q) + (i + 1) = Len(Order) - Len(Tail(q)) + i
    BY <1>1, <2>1
  <2> QED
    BY <1>1, <2>1, <2>2, <2>3
<1>4. ASSUME NEW i \in Before(Tail(q)), i \notin Before(q) PROVE Order[i] = Head(q)
  <2>1. i = Len(Order) - Len(q) + 1
    BY <1>1, <1>4 DEF Before, EndOfOrder
  <2> QED
    BY <2>1, <1>2
<1>5. Len(Tail(q)) <= Len(Order)
  BY <1>1 DEF EndOfOrder
<1> QED
  BY <1>3, <1>4, <1>5 DEF EndOfOrder

LEMMA WholeOrder ==
    /\ Order \in Seq(Customers) /\ EndOfOrder(Order) /\ \A i \in Before(Order) : FALSE
    /\ <<>> \in Seq(Customers) /\ EndOfOrder(<<>>)
<1>1. Order \in Seq(Customers) /\ Len(Order) \in Nat /\ <<>> \in Seq(Customers) /\ Len(<<>>) = 0
  BY OrderAssumption, LenProperties, EmptySeq
<1>2. EndOfOrder(Order)
  <2>1. ASSUME NEW i \in 1 .. Len(Order) PROVE Len(Order) - Len(Order) + i = i
    BY <1>1
  <2> QED
    BY <1>1, <2>1 DEF EndOfOrder
<1>3. EndOfOrder(<<>>) /\ \A i \in Before(Order) : FALSE
  BY <1>1 DEF EndOfOrder, Before
<1> QED
  BY <1>1, <1>2, <1>3

LEMMA ScanCustomerKeeps ==
    ASSUME WorldOK, ScanPart, NEW s \in Scans, ScanCustomer(s), FilesOK
    PROVE  scan' \in [Scans -> ScanRun] /\ ScanInv(s)'
<1> DEFINE r0 == scan[s]
           c  == Head(r0.todo)
           w  == ExpiryWants(c)
<1>1. /\ r0 \in ScanRun /\ r0.pc = "customers" /\ r0.todo # <<>> /\ r0.todo \in Seq(Customers)
      /\ c \in Customers /\ Tail(r0.todo) \in Seq(Customers) /\ s \in Procs
      /\ UNCHANGED <<settings, certs, entries, now, mails, day>>
  BY ScriptFacts DEF ScanPart, ScanCustomer, world, Procs
<1>2. ScanInv(s) /\ call[s].step = "none" /\ EndOfOrder(r0.todo)
  BY <1>1 DEF ScanPart, ScanInv, ScanAt
<1>3. /\ EndOfOrder(Tail(r0.todo)) /\ EndOfOrder(<<>>) /\ <<>> \in Seq(Customers)
      /\ \A i \in Before(Tail(r0.todo)) : i \in Before(r0.todo) \/ Order[i] = c
  BY <1>1, <1>2, NextInOrder, WholeOrder
<1>4. r0.rc = 0 => \A a \in r0.asked : Mailed(a.cust, a.want, a.at)
  BY <1>1, <1>2 DEF ScanInv, ScanAsked, Asking
<1>5. settings[c] \in {"on", "off", "no_email", "unreadable", "broken"}
  BY <1>1, SettingsAssumption DEF WorldOK
<1>6. scan \in [Scans -> ScanRun]
  BY DEF ScanPart
<1>7. CASE settings[c] \in {"unreadable", "broken"}
  <2>1. PICK q \in {<<>>, Tail(r0.todo)} : scan' = [scan EXCEPT ![s].todo = q, ![s].rc = 1] /\ UNCHANGED call
    BY <1>7 DEF ScanCustomer, Usable, Listening
  <2>2. PICK r : r = [r0 EXCEPT !.todo = q, !.rc = 1]
    OBVIOUS
  <2>3. r \in ScanRun /\ r.pc = "customers" /\ r.todo = q /\ r.rc = 1
    BY <1>1, <1>3, <2>1, <2>2 DEF ScanRun
  <2>4. scan' = [scan EXCEPT ![s] = r]
    BY <1>6, <2>1, <2>2
  <2>5. scan'[s] = r /\ scan' \in [Scans -> ScanRun]
    BY <1>6, <2>3, <2>4
  <2>6. EndOfOrder(r.todo)
    BY <1>3, <2>1, <2>3
  <2>7. ScanAt(s)'
    BY <1>2, <2>1, <2>3, <2>5, <2>6 DEF ScanAt
  <2>8. ScanUsed(s)' /\ ScanAsked(s)'
    BY <2>3, <2>5 DEF ScanUsed, ScanAsked
  <2> QED
    BY <2>5, <2>7, <2>8 DEF ScanInv
<1>8. CASE settings[c] \notin {"unreadable", "broken"} /\ (ExpiringNames(c) = {} \/ ~Listening(c, Expiring))
  <2>1. scan' = [scan EXCEPT ![s].todo = Tail(@)] /\ UNCHANGED call
    BY <1>8 DEF ScanCustomer, Listening
  <2>2. PICK r : r = [r0 EXCEPT !.todo = Tail(r0.todo)]
    OBVIOUS
  <2>3. r \in ScanRun /\ r.pc = "customers" /\ r.todo = Tail(r0.todo) /\ r.rc = r0.rc /\ r.asked = r0.asked
    BY <1>1, <2>2 DEF ScanRun
  <2>4. scan' = [scan EXCEPT ![s] = r]
    BY <1>6, <2>1, <2>2
  <2>5. scan'[s] = r /\ scan' \in [Scans -> ScanRun]
    BY <1>6, <2>3, <2>4
  <2>6. ScanAt(s)'
    BY <1>2, <1>3, <2>1, <2>3, <2>5 DEF ScanAt
  <2>7. ScanUsed(s)'
    BY <1>1, <1>2, <1>3, <1>5, <1>8, <2>3, <2>5 DEF ScanInv, ScanUsed, Usable
  <2>8. ScanAsked(s)'
    BY <1>1, <1>4, <2>3, <2>5 DEF ScanAsked, Mailed
  <2> QED
    BY <2>5, <2>6, <2>7, <2>8 DEF ScanInv
<1>9. CASE settings[c] \notin {"unreadable", "broken"} /\ ~(ExpiringNames(c) = {} \/ ~Listening(c, Expiring))
  <2> DEFINE new == {[cust |-> c, at |-> now, want |-> v] : v \in w}
  <2>1. ScanAsks(s, c) /\ Raise(s, c, w)
    BY <1>9 DEF ScanCustomer, Usable
  <2>2. PICK r : r = [r0 EXCEPT !.pc = "alert", !.asked = @ \cup new]
    OBVIOUS
  <2>3. w \in SUBSET Wants /\ now \in Times
    BY <1>1, WantsKnown DEF WorldOK
  <2>4. new \subseteq [cust : Customers, at : Times, want : Wants]
    BY <1>1, <2>3
  <2>5. r \in ScanRun /\ r.pc = "alert" /\ r.todo = r0.todo /\ r.rc = r0.rc /\ r.asked = r0.asked \cup new
    <3> HIDE DEF new
    <3> QED
      BY <1>1, <2>2, <2>4 DEF ScanRun
  <2>6. scan' = [scan EXCEPT ![s] = r]
    BY <1>6, <2>1, <2>2 DEF ScanAsks
  <2>7. scan'[s] = r /\ scan' \in [Scans -> ScanRun]
    BY <1>6, <2>5, <2>6
  <2>8. call'[s].step = "wait" /\ call'[s].cust = c /\ call'[s].at = now /\ call'[s].want = w
    BY <1>1, <2>1 DEF Raise, NoCall, FilesOK
  <2>9. ScanAt(s)'
    BY <1>1, <1>2, <1>5, <1>9, <2>5, <2>7 DEF ScanAt, Usable
  <2>10. ScanUsed(s)'
    BY <1>1, <1>2, <2>5, <2>7 DEF ScanInv, ScanUsed, Usable
  <2>11. ScanAsked(s)'
    <3> SUFFICES ASSUME r0.rc = 0, NEW a \in r0.asked \cup new PROVE Asking(s, a)' \/ Mailed(a.cust, a.want, a.at)'
      BY <2>5, <2>7 DEF ScanAsked
    <3>1. CASE a \in r0.asked
      BY <3>1, <1>1, <1>4 DEF Mailed
    <3>2. CASE a \in new
      <4>1. PICK v \in w : a = [cust |-> c, at |-> now, want |-> v]
        BY <3>2
      <4>2. a.cust = c /\ a.at = now /\ a.want = v
        BY <4>1
      <4> QED
        BY <4>1, <4>2, <2>5, <2>7, <2>8 DEF Asking
    <3> QED
      BY <3>1, <3>2
  <2> QED
    BY <2>7, <2>9, <2>10, <2>11 DEF ScanInv
<1> QED
  BY <1>7, <1>8, <1>9

LEMMA ScanAlertedKeeps ==
    ASSUME ScanPart, NEW s \in Scans, ScanAlerted(s)
    PROVE  scan' \in [Scans -> ScanRun] /\ ScanInv(s)'
<1> DEFINE r0 == scan[s]
<1>1. /\ r0 \in ScanRun /\ r0.pc = "alert" /\ r0.todo \in Seq(Customers) /\ r0.rc \in {0, 1}
      /\ ScanInv(s) /\ scan \in [Scans -> ScanRun]
      /\ call[s].step = "none" /\ UNCHANGED <<call, mails, day, settings>>
  BY ScriptFacts DEF ScanPart, ScanAlerted, world, stateVars
<1>2. r0.todo # <<>> /\ Usable(Head(r0.todo)) /\ EndOfOrder(r0.todo)
  BY <1>1 DEF ScanInv, ScanAt
<1>3. /\ Tail(r0.todo) \in Seq(Customers) /\ EndOfOrder(Tail(r0.todo))
      /\ \A i \in Before(Tail(r0.todo)) : i \in Before(r0.todo) \/ Order[i] = Head(r0.todo)
  BY <1>1, <1>2, NextInOrder, ScriptFacts
<1>4. EndOfOrder(<<>>) /\ <<>> \in Seq(Customers)
  BY WholeOrder
<1>5. PICK r \in ScanRun :
        /\ r.pc = "customers" /\ r.asked = r0.asked /\ EndOfOrder(r.todo)
        /\ scan'[s] = r /\ scan' \in [Scans -> ScanRun]
        /\ r.rc = 0 => r.todo = Tail(r0.todo) /\ r0.rc = 0 /\ call[s].ok
  <2>1. CASE scan' = [scan EXCEPT ![s].pc = "customers", ![s].todo = Tail(@), ![s].rc = IF call[s].ok THEN @ ELSE 1]
    <3>1. PICK x \in {0, 1} : x = IF call[s].ok THEN r0.rc ELSE 1
      BY <1>1
    <3>2. PICK r : r = [r0 EXCEPT !.pc = "customers", !.todo = Tail(r0.todo), !.rc = x]
      OBVIOUS
    <3>3. scan' = [scan EXCEPT ![s] = r]
      BY <1>1, <2>1, <3>1, <3>2
    <3>4. r \in ScanRun /\ r.pc = "customers" /\ r.asked = r0.asked /\ r.todo = Tail(r0.todo) /\ r.rc = x
      BY <1>1, <1>3, <3>1, <3>2 DEF ScanRun
    <3>5. scan'[s] = r /\ scan' \in [Scans -> ScanRun]
      BY <1>1, <3>3, <3>4
    <3> QED
      BY <1>3, <3>1, <3>4, <3>5
  <2>2. CASE scan' = [scan EXCEPT ![s].pc = "customers", ![s].todo = <<>>, ![s].rc = 1]
    <3>1. PICK r : r = [r0 EXCEPT !.pc = "customers", !.todo = <<>>, !.rc = 1]
      OBVIOUS
    <3>2. scan' = [scan EXCEPT ![s] = r]
      BY <1>1, <2>2, <3>1
    <3>3. r \in ScanRun /\ r.pc = "customers" /\ r.asked = r0.asked /\ r.todo = <<>> /\ r.rc = 1
      BY <1>1, <1>4, <3>1 DEF ScanRun
    <3>4. scan'[s] = r /\ scan' \in [Scans -> ScanRun]
      BY <1>1, <3>2, <3>3
    <3> QED
      BY <1>4, <3>3, <3>4
  <2> QED
    BY <2>1, <2>2 DEF ScanAlerted
<1>6. r.rc = 0 => \A i \in Before(r.todo) : i \in Before(r0.todo) \/ Order[i] = Head(r0.todo)
  BY <1>3, <1>5
<1>8. scan'[s] = r /\ scan' \in [Scans -> ScanRun]
  BY <1>1, <1>5
<1>9. ScanAt(s)'
  BY <1>1, <1>5, <1>8 DEF ScanAt
<1>10. ScanUsed(s)'
  BY <1>1, <1>2, <1>5, <1>6, <1>8 DEF ScanInv, ScanUsed, Usable
<1>11. ScanAsked(s)'
  BY <1>1, <1>5, <1>8 DEF ScanInv, ScanAsked, Asking, Mailed
<1> QED
  BY <1>8, <1>9, <1>10, <1>11 DEF ScanInv

(* A scan that begins, or that was killed.                                 *)
LEMMA FreshScans ==
    ASSUME NEW r, r = [NoScan EXCEPT !.todo = Order] \/ r = [NoScan EXCEPT !.rc = 1]
    PROVE  /\ r \in ScanRun /\ r.pc = "customers" /\ r.asked = {}
           /\ EndOfOrder(r.todo) /\ (r.rc = 0 => r.todo = Order)
<1>1. CASE r = [NoScan EXCEPT !.todo = Order]
  <2>1. r = [pc |-> "customers", todo |-> Order, rc |-> 0, asked |-> {}]
    BY <1>1 DEF NoScan
  <2>2. r.pc = "customers" /\ r.asked = {} /\ r.todo = Order
    BY <2>1
  <2>3. r \in ScanRun
    BY <2>1, OrderAssumption DEF ScanRun
  <2> QED
    BY <2>2, <2>3, WholeOrder
<1>2. CASE r = [NoScan EXCEPT !.rc = 1]
  <2>1. r = [pc |-> "customers", todo |-> <<>>, rc |-> 1, asked |-> {}]
    BY <1>2 DEF NoScan
  <2>2. r.pc = "customers" /\ r.asked = {} /\ r.todo = <<>> /\ r.rc # 0
    BY <2>1
  <2>3. r \in ScanRun
    BY <2>1, WholeOrder DEF ScanRun
  <2> QED
    BY <2>2, <2>3, WholeOrder
<1> QED
  BY <1>1, <1>2

LEMMA ScanBegins ==
    ASSUME ScanPart, NEW s \in Scans, NEW r, r = [NoScan EXCEPT !.todo = Order] \/ r = [NoScan EXCEPT !.rc = 1],
           scan' = [scan EXCEPT ![s] = r], call'[s].step = "none"
    PROVE  scan' \in [Scans -> ScanRun] /\ ScanInv(s)'
<1>1. /\ r \in ScanRun /\ r.pc = "customers" /\ r.asked = {}
      /\ EndOfOrder(r.todo) /\ (r.rc = 0 => r.todo = Order)
  BY FreshScans
<1>2. scan'[s] = r /\ scan' \in [Scans -> ScanRun]
  BY <1>1 DEF ScanPart
<1>3. ScanAt(s)'
  BY <1>1, <1>2, WholeOrder DEF ScanAt
<1>4. ScanUsed(s)'
  BY <1>1, <1>2, WholeOrder DEF ScanUsed
<1>5. ScanAsked(s)'
  BY <1>1, <1>2 DEF ScanAsked
<1> QED
  BY <1>2, <1>3, <1>4, <1>5 DEF ScanInv

LEMMA ScanStep ==
    ASSUME WorldOK, StatePart, ScanPart, RunPart, [Next]_vars
    PROVE  ScanPart'
<1>1. FilesOK /\ scan \in [Scans -> ScanRun] /\ \A s \in Scans : ScanInv(s) /\ s \in Procs
  BY DEF StatePart, ScanPart, Procs
<1>2. ASSUME UNCHANGED <<scan, day, settings, call, mails>> PROVE ScanPart'
  <2>1. MailsStay
    BY <1>2 DEF MailsStay
  <2> QED
    BY <1>1, <1>2, <2>1, ScanStays DEF ScanPart
<1>3. ASSUME NEW p \in Callers, StartOne(p) \/ Go(p) PROVE ScanPart'
  <2>1. UNCHANGED <<scan, day, settings, mails>>
    BY <1>3 DEF StartOne, Starts, Go, NextCustomer, CustomerDone, StartCertbot, CertbotDecides, CertbotEnds, Alert,
                world, scanVars, stateVars
  <2>2. UNCHANGED call \/ \E r : call' = [call EXCEPT ![p] = r]
    BY <1>3 DEF StartOne, Starts, Go, NextCustomer, CustomerDone, StartCertbot, CertbotDecides, CertbotEnds, Alert,
                Notify, Raise, stateVars
  <2>3. \A s \in Scans : call'[s] = call[s]
    BY <1>1, <1>3, <2>2, ProcsAssumption DEF FilesOK
  <2>4. MailsStay
    BY <2>1 DEF MailsStay
  <2> QED
    BY <1>1, <2>1, <2>3, <2>4, ScanStays DEF ScanPart
<1>4. ASSUME NEW p \in Procs, UsesState(p) PROVE ScanPart'
  <2>1. UNCHANGED <<scan, day, settings, now>> /\ UseState(p) /\ MailsStay
    BY <1>1, <1>4, MailsGrow DEF UsesState, world, scanVars
  <2>2. \E r : call' = [call EXCEPT ![p] = r]
    <3>1. CASE TakeLock(p)
      BY ZenonT(60), <1>1, <3>1 DEF TakeLock, ReadState, FilesOK
    <3>2. CASE Send(p)
      BY <1>1, <3>2 DEF Send, FilesOK
    <3>3. CASE SendFails(p) \/ Save(p)
      BY <3>3 DEF SendFails, Failed, Save
    <3> QED
      BY <2>1, <3>1, <3>2, <3>3 DEF UseState
  <2>3. ASSUME NEW s \in Scans PROVE ScanInv(s)'
    <3>1. CASE s = p
      BY <2>1, <3>1, <1>1, ScanUses
    <3>2. CASE s # p
      <4>1. call'[s] = call[s]
        BY <1>1, <2>2, <3>2 DEF FilesOK
      <4> QED
        BY <4>1, <2>1, <1>1, ScanStays
    <3> QED
      BY <3>1, <3>2
  <2> QED
    BY <1>1, <2>1, <2>3 DEF ScanPart
<1>5. ASSUME NEW p \in Procs, Dies(p) PROVE ScanPart'
  <2>1. UNCHANGED <<mails, day, settings>> /\ MailsStay /\ call' = [call EXCEPT ![p] = NoCall]
    BY <1>5 DEF Dies, Dropped, world, MailsStay
  <2>2. call'[p] = NoCall /\ NoCall.step = "none" /\ \A q \in Procs : q # p => call'[q] = call[q]
    BY <1>1, <2>1, IdleCalls DEF FilesOK
  <2>3. CASE p \in Callers /\ UNCHANGED scan
    <3>1. \A s \in Scans : call'[s] = call[s]
      BY <1>1, <2>2, <2>3, ProcsAssumption
    <3> QED
      BY <1>1, <2>1, <2>3, <3>1, ScanStays DEF ScanPart
  <2>4. CASE p \in Scans /\ scan' = [scan EXCEPT ![p] = [NoScan EXCEPT !.rc = 1]]
    <3>1. \A s \in Scans : s = p
      BY <2>4, ProcsAssumption
    <3>2. scan' \in [Scans -> ScanRun] /\ ScanInv(p)'
      BY <2>2, <2>4, ScanBegins
    <3> QED
      BY <3>1, <3>2 DEF ScanPart
  <2> QED
    BY <1>5, <2>3, <2>4 DEF Dies
<1>6. ASSUME NEW s \in Scans, TimerFires(s) \/ Scanning(s) PROVE ScanPart'
  <2>1. \A t \in Scans : t = s
    BY ProcsAssumption
  <2>2. CASE TimerFires(s)
    <3>1. scan' = [scan EXCEPT ![s] = [NoScan EXCEPT !.todo = Order]] /\ call'[s].step = "none"
      BY <2>2, <1>1 DEF TimerFires, ScanEnded, stateVars, ScanInv, ScanAt
    <3>2. scan' \in [Scans -> ScanRun] /\ ScanInv(s)'
      BY <3>1, ScanBegins
    <3> QED
      BY <2>1, <3>2 DEF ScanPart
  <2>3. CASE ScanCustomer(s)
    BY <2>1, <2>3, <1>1, ScanCustomerKeeps DEF ScanPart
  <2>4. CASE ScanAlerted(s)
    BY <2>1, <2>4, ScanAlertedKeeps DEF ScanPart
  <2> QED
    BY <1>6, <2>2, <2>3, <2>4 DEF Scanning, Scan
<1>7. CASE StartAll \/ RemoveEntry \/ Tick \/ UNCHANGED vars
  BY <1>2, <1>7 DEF StartAll, Starts, RemoveEntry, Tick, world, scanVars, stateVars, vars
<1> QED
  BY <1>3, <1>4, <1>5, <1>6, <1>7 DEF Next
-----------------------------------------------------------------------------
(* A certificate never becomes older.                                      *)
CertsGrow ==
    /\ now <= now' /\ now' \in Nat /\ certs' \in [Customers -> [Names -> 0 .. MaxNow + Life]]
    /\ \A c \in Customers, n \in Names : certs'[c][n] = certs[c][n] \/ certs'[c][n] = now + Life

LEMMA RenewedStays ==
    ASSUME WorldOK, CertsGrow, NEW c \in Customers, NEW n \in Names, NEW t \in Times, t <= now, Renewed(c, n, t)
    PROVE  Renewed(c, n, t)'
<1>1. now \in Nat /\ certs[c][n] \in Nat /\ certs'[c][n] \in Nat /\ t \in Nat
  BY ConstantFacts DEF WorldOK, CertsGrow
<1>2. certs'[c][n] = certs[c][n] \/ certs'[c][n] = now + Life
  BY DEF CertsGrow
<1> QED
  BY <1>1, <1>2, ConstantFacts DEF Renewed

(* What a script's step must keep of Covered: the entries it listed and    *)
(* those it has done.                                                      *)
LEMMA CoveredStays ==
    ASSUME WorldOK, CertsGrow, RunPart, NEW p \in Callers, NEW r \in Script, run'[p] = r,
           r.started = run[p].started,
           \A e \in r.snapshot : e \notin run[p].snapshot \/ e \in run[p].bad \/ Working(p, e) =>
               e \in r.bad \/ Renewed(e.cust, e.name, r.started)' \/ Working(p, e)'
    PROVE  Covered(p)'
<1>1. Covered(p) /\ run[p] \in Script
  BY DEF RunPart, RunInv
<1>2. r.started <= now' /\ r.started \in Times /\ r.started <= now
  BY <1>1, ScriptFacts, ConstantFacts DEF Covered, CertsGrow, WorldOK
<1>3. ASSUME NEW e \in r.snapshot
      PROVE  e \in r.bad \/ Renewed(e.cust, e.name, r.started)' \/ Working(p, e)'
  <2>1. e.cust \in Customers /\ e.name \in Names
    BY ScriptFacts
  <2>2. CASE Renewed(e.cust, e.name, r.started)
    BY <1>2, <2>1, <2>2, RenewedStays
  <2> QED
    BY <1>1, <2>2 DEF Covered
<1>4. ASSUME NEW t, t = r.started PROVE \A e \in r.snapshot : e \in r.bad \/ Renewed(e.cust, e.name, t)' \/ Working(p, e)'
  BY <1>3, <1>4
<1> QED
  BY <1>2, <1>4 DEF Covered, Renewed
 
LEMMA RunStays ==
    ASSUME WorldOK, CertsGrow, RunPart, NEW p \in Callers, UNCHANGED run[p]
    PROVE  RunInv(p)'
<1>1. run[p] \in Script /\ RunInv(p)
  BY DEF RunPart
<1>2. Covered(p)'
  BY <1>1, CoveredStays DEF Working
<1> QED
  BY <1>1, <1>2 DEF RunInv, SayKnown, ResultSet, BadTells

LEMMA RunSet ==
    ASSUME WorldOK, CertsGrow, RunPart, NEW p \in Callers, NEW r \in Script, run' = [run EXCEPT ![p] = r],
           r.pc # "customers" => r.cust # Nobody, r.pc \in {"certbot", "hook"} => r.at # Nobody,
           run'[p] = r => RunInv(p)'
    PROVE  RunPart'
<1>1. /\ run'[p] = r /\ run' \in [Callers -> Script]
      /\ \A q \in Callers : q # p => run'[q] = run[q]
  BY DEF RunPart
<1>2. ASSUME NEW q \in Callers PROVE RunInv(q)'
  <2>1. CASE q = p
    BY <2>1, <1>1
  <2>2. CASE q # p
    BY <2>2, <1>1, RunStays
  <2> QED
    BY <2>1, <2>2
<1> QED
  BY <1>1, <1>2 DEF RunPart

LEMMA RunNextCustomer ==
    ASSUME WorldOK, CertsGrow, RunPart, NEW p \in Callers, NextCustomer(p)
    PROVE  RunPart'
<1> DEFINE r0 == run[p]
           c  == Head(r0.todo)
           ns == IF r0.only = Nobody THEN entries[c] ELSE entries[c] \cap {r0.only}
<1>1. /\ r0 \in Script /\ r0.pc = "customers" /\ r0.todo # <<>> /\ c \in Customers /\ Tail(r0.todo) \in Seq(Customers)
      /\ RunInv(p) /\ run \in [Callers -> Script]
  BY ScriptFacts DEF RunPart, NextCustomer
<1>2. ns \subseteq Names /\ c # Nobody
  BY <1>1, ProcsAssumption DEF WorldOK
<1>3. CASE Renewable(c) /\ (r0.only = Nobody \/ ns # {})
  <2> DEFINE new == {[cust |-> c, name |-> n] : n \in ns}
  <2>1. PICK r : r = [r0 EXCEPT !.pc = "entries", !.todo = Tail(r0.todo), !.cust = c, !.names = ns,
                                !.entryFailed = FALSE, !.snapshot = @ \cup new]
    OBVIOUS
  <2>2. new \subseteq [cust : Customers, name : Names]
    BY <1>1, <1>2
  <2>3. /\ r \in Script /\ r.pc = "entries" /\ r.cust = c /\ r.names = ns /\ ~r.entryFailed
        /\ r.snapshot = r0.snapshot \cup new
        /\ r.failed = r0.failed /\ r.bad = r0.bad /\ r.say = r0.say /\ r.result = r0.result /\ r.started = r0.started
    <3> HIDE DEF new, ns
    <3> QED
      BY <1>1, <1>2, <2>1, <2>2 DEF Script
  <2>4. run' = [run EXCEPT ![p] = r]
    BY <1>1, <1>3, <2>1 DEF NextCustomer
  <2>5. ASSUME run'[p] = r PROVE RunInv(p)'
    <3>1. SayKnown(p)' /\ ResultSet(p)' /\ BadTells(p)'
      BY <1>1, <2>3, <2>5 DEF RunInv, SayKnown, ResultSet, BadTells
    <3>2. ASSUME NEW e \in r.snapshot, e \notin r0.snapshot PROVE Working(p, e)'
      <4>1. PICK n \in ns : e = [cust |-> c, name |-> n]
        BY <2>3, <3>2
      <4>2. e.cust = c /\ e.name \in ns
        BY <4>1
      <4> QED
        BY <2>3, <2>5, <4>2 DEF Working
    <3>3. Covered(p)'
      BY <1>1, <2>3, <2>5, <3>2, CoveredStays DEF Working
    <3> QED
      BY <3>1, <3>3 DEF RunInv
  <2> QED
    BY <1>2, <2>3, <2>4, <2>5, RunSet
<1>4. CASE ~(Renewable(c) /\ (r0.only = Nobody \/ ns # {}))
  <2> DEFINE b == [cust |-> c, name |-> Nobody]
  <2>1. PICK r : r = [r0 EXCEPT !.todo = Tail(r0.todo), !.failed = TRUE, !.bad = @ \cup {b}]
    OBVIOUS
  <2>2. b \in [cust : Customers, name : Names \cup {Nobody}]
    BY <1>1
  <2>3. /\ r \in Script /\ r.pc = "customers" /\ r.failed /\ r.bad = r0.bad \cup {b} /\ r.snapshot = r0.snapshot
        /\ r.say = r0.say /\ r.result = r0.result /\ r.started = r0.started
    <3> HIDE DEF b
    <3> QED
      BY <1>1, <2>1, <2>2 DEF Script
  <2>4. run' = [run EXCEPT ![p] = r]
    BY <1>1, <1>4, <2>1 DEF NextCustomer
  <2>5. ASSUME run'[p] = r PROVE RunInv(p)'
    <3>1. SayKnown(p)' /\ ResultSet(p)' /\ BadTells(p)'
      BY <1>1, <2>3, <2>5 DEF RunInv, SayKnown, ResultSet, BadTells
    <3>2. Covered(p)'
      BY <1>1, <2>3, <2>5, CoveredStays DEF Working
    <3> QED
      BY <3>1, <3>2 DEF RunInv
  <2> QED
    BY <2>3, <2>4, <2>5, RunSet
<1> QED
  BY <1>3, <1>4

(* A script that begins, or that was killed.                               *)
LEMMA FreshRuns ==
    ASSUME NEW q \in Seq(Customers), NEW n \in Names \cup {Nobody}, NEW t \in Times, NEW r,
           r = [pc |-> "customers", todo |-> q, cust |-> Nobody, only |-> n, names |-> {}, at |-> Nobody, say |-> <<>>,
                result |-> 0, entryFailed |-> FALSE, failed |-> FALSE, started |-> t, snapshot |-> {}, bad |-> {}]
    PROVE  /\ r \in Script /\ r.pc = "customers" /\ r.say = <<>> /\ r.result = 0 /\ ~r.entryFailed /\ ~r.failed
           /\ r.bad = {} /\ r.snapshot = {} /\ r.started = t
<1>1. <<>> \in Seq(Events)
  BY EmptySeq
<1>2. r \in Script
  BY <1>1 DEF Script
<1> QED
  BY <1>2

LEMMA RunFresh ==
    ASSUME WorldOK, CertsGrow, RunPart, NEW p \in Callers, NEW r \in Script, run' = [run EXCEPT ![p] = r],
           r.pc = "customers", r.say = <<>>, r.result = 0, ~r.entryFailed, ~r.failed, r.bad = {}, r.snapshot = {},
           r.started <= now
    PROVE  RunPart'
<1>1. ASSUME run'[p] = r PROVE RunInv(p)'
  <2>1. SayKnown(p)' /\ ResultSet(p)' /\ BadTells(p)'
    BY <1>1 DEF SayKnown, ResultSet, BadTells
  <2>2. r.started <= now'
    BY ScriptFacts, ConstantFacts DEF CertsGrow, WorldOK
  <2>3. Covered(p)'
    BY <1>1, <2>2 DEF Covered
  <2> QED
    BY <2>1, <2>3 DEF RunInv
<1> QED
  BY <1>1, RunSet

LEMMA RunCustomerDone ==
    ASSUME WorldOK, CertsGrow, RunPart, NEW p \in Callers, CustomerDone(p)
    PROVE  RunPart'
<1> DEFINE r0 == run[p]
<1>1. /\ r0 \in Script /\ r0.pc = "entries" /\ r0.names = {} /\ r0.say = <<>>
      /\ RunInv(p) /\ run \in [Callers -> Script]
      /\ run' = [run EXCEPT ![p].pc = "customers", ![p].cust = Nobody, ![p].at = Nobody, ![p].failed = @ \/ r0.entryFailed]
  BY DEF RunPart, CustomerDone
<1>2. PICK b \in BOOLEAN : b = (r0.failed \/ r0.entryFailed)
  OBVIOUS
<1>3. PICK r : r = [r0 EXCEPT !.pc = "customers", !.cust = Nobody, !.at = Nobody, !.failed = b]
  OBVIOUS
<1>4. /\ r \in Script /\ r.pc = "customers" /\ r.failed = b /\ r.entryFailed = r0.entryFailed /\ r.bad = r0.bad
      /\ r.snapshot = r0.snapshot /\ r.say = <<>> /\ r.result = r0.result /\ r.started = r0.started
  BY <1>1, <1>3 DEF Script
<1>5. run' = [run EXCEPT ![p] = r]
  BY <1>1, <1>2, <1>3
<1>6. ASSUME run'[p] = r PROVE RunInv(p)'
  <2>1. SayKnown(p)' /\ ResultSet(p)'
    BY <1>1, <1>4, <1>6 DEF RunInv, SayKnown, ResultSet
  <2>2. BadTells(p)'
    BY <1>1, <1>2, <1>4, <1>6 DEF RunInv, BadTells
  <2>3. Covered(p)'
    BY <1>1, <1>4, <1>6, CoveredStays DEF Working
  <2> QED
    BY <2>1, <2>2, <2>3 DEF RunInv
<1> QED
  BY <1>4, <1>5, <1>6, RunSet

LEMMA SaidKnown ==
    ASSUME NEW c, NEW e \in Events
    PROVE  Said(c, e) \in Seq(Events) /\ <<>> \in Seq(Events)
  BY EmptySeq DEF Said

LEMMA RunStartCertbot ==
    ASSUME WorldOK, CertsGrow, RunPart, NEW p \in Callers, StartCertbot(p)
    PROVE  RunPart'
<1> DEFINE r0 == run[p]
<1>1. /\ r0 \in Script /\ r0.pc = "entries" /\ r0.cust \in Customers /\ r0.cust # Nobody /\ r0.names \subseteq Names
      /\ RunInv(p) /\ run \in [Callers -> Script]
  BY ScriptFacts DEF RunPart, StartCertbot
<1>2. PICK n \in r0.names :
        run' = [run EXCEPT ![p].names = @ \ {n}, ![p].at = n,
                           ![p].pc = IF CertbotLocked(p) THEN @ ELSE "certbot",
                           ![p].entryFailed = @ \/ CertbotLocked(p),
                           ![p].bad = IF CertbotLocked(p) THEN @ \cup {[cust |-> run[p].cust, name |-> n]} ELSE @,
                           ![p].say = IF CertbotLocked(p) THEN Said(run[p].cust, "renewal_failed") ELSE <<>>]
  BY DEF StartCertbot
<1>3. n \in Names /\ n # Nobody
  BY <1>1, ProcsAssumption
<1>4. \A e \in r0.snapshot : e.cust = r0.cust /\ e.name = n => e = [cust |-> r0.cust, name |-> n]
  BY <1>1, ScriptFacts
<1>5. CASE CertbotLocked(p)
  <2> DEFINE b == [cust |-> r0.cust, name |-> n]
             q == Said(r0.cust, "renewal_failed")
  <2>1. PICK r : r = [r0 EXCEPT !.names = @ \ {n}, !.at = n, !.entryFailed = TRUE, !.bad = @ \cup {b}, !.say = q]
    OBVIOUS
  <2>2. b \in [cust : Customers, name : Names \cup {Nobody}] /\ q \in Seq(Events)
    BY <1>1, <1>3, SaidKnown, RunsAssumption
  <2>3. /\ r \in Script /\ r.pc = "entries" /\ r.cust = r0.cust /\ r.names = r0.names \ {n} /\ r.at = n /\ r.entryFailed
        /\ r.bad = r0.bad \cup {b} /\ r.snapshot = r0.snapshot /\ r.result = r0.result /\ r.started = r0.started
    <3> HIDE DEF b, q
    <3> QED
      BY <1>1, <1>3, <2>1, <2>2 DEF Script
  <2>4. run' = [run EXCEPT ![p] = r]
    BY <1>1, <1>2, <1>5, <2>1
  <2>5. ASSUME run'[p] = r PROVE RunInv(p)'
    <3>1. SayKnown(p)' /\ ResultSet(p)' /\ BadTells(p)'
      BY <1>1, <1>3, <2>3, <2>5 DEF RunInv, SayKnown, ResultSet, BadTells
    <3>2. Covered(p)'
      BY <1>1, <1>4, <2>3, <2>5, CoveredStays DEF Working
    <3> QED
      BY <3>1, <3>2 DEF RunInv
  <2> QED
    BY <1>1, <2>3, <2>4, <2>5, RunSet
<1>6. CASE ~CertbotLocked(p)
  <2>1. PICK r : r = [r0 EXCEPT !.names = @ \ {n}, !.at = n, !.pc = "certbot", !.say = <<>>]
    OBVIOUS
  <2>2. /\ r \in Script /\ r.pc = "certbot" /\ r.cust = r0.cust /\ r.names = r0.names \ {n} /\ r.at = n /\ r.say = <<>>
        /\ r.entryFailed = r0.entryFailed /\ r.failed = r0.failed
        /\ r.bad = r0.bad /\ r.snapshot = r0.snapshot /\ r.result = r0.result /\ r.started = r0.started
    BY <1>1, <1>3, <2>1, SaidKnown, RunsAssumption DEF Script
  <2>3. PICK x \in BOOLEAN : x = r0.entryFailed
    BY <1>1 DEF Script
  <2>4. run' = [run EXCEPT ![p] = r]
    BY ZenonT(60), <1>1, <1>2, <1>6, <2>1, <2>3
  <2>5. ASSUME run'[p] = r PROVE RunInv(p)'
    <3>1. SayKnown(p)' /\ ResultSet(p)' /\ BadTells(p)'
      BY <1>1, <1>3, <2>2, <2>5 DEF RunInv, SayKnown, ResultSet, BadTells
    <3>2. Covered(p)'
      BY <1>1, <1>4, <2>2, <2>5, CoveredStays DEF Working
    <3> QED
      BY <3>1, <3>2 DEF RunInv
  <2> QED
    BY <1>1, <1>3, <2>2, <2>4, <2>5, RunSet
<1> QED
  BY <1>5, <1>6

LEMMA IssuedKnown ==
    ASSUME NEW c, NEW n, NEW q \in IssuedAlerts(c, n)
    PROVE  q \in Seq(Events)
<1>1. \A e \in {"renewal_success", "dns_failure", "deploy_failed", "deploy_success"} : Said(c, e) \in Seq(Events)
  BY SaidKnown, RunsAssumption
<1>2. <<>> \in Seq(Events)
  BY EmptySeq
<1>3. ASSUME NEW x \in NewAlerts(c, n) PROVE x \in Seq(Events)
  <2>1. CASE n \in entries[c]
    <3>1. PICK end \in DeployAlerts(c) : x = Said(c, "renewal_success") \o end
      BY <2>1 DEF NewAlerts
    <3>2. end \in Seq(Events)
      BY <1>1, <1>2 DEF DeployAlerts
    <3> QED
      BY <1>1, <3>1, <3>2, ConcatProperties
  <2>2. CASE n \notin entries[c]
    BY <2>2, <1>2 DEF NewAlerts
  <2> QED
    BY <2>1, <2>2
<1>4. PICK dns \in {<<>>, Said(c, "dns_failure")}, new \in NewAlerts(c, n) : q = dns \o new
  BY DEF IssuedAlerts
<1>5. dns \in Seq(Events) /\ new \in Seq(Events)
  BY <1>1, <1>2, <1>3
<1> QED
  BY <1>4, <1>5, ConcatProperties

(* Certbot decides, with the result it will end with.                      *)
LEMMA RunDecided ==
    ASSUME WorldOK, CertsGrow, RunPart, NEW p \in Callers, run[p].pc = "certbot",
           NEW r \in Script, run' = [run EXCEPT ![p] = r], r.pc = "hook", r.cust = run[p].cust, r.names = run[p].names,
           r.at = run[p].at, r.entryFailed = run[p].entryFailed, r.failed = run[p].failed, r.bad = run[p].bad,
           r.snapshot = run[p].snapshot, r.started = run[p].started,
           r.result = 1 \/ certs'[r.cust][r.at] > r.started + RenewBefore
    PROVE  RunPart'
<1> DEFINE r0 == run[p]
<1>1. /\ r0 \in Script /\ r0.cust # Nobody /\ r0.at # Nobody
      /\ RunInv(p) /\ run \in [Callers -> Script]
  BY DEF RunPart
<1>2. ASSUME run'[p] = r PROVE RunInv(p)'
  <2>1. SayKnown(p)' /\ ResultSet(p)' /\ BadTells(p)'
    BY <1>1, <1>2 DEF RunInv, SayKnown, ResultSet, BadTells
  <2>2. ASSUME NEW e \in r.snapshot, Working(p, e)
        PROVE  Renewed(e.cust, e.name, r.started)' \/ Working(p, e)'
    BY <1>2, <2>2 DEF Working, Renewed
  <2>3. Covered(p)'
    BY <1>1, <1>2, <2>2, CoveredStays
  <2> QED
    BY <2>1, <2>3 DEF RunInv
<1> QED
  BY <1>1, <1>2, RunSet

LEMMA RunCertbotDecides ==
    ASSUME WorldOK, CertsGrow, RunPart, NEW p \in Callers, CertbotDecides(p)
    PROVE  RunPart'
<1> DEFINE r0 == run[p]
           c  == r0.cust
           n  == r0.at
<1>1. /\ r0 \in Script /\ r0.pc = "certbot" /\ c \in Customers /\ n \in Names /\ r0.say \in Seq(Events)
      /\ RunInv(p) /\ run \in [Callers -> Script] /\ now \in Nat /\ r0.started \in Nat
      /\ certs \in [Customers -> [Names -> 0 .. MaxNow + Life]]
  BY ScriptFacts, ConstantFacts DEF RunPart, CertbotDecides, WorldOK
<1>2. r0.result = 0 /\ r0.started <= now
  BY <1>1 DEF RunInv, ResultSet, Covered
<1>3. CASE NotDue(c, n) /\ run' = [run EXCEPT ![p].pc = "hook"] /\ UNCHANGED certs
  <2>1. PICK r : r = [r0 EXCEPT !.pc = "hook"]
    OBVIOUS
  <2>2. /\ r \in Script /\ r.pc = "hook" /\ r.cust = c /\ r.names = r0.names /\ r.at = n
        /\ r.entryFailed = r0.entryFailed /\ r.failed = r0.failed /\ r.bad = r0.bad
        /\ r.snapshot = r0.snapshot /\ r.started = r0.started
    BY <1>1, <2>1 DEF Script
  <2>3. run' = [run EXCEPT ![p] = r]
    BY <1>3, <2>1
  <2>4. certs[c][n] \in Nat
    BY <1>1, ConstantFacts
  <2>5. certs'[c][n] > r0.started + RenewBefore
    BY SMTT(30), <1>1, <1>2, <1>3, <2>4, ConstantFacts DEF NotDue
  <2> QED
    BY <1>1, <2>2, <2>3, <2>5, RunDecided
<1>4. ASSUME NEW say \in {<<>>, IF n \in entries[c] THEN Said(c, "dns_failure") ELSE <<>>},
             run' = [run EXCEPT ![p].pc = "hook", ![p].say = say, ![p].result = 1]
      PROVE  RunPart'
  <2>1. say \in Seq(Events)
    BY SaidKnown, RunsAssumption
  <2>2. PICK r : r = [r0 EXCEPT !.pc = "hook", !.say = say, !.result = 1]
    OBVIOUS
  <2>3. /\ r \in Script /\ r.pc = "hook" /\ r.cust = c /\ r.names = r0.names /\ r.at = n /\ r.result = 1
        /\ r.entryFailed = r0.entryFailed /\ r.failed = r0.failed /\ r.bad = r0.bad
        /\ r.snapshot = r0.snapshot /\ r.started = r0.started
    BY <1>1, <2>1, <2>2 DEF Script
  <2>4. run' = [run EXCEPT ![p] = r]
    BY <1>4, <2>2
  <2> QED
    BY <1>1, <2>3, <2>4, RunDecided
<1>5. ASSUME certs' = [certs EXCEPT ![c][n] = now + Life],
             NEW say \in IssuedAlerts(c, n), run' = [run EXCEPT ![p].pc = "hook", ![p].say = say]
      PROVE  RunPart'
  <2>1. say \in Seq(Events)
    BY IssuedKnown
  <2>2. PICK r : r = [r0 EXCEPT !.pc = "hook", !.say = say]
    OBVIOUS
  <2>3. run' = [run EXCEPT ![p] = r]
    BY <1>5, <2>2
  <2>4. certs'[c][n] = now + Life
    BY <1>1, <1>5
  <2>6. /\ r \in Script /\ r.pc = "hook" /\ r.cust = c /\ r.names = r0.names /\ r.at = n
        /\ r.entryFailed = r0.entryFailed /\ r.failed = r0.failed /\ r.bad = r0.bad
        /\ r.snapshot = r0.snapshot /\ r.started = r0.started
    BY <1>1, <2>1, <2>2 DEF Script
  <2>5. certs'[c][n] > r0.started + RenewBefore
    BY <1>1, <1>2, <2>4, ConstantFacts
  <2> QED
    BY <1>1, <2>3, <2>5, <2>6, RunDecided
<1> QED
  BY <1>3, <1>4, <1>5 DEF CertbotDecides

LEMMA RunCertbotEnds ==
    ASSUME WorldOK, CertsGrow, RunPart, NEW p \in Callers, CertbotEnds(p)
    PROVE  RunPart'
<1> DEFINE r0 == run[p]
           b  == [cust |-> r0.cust, name |-> r0.at]
           q  == Said(r0.cust, "renewal_failed")
<1>1. /\ r0 \in Script /\ r0.pc = "hook" /\ r0.cust \in Customers /\ r0.cust # Nobody /\ r0.at \in Names /\ r0.at # Nobody
      /\ r0.result \in {0, 1} /\ RunInv(p) /\ run \in [Callers -> Script]
  BY ScriptFacts DEF RunPart, CertbotEnds
<1>2. \A e \in r0.snapshot : e.cust = r0.cust /\ e.name = r0.at => e = b
  BY <1>1, ScriptFacts
<1>3. b \in [cust : Customers, name : Names \cup {Nobody}] /\ q \in Seq(Events) /\ <<>> \in Seq(Events)
  BY <1>1, SaidKnown, RunsAssumption
<1>4. run' = [run EXCEPT ![p].pc = "entries", ![p].result = 0, ![p].at = IF r0.result = 1 THEN @ ELSE Nobody,
                         ![p].say = IF r0.result = 1 THEN q ELSE <<>>,
                         ![p].entryFailed = @ \/ r0.result = 1,
                         ![p].bad = IF r0.result = 1 THEN @ \cup {b} ELSE @]
  BY DEF CertbotEnds
<1> HIDE DEF b, q
<1>5. CASE r0.result = 1
  <2>1. PICK r : r = [r0 EXCEPT !.pc = "entries", !.result = 0, !.say = q, !.entryFailed = TRUE, !.bad = @ \cup {b}]
    OBVIOUS
  <2>2. /\ r \in Script /\ r.pc = "entries" /\ r.cust = r0.cust /\ r.names = r0.names /\ r.at = r0.at /\ r.entryFailed
        /\ r.bad = r0.bad \cup {b} /\ r.snapshot = r0.snapshot /\ r.result = 0 /\ r.started = r0.started
    BY <1>1, <1>3, <2>1 DEF Script
  <2>3. run' = [run EXCEPT ![p] = r]
    BY <1>1, <1>4, <1>5, <2>1
  <2>4. ASSUME run'[p] = r PROVE RunInv(p)'
    <3>1. SayKnown(p)' /\ ResultSet(p)' /\ BadTells(p)'
      BY <1>1, <2>2, <2>4 DEF RunInv, SayKnown, ResultSet, BadTells
    <3>2. Covered(p)'
      BY <1>1, <1>2, <2>2, <2>4, CoveredStays DEF Working
    <3> QED
      BY <3>1, <3>2 DEF RunInv
  <2> QED
    BY <1>1, <2>2, <2>3, <2>4, RunSet
<1>6. CASE r0.result = 0
  <2>1. PICK r : r = [r0 EXCEPT !.pc = "entries", !.result = 0, !.at = Nobody, !.say = <<>>]
    OBVIOUS
  <2>2. /\ r \in Script /\ r.pc = "entries" /\ r.cust = r0.cust /\ r.names = r0.names /\ r.say = <<>>
        /\ r.entryFailed = r0.entryFailed /\ r.failed = r0.failed
        /\ r.bad = r0.bad /\ r.snapshot = r0.snapshot /\ r.result = 0 /\ r.started = r0.started
    BY <1>1, <1>3, <2>1 DEF Script
  <2>3. PICK x \in BOOLEAN : x = r0.entryFailed
    BY <1>1 DEF Script
  <2>6. ~(r0.result = 1) /\ x = (r0.entryFailed \/ r0.result = 1)
    BY <1>6, <2>3
  <2>4. run' = [run EXCEPT ![p] = r]
    BY <1>1, <1>4, <2>1, <2>3, <2>6
  <2>5. ASSUME run'[p] = r PROVE RunInv(p)'
    <3>1. SayKnown(p)' /\ ResultSet(p)' /\ BadTells(p)'
      BY <1>1, <2>2, <2>5 DEF RunInv, SayKnown, ResultSet, BadTells
    <3>2. Covered(p)'
      BY <1>1, <1>6, <2>2, <2>5, CoveredStays DEF Working
    <3> QED
      BY <3>1, <3>2 DEF RunInv
  <2> QED
    BY <1>1, <2>2, <2>4, <2>5, RunSet
<1> QED
  BY <1>1, <1>5, <1>6

LEMMA RunAlert ==
    ASSUME WorldOK, CertsGrow, RunPart, NEW p \in Callers, Alert(p)
    PROVE  RunPart'
<1> DEFINE r0 == run[p]
<1>1. /\ r0 \in Script /\ r0.say # <<>> /\ Tail(r0.say) \in Seq(Events)
      /\ RunInv(p) /\ run \in [Callers -> Script]
      /\ r0.pc # "customers" => r0.cust # Nobody
      /\ run' = [run EXCEPT ![p].say = Tail(@)]
  BY ScriptFacts DEF RunPart, Alert
<1>2. r0.pc # "customers" /\ r0.at # Nobody
  BY <1>1 DEF RunInv, SayKnown
<1>3. PICK r : r = [r0 EXCEPT !.say = Tail(r0.say)]
  OBVIOUS
<1>4. /\ r \in Script /\ r.pc = r0.pc /\ r.cust = r0.cust /\ r.names = r0.names /\ r.at = r0.at
      /\ r.entryFailed = r0.entryFailed /\ r.failed = r0.failed
      /\ r.bad = r0.bad /\ r.snapshot = r0.snapshot /\ r.result = r0.result /\ r.started = r0.started
  BY <1>1, <1>3 DEF Script
<1>5. run' = [run EXCEPT ![p] = r]
  BY <1>1, <1>3
<1>6. ASSUME run'[p] = r PROVE RunInv(p)'
  <2>1. SayKnown(p)' /\ ResultSet(p)' /\ BadTells(p)'
    BY <1>1, <1>2, <1>4, <1>6 DEF RunInv, SayKnown, ResultSet, BadTells
  <2>2. Covered(p)'
    BY <1>1, <1>4, <1>6, CoveredStays DEF Working
  <2> QED
    BY <2>1, <2>2 DEF RunInv
<1> QED
  BY <1>1, <1>2, <1>4, <1>5, <1>6, RunSet

LEMMA WorldStep ==
    ASSUME WorldOK, RunPart, [Next]_vars
    PROVE  WorldOK' /\ CertsGrow
<1>1. now' \in Times /\ now' \in Nat /\ now <= now' /\ now \in Nat
  BY ClockMoves, ConstantFacts DEF WorldOK
<1> DEFINE Rest ==
             /\ UNCHANGED settings /\ entries' \in [Customers -> SUBSET Names]
             /\ certs' \in [Customers -> [Names -> 0 .. MaxNow + Life]]
             /\ \A c \in Customers, n \in Names : certs'[c][n] = certs[c][n] \/ certs'[c][n] = now + Life
             /\ day' \in Nat /\ faults' \in 0 .. MaxFaults /\ runs' \in 0 .. MaxRuns
<1>2. ASSUME UNCHANGED <<settings, certs>>, UNCHANGED entries \/ RemoveEntry, UNCHANGED day \/ day' = day + 1,
             UNCHANGED faults \/ Fault, UNCHANGED runs \/ (runs < MaxRuns /\ runs' = runs + 1)
      PROVE  Rest
  <2>1. entries' \in [Customers -> SUBSET Names]
    BY <1>2 DEF RemoveEntry, WorldOK
  <2>2. day' \in Nat
    BY <1>2 DEF WorldOK
  <2>3. faults' \in 0 .. MaxFaults
    BY <1>2, ConstantFacts DEF Fault, WorldOK
  <2>4. runs' \in 0 .. MaxRuns
    BY <1>2, ConstantFacts DEF WorldOK
  <2> QED
    BY <1>2, <2>1, <2>2, <2>3, <2>4 DEF WorldOK
<1>3. ASSUME NEW p \in Callers, StartOne(p) \/ Go(p), ~CertbotDecides(p) PROVE Rest
  BY <1>2, <1>3 DEF StartOne, Starts, Go, NextCustomer, CustomerDone, StartCertbot, CertbotEnds, Alert, world, scanVars
<1>4. ASSUME NEW p \in Callers, CertbotDecides(p) PROVE Rest
  <2>1. UNCHANGED <<settings, entries, day, faults, runs>>
    BY <1>4 DEF CertbotDecides, scanVars
  <2>2. CASE UNCHANGED certs
    BY <1>2, <2>1, <2>2
  <2>3. CASE certs' = [certs EXCEPT ![run[p].cust][run[p].at] = now + Life]
    <3>1. run[p].cust \in Customers /\ run[p].at \in Names
      BY <1>4, ScriptFacts DEF RunPart, CertbotDecides
    <3>2. now + Life \in 0 .. MaxNow + Life
      BY <1>1, ConstantFacts DEF WorldOK, Times
    <3>3. certs \in [Customers -> [Names -> 0 .. MaxNow + Life]]
      BY DEF WorldOK
    <3>4. /\ certs' \in [Customers -> [Names -> 0 .. MaxNow + Life]]
          /\ \A c \in Customers, n \in Names : certs'[c][n] = certs[c][n] \/ certs'[c][n] = now + Life
      BY <2>3, <3>1, <3>2, <3>3
    <3> QED
      BY <2>1, <3>4 DEF WorldOK
  <2> QED
    BY <1>4, <2>2, <2>3 DEF CertbotDecides
<1>5. ASSUME NEW p \in Procs, UsesState(p) \/ Dies(p) PROVE Rest
  BY <1>2, <1>5 DEF UsesState, UseState, TakeLock, Send, SendFails, Save, Dies, Dropped, world, scanVars
<1>6. ASSUME NEW s \in Scans, (TimerFires(s) /\ UNCHANGED <<run, runs>>) \/ Scanning(s) PROVE Rest
  BY <1>2, <1>6 DEF TimerFires, Scanning, Scan, ScanCustomer, ScanAlerted, world
<1>7. ASSUME StartAll \/ (Tick /\ UNCHANGED <<run, runs>>) \/ UNCHANGED vars PROVE Rest
  BY <1>2, <1>7 DEF StartAll, Starts, Tick, world, scanVars, vars
<1>8. ASSUME RemoveEntry PROVE Rest
  BY <1>2, <1>8 DEF RemoveEntry, scanVars
<1>9. Rest
  BY <1>3, <1>4, <1>5, <1>6, <1>7, <1>8 DEF Next
<1> QED
  BY <1>1, <1>9 DEF WorldOK, CertsGrow

LEMMA RunStep ==
    ASSUME WorldOK, StatePart, ScanPart, RunPart, [Next]_vars
    PROVE  RunPart'
<1>1. CertsGrow
  BY WorldStep
<1>2. CASE UNCHANGED run
  BY <1>1, <1>2, RunStays DEF RunPart
<1>3. ASSUME NEW p \in Callers, NEW q \in Seq(Customers), NEW n \in Names \cup {Nobody}, Starts(p, q, n) PROVE RunPart'
  <2>1. now \in Times /\ 0 <= now /\ now <= now
    BY ConstantFacts DEF WorldOK
  <2>2. PICK r : r = [NoRun EXCEPT !.todo = q, !.only = n, !.started = now]
    OBVIOUS
  <2>3. run' = [run EXCEPT ![p] = r]
    BY <1>3, <2>2 DEF Starts
  <2>4. r = [pc |-> "customers", todo |-> q, cust |-> Nobody, only |-> n, names |-> {}, at |-> Nobody, say |-> <<>>,
             result |-> 0, entryFailed |-> FALSE, failed |-> FALSE, started |-> now, snapshot |-> {}, bad |-> {}]
    BY <2>2 DEF NoRun
  <2>5. PICK t : t = now
    OBVIOUS
  <2>6. /\ r \in Script /\ r.pc = "customers" /\ r.say = <<>> /\ r.result = 0 /\ ~r.entryFailed /\ ~r.failed
        /\ r.bad = {} /\ r.snapshot = {} /\ r.started = t
    BY <2>1, <2>4, <2>5, FreshRuns
  <2> QED
    BY <1>1, <2>1, <2>3, <2>5, <2>6, RunFresh
<1>4. ASSUME NEW p \in Callers, StartOne(p) PROVE RunPart'
  <2>1. PICK c \in Customers : \E n \in entries[c] \cup {Nobody} : Starts(p, <<c>>, n)
    BY <1>4 DEF StartOne
  <2>2. PICK n \in entries[c] \cup {Nobody} : Starts(p, <<c>>, n)
    BY <2>1
  <2>3. <<c>> \in Seq(Customers) /\ n \in Names \cup {Nobody}
    BY DEF WorldOK
  <2> QED
    BY <2>2, <2>3, <1>3
<1>5. CASE StartAll
  BY <1>3, <1>5, OrderAssumption DEF StartAll
<1>6. ASSUME NEW p \in Callers, Go(p) PROVE RunPart'
  BY <1>1, <1>6, RunNextCustomer, RunCustomerDone, RunStartCertbot, RunCertbotDecides, RunCertbotEnds, RunAlert DEF Go
<1>7. ASSUME NEW p \in Procs, Dies(p) PROVE RunPart'
  <2>1. CASE p \in Callers /\ run' = [run EXCEPT ![p] = NoRun]
    <3>1. <<>> \in Seq(Customers) /\ Nobody \in Names \cup {Nobody} /\ 0 \in Times /\ 0 <= now
      BY EmptySeq, ConstantFacts DEF WorldOK
    <3>2. PICK r : r = NoRun
      OBVIOUS
    <3>3. run' = [run EXCEPT ![p] = r]
      BY <2>1, <3>2
    <3>4. /\ r \in Script /\ r.pc = "customers" /\ r.say = <<>> /\ r.result = 0 /\ ~r.entryFailed /\ ~r.failed
          /\ r.bad = {} /\ r.snapshot = {} /\ r.started = 0
      BY <3>1, <3>2, FreshRuns DEF NoRun
    <3> QED
      BY <1>1, <2>1, <3>1, <3>3, <3>4, RunFresh
  <2> QED
    BY <1>2, <1>7, <2>1 DEF Dies
<1>8. ASSUME NEW p \in Procs, UsesState(p) PROVE RunPart'
  BY <1>2, <1>8 DEF UsesState
<1> QED
  BY <1>2, <1>4, <1>5, <1>6, <1>7, <1>8 DEF Next, Scanning, RemoveEntry, vars
-----------------------------------------------------------------------------
LEMMA IInvInit == Init => IInv
<1> SUFFICES ASSUME Init PROVE IInv
  OBVIOUS
<1>1. WorldOK
  <2>1. entries \in [Customers -> SUBSET Names] /\ 0 \in Times /\ now = 0 /\ settings \in InitialSettings
    BY SettingsAssumption, ConstantFacts DEF Init, NotifyInit
  <2>2. certs \in [Customers -> [Names -> 0 .. MaxNow + Life]]
    <3>1. certs \in [Customers -> [Names -> 0 .. Life]] /\ 0 .. Life \subseteq 0 .. MaxNow + Life
      BY SettingsAssumption, ConstantFacts DEF Init, NotifyInit
    <3> QED
      BY <3>1
  <2> QED
    BY <2>1, <2>2, ConstantFacts DEF Init, NotifyInit, WorldOK
<1>2. \A p \in Procs : call[p] = NoCall /\ NoCall \in Call /\ NoCall.step = "none"
  BY IdleCalls DEF Init, NotifyInit
<1>3. StatePart
  <2>1. FilesOK
    BY <1>2, ProcsAssumption DEF Init, NotifyInit, FilesOK, Holds
  <2>2. RateLimited /\ \A c \in Customers : FileInv(c)
    BY DEF Init, NotifyInit, RateLimited, FileInv, Stamped, Remembered
  <2>3. \A p \in Procs : CallInv(p)
    BY <1>2 DEF CallInv, CallKnown, SeenStamped, SeenRemembers, IsDue, IsRecorded, SpacedOut, Holds
  <2> QED
    BY <2>1, <2>2, <2>3 DEF StatePart
<1>4. ScanPart
  <2>1. NoScan \in ScanRun /\ NoScan.pc = "customers" /\ NoScan.todo = <<>> /\ NoScan.asked = {} /\ NoScan.rc = 0
    BY WholeOrder DEF NoScan, ScanRun
  <2>2. scan = [s \in Scans |-> NoScan] /\ day = 0
    BY DEF Init, NotifyInit
  <2>3. ASSUME NEW s \in Scans PROVE ScanInv(s)
    <3>1. scan[s] = NoScan /\ call[s].step = "none"
      BY <1>2, <2>2 DEF Procs
    <3>2. ScanAt(s)
      BY <2>1, <3>1, WholeOrder DEF ScanAt
    <3>3. ScanUsed(s) /\ ScanAsked(s)
      BY <2>1, <2>2, <3>1 DEF ScanUsed, ScanAsked
    <3> QED
      BY <3>2, <3>3 DEF ScanInv
  <2> QED
    BY <2>1, <2>2, <2>3 DEF ScanPart
<1>5. RunPart
  <2>1. PICK r : r = NoRun
    OBVIOUS
  <2>2. <<>> \in Seq(Customers) /\ Nobody \in Names \cup {Nobody} /\ 0 \in Times /\ 0 <= now
    BY <1>1, EmptySeq, ConstantFacts DEF WorldOK
  <2>3. /\ r \in Script /\ r.pc = "customers" /\ r.say = <<>> /\ r.result = 0 /\ ~r.entryFailed /\ ~r.failed
        /\ r.bad = {} /\ r.snapshot = {} /\ r.started = 0
    BY <2>1, <2>2, FreshRuns DEF NoRun
  <2>4. run \in [Callers -> Script] /\ \A p \in Callers : run[p] = r
    BY <2>1, <2>3 DEF Init
  <2>5. ASSUME NEW p \in Callers PROVE RunInv(p)
    <3>1. SayKnown(p) /\ ResultSet(p) /\ BadTells(p)
      BY <2>3, <2>4 DEF SayKnown, ResultSet, BadTells
    <3>2. Covered(p)
      BY <2>2, <2>3, <2>4 DEF Covered
    <3> QED
      BY <3>1, <3>2 DEF RunInv
  <2> QED
    BY <2>3, <2>4, <2>5 DEF RunPart
<1> QED
  BY <1>1, <1>3, <1>4, <1>5 DEF IInv

LEMMA IInvStep == IInv /\ [Next]_vars => IInv'
  BY WorldStep, StateStep, ScanStep, RunStep DEF IInv

LEMMA Invariant == Spec => []IInv
  BY IInvInit, IInvStep, PTL DEF Spec

(* Every record of a script, of the scan and of a use of a state file is   *)
(* one the code can build, and only who is between reading and saving a    *)
(* state file holds its flock (notifications.py:505-551).                  *)
THEOREM RunTypeCorrect == Spec => []TypeOK
<1>1. IInv => TypeOK
  BY DEF IInv, WorldOK, StatePart, FilesOK, Holds, ScanPart, RunPart, TypeOK, NotifyTypeOK
<1> QED
  BY Invariant, <1>1, PTL

(* notifications.py:529-612: of the messages that are in the state file in *)
(* time, two of one kind are at least their gap apart, whatever the number *)
(* of scripts and the order in which they take the lock.                   *)
THEOREM AlertsSpacedOut == Spec => []RateLimited
<1>1. IInv => RateLimited
  BY DEF IInv, StatePart
<1> QED
  BY Invariant, <1>1, PTL

(* Who comes to hold a lock took it.                                       *)
LEMMA HoldsByTakeLock ==
    ASSUME FilesOK, [Next]_vars, NEW p \in Procs, call[p].step = "wait", call'[p].step \in {"send", "save"}
    PROVE  TakeLock(p)
<1>1. call \in [Procs -> Call] /\ call'[p] # call[p] /\ call' # call
  BY DEF FilesOK
<1>2. ASSUME NEW q \in Procs, NEW c, NEW w, Raise(q, c, w) PROVE FALSE
  <2>1. call'[p] = [NoCall EXCEPT !.step = "wait", !.cust = c, !.at = now, !.want = w]
    BY <1>1, <1>2 DEF Raise
  <2> QED
    BY <2>1 DEF NoCall
<1>3. ASSUME NEW q \in Procs, NEW r, r.step = "none", call' = [call EXCEPT ![q] = r] PROVE FALSE
  BY <1>1, <1>3
<1>4. ASSUME NEW q \in Procs, UseState(q) PROVE TakeLock(p)
  <2>1. CASE TakeLock(q)
    BY <1>1, <2>1 DEF TakeLock, ReadState
  <2>2. CASE Send(q)
    BY <1>1, <2>2 DEF Send
  <2>3. CASE SendFails(q) \/ Save(q)
    BY <1>3, <2>3, IdleCalls DEF SendFails, Failed, Save
  <2> QED
    BY <1>4, <2>1, <2>2, <2>3 DEF UseState
<1>5. ASSUME NEW q \in Procs, Dies(q) PROVE FALSE
  BY <1>3, <1>5, IdleCalls DEF Dies, Dropped
<1>6. ASSUME NEW q \in Callers, StartOne(q) \/ Go(q) PROVE FALSE
  BY <1>1, <1>2, <1>6 DEF Procs, StartOne, Starts, Go, NextCustomer, CustomerDone, StartCertbot, CertbotDecides, CertbotEnds,
                          Alert, Notify, stateVars
<1>7. ASSUME NEW s \in Scans, TimerFires(s) \/ Scanning(s) PROVE FALSE
  BY <1>1, <1>2, <1>7 DEF Procs, TimerFires, Scanning, Scan, ScanCustomer, ScanAlerted, stateVars
<1> QED
  BY <1>1, <1>4, <1>5, <1>6, <1>7 DEF Next, UsesState, StartAll, Starts, Tick, RemoveEntry, stateVars, vars

(* notifications.py:564-612: what is held back as not due was mailed, less *)
(* than its gap ago: a message that could not be sent holds nothing back.  *)
THEOREM HeldBackWasMailed == Spec => LimitedWasMailed
<1> DEFINE A == \A p \in Procs : call[p].step = "wait" /\ call'[p].step \in {"send", "save"} =>
                    \A w \in call[p].want \ call'[p].due : Mailed(call[p].cust, w, call[p].at)
<1>1. IInv /\ [Next]_vars => [A]_stateVars
  <2> SUFFICES ASSUME IInv, [Next]_vars, NEW p \in Procs, call[p].step = "wait", call'[p].step \in {"send", "save"},
                      NEW w \in call[p].want, w \notin call'[p].due
               PROVE  Mailed(call[p].cust, w, call[p].at)
    OBVIOUS
  <2>1. FilesOK /\ CallInv(p) /\ \A c \in Customers : FileInv(c)
    BY DEF IInv, StatePart
  <2>2. TakeLock(p)
    BY <2>1, HoldsByTakeLock
  <2>3. PICK c, t : c = call[p].cust /\ t = call[p].at
    OBVIOUS
  <2>4. c \in Customers /\ t \in Nat /\ w \in Wants
    BY <2>1, <2>3, RecordFacts DEF FilesOK, CallInv, CallKnown
  <2>5. call'[p].due = {v \in call[p].want : Due(disk[c], v, t)}
    <3> DEFINE d == {v \in call[p].want : Due(disk[call[p].cust], v, call[p].at)}
    <3>1. call' = [call EXCEPT ![p].step = IF d = {} THEN "save" ELSE "send", ![p].due = d, ![p].seen = disk[call[p].cust]]
      BY <2>2 DEF TakeLock, ReadState
    <3> HIDE DEF d
    <3>2. PICK r : r = [call[p] EXCEPT !.step = IF d = {} THEN "save" ELSE "send", !.due = d, !.seen = disk[call[p].cust]]
      OBVIOUS
    <3>3. call[p] \in Call /\ call'[p] = r
      BY <2>1, <3>1, <3>2 DEF FilesOK
    <3>4. r.due = d
      BY <3>2, <3>3 DEF Call
    <3> QED
      BY <2>3, <3>3, <3>4 DEF d
  <2>6. PICK e \in disk[c] : e.key = w.key /\ ~(t - e.at >= w.gap)
    BY <2>5 DEF Due
  <2>7. PICK m \in mails : m.cust = c /\ m.key = e.key /\ m.at = e.at
    BY <2>1, <2>4 DEF FileInv, Stamped, Sent
  <2>8. e \in Stamps
    BY <2>1, <2>4 DEF FilesOK
  <2>9. t - e.at < w.gap
    BY <2>4, <2>6, <2>8, RecordFacts
  <2> QED
    BY <2>3, <2>6, <2>7, <2>9 DEF Mailed
<1>2. Spec => [][A]_stateVars
  BY Invariant, <1>1, PTL DEF Spec
<1> QED
  BY <1>2 DEF LimitedWasMailed

(* notifications.py:772-796: the exit code 0 of the daily scan says that   *)
(* every customer's file could be read, and that each certificate it saw   *)
(* expiring was mailed within the gap that applies to it.                  *)
THEOREM ScanTellsTruth == Spec => []ScanTells
<1>1. IInv => ScanTells
  <2> SUFFICES ASSUME IInv, NEW s \in Scans, day > 0, ScanEnded(s), scan[s].rc = 0
               PROVE  /\ \A i \in 1 .. Len(Order) : Usable(Order[i])
                      /\ \A a \in scan[s].asked : Mailed(a.cust, a.want, a.at)
    BY DEF ScanTells
  <2>1. scan[s].pc = "customers" /\ scan[s].todo = <<>> /\ ScanInv(s)
    BY DEF IInv, ScanPart, ScanEnded
  <2>2. Before(<<>>) = 1 .. Len(Order)
    BY EmptySeq, OrderAssumption, LenProperties DEF Before
  <2> QED
    BY <2>1, <2>2 DEF ScanInv, ScanUsed, ScanAsked, Asking
<1> QED
  BY Invariant, <1>1, PTL

(* bin/msp-renew-all-customers.sh:51-78, bin/acme-renew.sh:150-200: when a *)
(* run ends, each entry it had listed failed or has a certificate that was *)
(* not due when the run started, and the exit code is 1 exactly if         *)
(* anything failed, whatever other runs did meanwhile.                     *)
THEOREM ExitCodesTellTruth == Spec => []ExitCodeTells
<1>1. IInv => ExitCodeTells
  <2> SUFFICES ASSUME IInv, NEW p \in Callers, Ended(p)
               PROVE  /\ run[p].failed <=> run[p].bad # {}
                      /\ \A e \in run[p].snapshot : e \in run[p].bad \/ Renewed(e.cust, e.name, run[p].started)
    BY DEF ExitCodeTells
  <2>1. run[p].pc = "customers" /\ RunInv(p)
    BY DEF IInv, RunPart, Ended
  <2> QED
    BY <2>1 DEF RunInv, BadTells, Covered, Working
<1> QED
  BY Invariant, <1>1, PTL
=============================================================================
