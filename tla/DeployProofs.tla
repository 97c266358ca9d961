---------------------------- MODULE DeployProofs ----------------------------
(***************************************************************************)
(* Type correctness of Deploy and what its exit code says, for every       *)
(* configuration; and, for entries that keep out of each other's way, that *)
(* a slot keeps serving what was reported to it and that what runs leave   *)
(* in a candidate can be committed.  The invariant for the latter two:     *)
(* every object on a device bears the prefix of its entry; at each step of *)
(* a row the candidate has what the calls before it did, and the rows done *)
(* before on this device point to the same object, unless the run was      *)
(* crossed by another for its entry, and then nothing is promised.         *)
(***************************************************************************)
EXTENDS Deploy, WellFoundedInduction, TLAPS

Conf == [candidate : Configurations, running : Configurations]

Left(q) == {q[i] : i \in DOMAIN q}

(* Where a run is, of its state x.                                         *)
On(x) == DeviceOf[Head(x.rows)]

InARow(x)  == x.step # "next" => x.phase = "working" /\ x.rows # <<>> /\ On(x) \in Devices
HasRows(x) == x.rows # <<>> => x.phase = "working" /\ x.entry \in EntryIds
ForOne(x)  == x.phase = "working" => x.lineage \in EntryIds
OfType(x)  == /\ x.step \in {"refer", "commit", "poll", "list", "delete"} => On(x) \in Firewalls
              /\ x.step \in {"bind", "clean"} => On(x) \notin Firewalls
HasObject(x) == x.step \notin {"next", "import"} => x.object \in Objects

(* No target is forgotten.                                                 *)
Reported(x) == \A e \in x.seen : Rows(e) \subseteq x.deployed \cup x.failed \cup Left(x.rows)
AllWell(x)  == x.phase = "exit0" => x.failed = {} /\ x.seen # {} /\ x.rows = <<>>

RunOK(x) == /\ InARow(x) /\ HasRows(x) /\ ForOne(x) /\ OfType(x) /\ HasObject(x)
            /\ Reported(x) /\ AllWell(x)

(* What TypeOK says of the rest.                                           *)
WorldOK ==
    /\ live \in [EntryIds -> 0 .. MaxRenewals]
    /\ device \in [Devices -> Conf]
    /\ job \in [Runs \X Slots -> {"none", "queued", "ok", "failed"}]
    /\ clock \in 0 .. MaxStamp
    /\ promised \in [Slots -> Certs \cup {None}]
    /\ crossed \subseteq Runs /\ loose \subseteq Slots

RunsOK == run \in [Runs -> RunState] /\ \A r \in Runs : RunOK(run[r])

BasicInv == WorldOK /\ RunsOK

(* What a device has is of the entries: by its prefix, and by who uses it. *)
OfEntry(d, x) == x.name.prefix = Entries[x.cert.lineage].prefix /\ d \in Targets(x.cert.lineage)
Tidy(d, c)  == /\ \A x \in c.certs : OfEntry(d, x)
               /\ \A s \in Slots : c.ref[s] # None =>
                    DeviceOf[s] = d /\ OfEntry(d, c.ref[s]) /\ s \in Rows(c.ref[s].cert.lineage)
Only(d, c, x) == x \in c.certs /\ \A y \in c.certs : Same(d, x, y) => y = x
Serves(d, c, s, v) ==
    /\ c.ref[s] # None /\ Held(d, c, c.ref[s])
    /\ \A y \in c.certs : Same(d, c.ref[s], y) => y.cert = v
Sound(d, c, L) == \A s \in Slots \ L : c.ref[s] # None => Held(d, c, c.ref[s])

DeviceOK(d) == /\ Tidy(d, device[d].candidate) /\ Tidy(d, device[d].running)
               /\ IF d \in Firewalls THEN Sound(d, device[d].candidate, loose)
                                     ELSE device[d].candidate = device[d].running

PromiseOK(s) == promised[s] # None =>
    /\ DeviceOf[s] \in Devices
    /\ Serves(DeviceOf[s], device[DeviceOf[s]].candidate, s, promised[s])
    /\ Serves(DeviceOf[s], device[DeviceOf[s]].running, s, promised[s])

(* What a run has done of its row.                                         *)
OwnNames(r) == run[r].phase = "working" => run[r].names \subseteq Named(run[r].lineage)
OwnRows(r)  == run[r].rows # <<>> => run[r].entry = run[r].lineage /\ Left(run[r].rows) \subseteq Rows(run[r].lineage)
NoPromise(r) == run[r].step # "next" => promised[Slot(r)] = None
OwnObject(r) == run[r].step \notin {"next", "import"} =>
                    run[r].object.name = Name(r) /\ run[r].object.cert.lineage = run[r].lineage
OwnDoomed(r) == run[r].step = "delete" =>
                    \A x \in run[r].doomed : x.name.prefix = Prefix(r) /\ x.name # Name(r)

RowOK(r) == OwnNames(r) /\ OwnRows(r) /\ NoPromise(r) /\ OwnObject(r) /\ OwnDoomed(r)

(* What more is so when no other run for the entry came in between: there  *)
(* is one object that it imports, and everything it did is there still.    *)
Lone(r)   == run[r].phase = "working" /\ r \notin crossed
Latest(r) == [name |-> [prefix |-> Entries[run[r].lineage].prefix, stamp |-> run[r].stamp],
              cert |-> [lineage |-> run[r].lineage, version |-> live[run[r].lineage]]]

Imported(r) == run[r].step \notin {"next", "import"} =>
                    run[r].object = Latest(r) /\ Only(Device(r), Candidate(r), Latest(r))
Referred(r) == run[r].step \in {"commit", "poll", "list", "delete", "clean"} =>
                    Candidate(r).ref[Slot(r)] = Latest(r)
Committed(r) == run[r].step \in {"list", "delete"} \/ (run[r].step = "poll" /\ job[<<r, Slot(r)>>] = "ok") =>
                    Serves(Device(r), device[Device(r)].running, Slot(r), Latest(r).cert)
Points(r, s) == /\ device[DeviceOf[s]].candidate.ref[s] = Latest(r)
                /\ Only(DeviceOf[s], device[DeviceOf[s]].candidate, Latest(r))
Kept(r)  == \A s \in Rows(run[r].lineage) : promised[s] # None /\ s \in run[r].deployed => Points(r, s)
Begun(r) == run[r].step # "next" =>
                \A s \in Rows(run[r].lineage) :
                    DeviceOf[s] = Device(r) /\ promised[s] # None => s \in run[r].deployed

LoneOK(r) == Lone(r) => Imported(r) /\ Referred(r) /\ Committed(r) /\ Kept(r) /\ Begun(r)

(* Runs for one entry at a time have crossed, and promise nothing.         *)
Crossing == \A q, r \in Runs :
    q # r /\ run[q].phase = "working" /\ run[r].phase = "working" /\ run[q].lineage = run[r].lineage => q \in crossed
Silent(r) == r \in crossed => /\ run[r].phase # "ready"
                              /\ run[r].phase = "working" => \A s \in Rows(run[r].lineage) : promised[s] = None

OwnInv == /\ \A d \in Devices : DeviceOK(d)
          /\ \A s \in Slots : PromiseOK(s)
          /\ \A r \in Runs : RowOK(r) /\ LoneOK(r) /\ Silent(r)
          /\ Crossing

IInv == BasicInv /\ (Separate => OwnInv)
-----------------------------------------------------------------------------
LEMMA LeastOfNaturals ==
    ASSUME NEW T \in SUBSET Nat, T # {}
    PROVE  \E m \in T : \A n \in T : m <= n
<1> DEFINE R == {p \in Nat \X Nat : p[1] < p[2]}
<1>1. R = OpToRel(<, Nat)
  BY Zenon DEF OpToRel
<1>2. IsWellFoundedOn(R, Nat)
  BY <1>1, NatLessThanWellFounded, Zenon
<1>3. PICK m \in T : \A n \in T : ~ (<<n, m>> \in R)
  BY <1>2, WFMin, Zenon
<1>4. \A n \in T : ~ (n < m)
  BY <1>3
<1> QED
  BY <1>4

LEMMA EntryFacts ==
    /\ EntryIds \subseteq Nat \ {0}
    /\ \A e \in EntryIds : /\ Entries[e].rows \in Seq(Slots) /\ Entries[e].prefix \in Prefixes
                           /\ Named(e) \subseteq Names /\ Entries[e].name \in Named(e)
                           /\ Rows(e) = Left(Entries[e].rows)
<1> DEFINE Entry == [name : Names, extra : SUBSET Names, prefix : Prefixes, rows : Seq(Slots)]
<1>1. Entries \in Seq(Entry)
  BY EntriesAssumption
<1>2. EntryIds = 1 .. Len(Entries) /\ Len(Entries) \in Nat
  BY <1>1 DEF EntryIds
<1> HIDE DEF Entry
<1>3. \A e \in EntryIds : Entries[e] \in Entry
  BY <1>1, <1>2
<1> USE DEF Entry
<1> QED
  BY <1>2, <1>3 DEF Named, Rows, Left

(* The lookup of a name answers an entry that has it.                      *)
LEMMA FoundHasName ==
    ASSUME NEW n, Found(n) # {}
    PROVE  FindDomainConfig(n) \in EntryIds /\ n \in Named(FindDomainConfig(n))
<1>1. Found(n) \in SUBSET Nat
  BY EntryFacts DEF Found
<1>2. PICK e \in Found(n) : \A f \in Found(n) : e <= f
  BY <1>1, LeastOfNaturals
<1>3. FindDomainConfig(n) \in Found(n)
  BY <1>2 DEF FindDomainConfig
<1> QED
  BY <1>3 DEF Found

LEMMA LeftAfterHead ==
    ASSUME NEW q \in Seq(Slots), q # <<>>
    PROVE  /\ Head(q) \in Slots /\ Tail(q) \in Seq(Slots)
           /\ Left(q) = {Head(q)} \cup Left(Tail(q))
<1>1. Head(q) = q[1] /\ Head(q) \in Slots /\ Tail(q) \in Seq(Slots) /\ Len(q) \in Nat \ {0}
      /\ Len(Tail(q)) = Len(q) - 1
  OBVIOUS
<1>2. DOMAIN q = 1 .. Len(q) /\ DOMAIN Tail(q) = 1 .. Len(Tail(q))
  BY <1>1
<1>3. \A i \in 1 .. Len(Tail(q)) : Tail(q)[i] = q[i + 1]
  BY <1>1
<1>4. \A i \in 1 .. Len(q) : q[i] \in {Head(q)} \cup Left(Tail(q))
  <2> TAKE i \in 1 .. Len(q)
  <2>1. CASE i = 1
    BY <1>1, <2>1
  <2>2. CASE i # 1
    <3>1. i - 1 \in DOMAIN Tail(q) /\ Tail(q)[i - 1] = q[i]
      BY <1>1, <1>2, <1>3, <2>2
    <3> QED
      BY <3>1 DEF Left
  <2> QED
    BY <2>1, <2>2
<1>5. \A i \in 1 .. Len(Tail(q)) : Tail(q)[i] \in Left(q)
  BY <1>1, <1>2, <1>3 DEF Left
<1>6. Head(q) \in Left(q)
  BY <1>1, <1>2 DEF Left
<1> QED
  BY <1>1, <1>2, <1>4, <1>5, <1>6 DEF Left

LEMMA ConfigurationFacts ==
    ASSUME NEW c \in Configurations, NEW d, NEW x \in Objects, NEW s \in Slots, NEW o \in Objects \cup {None}
    PROVE  /\ Put(d, c, x) \in Configurations
           /\ Put(d, c, x).certs = {y \in c.certs : ~Same(d, x, y)} \cup {x}
           /\ Put(d, c, x).ref = c.ref
           /\ Point(c, s, o) \in Configurations
           /\ Point(c, s, o).certs = c.certs
           /\ Point(c, s, o).ref = [c.ref EXCEPT ![s] = o]
  BY DEF Configurations, Put, Point

LEMMA CertsRemoved ==
    ASSUME NEW c \in Configurations, NEW S \in SUBSET c.certs
    PROVE  /\ [c EXCEPT !.certs = S] \in Configurations
           /\ [c EXCEPT !.certs = S].certs = S
           /\ [c EXCEPT !.certs = S].ref = c.ref
  BY DEF Configurations

LEMMA ChangedFacts ==
    ASSUME device \in [Devices -> Conf], NEW d \in Devices, NEW c \in Configurations
    PROVE  /\ Changed(d, c) \in [Devices -> Conf]
           /\ \A e \in Devices \ {d} : Changed(d, c)[e] = device[e]
           /\ Changed(d, c)[d].candidate = c
           /\ Changed(d, c)[d].running = IF d \in Firewalls THEN device[d].running ELSE c
  BY DEF Changed, Conf

LEMMA BasicIsTypeOK == BasicInv <=> TypeOK /\ RunsOK
  BY DEF BasicInv, WorldOK, RunsOK, TypeOK, Conf, RunOK, InARow

(* A step of one run.                                                      *)
LEMMA RunStep ==
    ASSUME RunsOK, NEW r \in Runs, NEW x \in RunState, RunOK(x), run' = [run EXCEPT ![r] = x]
    PROVE  RunsOK'
  BY DEF RunsOK

(* What holds in a row.                                                    *)
LEMMA RowFacts ==
    ASSUME BasicInv, NEW r \in Runs, run[r].rows # <<>>
    PROVE  /\ run[r].phase = "working" /\ run[r].entry \in EntryIds /\ run[r].lineage \in EntryIds
           /\ run[r].rows \in Seq(Slots) /\ Slot(r) \in Slots /\ Tail(run[r].rows) \in Seq(Slots)
           /\ Left(run[r].rows) = {Slot(r)} \cup Left(Tail(run[r].rows))
           /\ On(run[r]) = Device(r) /\ Device(r) \in Devices \cup {None}
           /\ Name(r) \in CertNames /\ NewObject(r) \in Objects
           /\ Device(r) \in Devices => Candidate(r) \in Configurations
<1>1. run[r] \in RunState /\ RunOK(run[r])
  BY DEF BasicInv, RunsOK
<1>2. run[r].phase = "working" /\ run[r].entry \in EntryIds /\ run[r].lineage \in EntryIds
  BY <1>1 DEF RunOK, HasRows, ForOne
<1>3. run[r].rows \in Seq(Slots) /\ run[r].stamp \in 0 .. MaxStamp
  BY <1>1 DEF RunState
<1>4. Slot(r) \in Slots /\ Tail(run[r].rows) \in Seq(Slots) /\ Left(run[r].rows) = {Slot(r)} \cup Left(Tail(run[r].rows))
  BY <1>3, LeftAfterHead DEF Slot
<1>5. On(run[r]) = Device(r) /\ Device(r) \in Devices \cup {None}
  BY <1>4, DevicesAssumption DEF On, Device, Slot
<1>6. Name(r) \in CertNames
  BY <1>2, <1>3, EntryFacts DEF Name, Prefix, CertNames
<1>7. live[run[r].lineage] \in 0 .. MaxRenewals
  BY <1>2 DEF BasicInv, WorldOK
<1>8. NewObject(r) \in Objects
  BY <1>2, <1>6, <1>7 DEF NewObject, Objects, Certs
<1>9. Device(r) \in Devices => Candidate(r) \in Configurations
  BY DEF BasicInv, WorldOK, Candidate, Conf
<1> QED
  BY <1>2, <1>3, <1>4, <1>5, <1>6, <1>8, <1>9

(* A step inside a row.                                                    *)
LEMMA InsideRow ==
    ASSUME BasicInv, NEW r \in Runs, run[r].rows # <<>>, Device(r) \in Devices,
           NEW st \in Steps \ {"next"}, NEW o \in Objects \cup {None}, NEW D \in SUBSET Objects,
           st # "import" => o \in Objects,
           st \in {"refer", "commit", "poll", "list", "delete"} => Device(r) \in Firewalls,
           st \in {"bind", "clean"} => Device(r) \notin Firewalls,
           run' = [run EXCEPT ![r].step = st, ![r].object = o, ![r].doomed = D]
    PROVE  RunsOK'
<1>1. run[r] \in RunState /\ RunOK(run[r]) /\ run \in [Runs -> RunState]
  BY DEF BasicInv, RunsOK
<1>2. PICK x : x = [run[r] EXCEPT !.step = st, !.object = o, !.doomed = D]
  OBVIOUS
<1>3. x \in RunState
  BY <1>1, <1>2 DEF RunState
<1>4. /\ x.phase = run[r].phase /\ x.lineage = run[r].lineage /\ x.seen = run[r].seen /\ x.entry = run[r].entry
      /\ x.rows = run[r].rows /\ x.deployed = run[r].deployed /\ x.failed = run[r].failed
      /\ x.step = st /\ x.object = o
  BY <1>1, <1>2 DEF RunState
<1>5. run' = [run EXCEPT ![r] = x]
  BY <1>1, <1>2
<1>6. On(x) = Device(r) /\ run[r].phase = "working"
  BY <1>4, RowFacts DEF On
<1>7. RunOK(x)
  BY <1>1, <1>4, <1>6 DEF RunOK, InARow, HasRows, ForOne, OfType, HasObject, Reported, AllWell
<1> QED
  BY <1>3, <1>5, <1>7, RunStep DEF BasicInv

(* The end of a row.                                                       *)
LEMMA AfterRow ==
    ASSUME BasicInv, NEW r \in Runs, run[r].rows # <<>>, NEW D \in SUBSET Slots, NEW F \in SUBSET Slots,
           D \cup F = run[r].deployed \cup run[r].failed \cup {Slot(r)},
           run' = [run EXCEPT ![r] = [RowDone(r) EXCEPT !.deployed = D, !.failed = F]]
    PROVE  RunsOK'
<1>1. run[r] \in RunState /\ RunOK(run[r]) /\ run \in [Runs -> RunState]
  BY DEF BasicInv, RunsOK
<1>2. PICK x : x = [RowDone(r) EXCEPT !.deployed = D, !.failed = F]
  OBVIOUS
<1>3. /\ x.phase = run[r].phase /\ x.lineage = run[r].lineage /\ x.seen = run[r].seen /\ x.entry = run[r].entry
      /\ x.rows = Tail(run[r].rows) /\ x.deployed = D /\ x.failed = F /\ x.step = "next"
  BY <1>1, <1>2 DEF RunState, RowDone
<1>4. x \in RunState
  <2>1. Tail(run[r].rows) \in Seq(Slots)
    BY RowFacts
  <2> QED
    BY <1>1, <1>2, <2>1 DEF RunState, RowDone, Steps
<1>5. run[r].phase = "working" /\ Left(run[r].rows) = {Slot(r)} \cup Left(Tail(run[r].rows))
  BY RowFacts
<1>6. Reported(x)
  BY <1>1, <1>3, <1>5 DEF RunOK, Reported
<1>7. RunOK(x)
  BY <1>1, <1>3, <1>5, <1>6 DEF RunOK, InARow, HasRows, ForOne, OfType, HasObject, AllWell
<1> QED
  BY <1>2, <1>4, <1>7, RunStep DEF BasicInv
-----------------------------------------------------------------------------
LEMMA IdleFacts == Idle \in RunState /\ RunOK(Idle)
  BY BoundsAssumption DEF Idle, RunState, Steps, RunOK, InARow, HasRows, ForOne, OfType, HasObject, Reported, AllWell

LEMMA BasicInit == Init => BasicInv
<1> SUFFICES ASSUME Init PROVE BasicInv
  OBVIOUS
<1>1. \A s \in Slots : First(s) \in Objects
  <2> TAKE s \in Slots
  <2>1. PICK e \in EntryIds : e = CHOOSE f \in Of(s) : TRUE
    BY EntriesAssumption DEF Of
  <2>2. First(s) = [name |-> [prefix |-> Entries[e].prefix, stamp |-> 0], cert |-> [lineage |-> e, version |-> 0]]
    BY <2>1 DEF First
  <2> QED
    BY <2>2, EntryFacts, BoundsAssumption DEF Objects, Certs, CertNames
<1>2. \A d : AtFirst(d) \in Configurations
  BY <1>1 DEF AtFirst, Configurations
<1>3. device \in [Devices -> Conf]
  BY <1>2 DEF Init, Conf
<1>4. promised \in [Slots -> Certs \cup {None}] /\ crossed = {} /\ loose = {}
  BY <1>1 DEF Init, Objects
<1>5. WorldOK
  BY <1>3, <1>4, BoundsAssumption DEF Init, WorldOK
<1>6. RunsOK
  BY IdleFacts DEF Init, RunsOK
<1> QED
  BY <1>5, <1>6 DEF BasicInv

LEMMA StartBasic ==
    ASSUME BasicInv, NEW r \in Runs, Start(r)
    PROVE  BasicInv'
<1>1. PICK e \in EntryIds, renewed \in BOOLEAN, t \in {clock, clock + 1} :
        /\ renewed => live[e] < MaxRenewals
        /\ 0 < t /\ t <= MaxStamp
        /\ live' = [live EXCEPT ![e] = IF renewed THEN @ + 1 ELSE @]
        /\ clock' = t
        /\ run' = [run EXCEPT ![r] = [Idle EXCEPT
                !.phase = "working", !.lineage = e, !.stamp = t,
                !.names = IF renewed THEN Named(e) ELSE {Entries[e].name}]]
  BY ZenonT(60) DEF Start
<1>2. t \in 0 .. MaxStamp
  BY <1>1, BoundsAssumption DEF BasicInv, WorldOK
<1>3. live' \in [EntryIds -> 0 .. MaxRenewals]
  <2>1. live[e] \in 0 .. MaxRenewals /\ live \in [EntryIds -> 0 .. MaxRenewals]
    BY DEF BasicInv, WorldOK
  <2>2. (IF renewed THEN live[e] + 1 ELSE live[e]) \in 0 .. MaxRenewals
    BY <1>1, <2>1, BoundsAssumption
  <2> QED
    BY <1>1, <2>1, <2>2
<1>4. WorldOK'
  <2>1. promised' \in [Slots -> Certs \cup {None}] /\ crossed' \subseteq Runs /\ UNCHANGED <<device, job, loose>>
    BY DEF Start, BasicInv, WorldOK
  <2> QED
    BY <1>1, <1>2, <1>3, <2>1 DEF BasicInv, WorldOK
<1>5. PICK N : N = IF renewed THEN Named(e) ELSE {Entries[e].name}
  OBVIOUS
<1>6. N \in SUBSET Names
  BY <1>5, EntryFacts
<1>7. PICK x : x = [Idle EXCEPT !.phase = "working", !.lineage = e, !.stamp = t, !.names = N]
  OBVIOUS
<1>8. x \in RunState
  BY <1>2, <1>6, <1>7, IdleFacts DEF RunState
<1>9. RunOK(x)
  BY <1>7 DEF Idle, RunOK, InARow, HasRows, ForOne, OfType, HasObject, Reported, AllWell
<1>10. run' = [run EXCEPT ![r] = x]
  BY <1>1, <1>5, <1>7
<1> QED
  BY <1>4, <1>8, <1>9, <1>10, RunStep DEF BasicInv

LEMMA NextNameBasic ==
    ASSUME BasicInv, NEW r \in Runs, NextName(r)
    PROVE  BasicInv'
<1>1. WorldOK'
  BY DEF NextName, BasicInv, WorldOK
<1>2. run[r] \in RunState /\ RunOK(run[r]) /\ run \in [Runs -> RunState]
  BY DEF BasicInv, RunsOK
<1>3. PICK n \in run[r].names :
        LET e == FindDomainConfig(n) IN
        IF Found(n) = {} \/ e \in run[r].seen
        THEN run' = [run EXCEPT ![r].names = @ \ {n}]
        ELSE run' = [run EXCEPT ![r].names = @ \ {n}, ![r].seen = @ \cup {e}, ![r].entry = e,
                                ![r].rows = Entries[e].rows]
  BY DEF NextName
<1>4. run[r].phase = "working" /\ run[r].step = "next" /\ run[r].rows = <<>>
  BY DEF NextName, At
<1>5. CASE Found(n) = {} \/ FindDomainConfig(n) \in run[r].seen
  <2>1. PICK x : x = [run[r] EXCEPT !.names = run[r].names \ {n}]
    OBVIOUS
  <2>2. x \in RunState
    BY <1>2, <2>1 DEF RunState
  <2>3. RunOK(x)
    BY <1>2, <1>4, <2>1
       DEF RunState, On, RunOK, InARow, HasRows, ForOne, OfType, HasObject, Reported, AllWell
  <2>4. run' = [run EXCEPT ![r] = x]
    BY <1>2, <1>3, <1>5, <2>1
  <2> QED
    BY <1>1, <2>2, <2>3, <2>4, RunStep DEF BasicInv
<1>6. CASE Found(n) # {} /\ FindDomainConfig(n) \notin run[r].seen
  <2>1. PICK e \in EntryIds : e = FindDomainConfig(n)
    BY <1>6, FoundHasName
  <2>2. Entries[e].rows \in Seq(Slots) /\ Rows(e) = Left(Entries[e].rows)
    BY EntryFacts
  <2>3. PICK x : x = [run[r] EXCEPT !.names = run[r].names \ {n}, !.seen = run[r].seen \cup {e}, !.entry = e,
                                    !.rows = Entries[e].rows]
    OBVIOUS
  <2>4. /\ x.phase = "working" /\ x.lineage = run[r].lineage /\ x.seen = run[r].seen \cup {e} /\ x.entry = e
        /\ x.rows = Entries[e].rows /\ x.deployed = run[r].deployed /\ x.failed = run[r].failed /\ x.step = "next"
    BY <1>2, <1>4, <2>3 DEF RunState
  <2>5. x \in RunState
    BY <1>2, <2>2, <2>3 DEF RunState
  <2>6. Left(run[r].rows) = {}
    BY <1>4 DEF Left
  <2>7. Reported(x)
    BY <1>2, <2>2, <2>4, <2>6 DEF RunOK, Reported
  <2>8. RunOK(x)
    BY <1>2, <1>4, <2>4, <2>7 DEF RunOK, InARow, HasRows, ForOne, OfType, HasObject, AllWell
  <2>9. run' = [run EXCEPT ![r] = x]
    BY <1>2, <1>3, <1>6, <2>1, <2>3
  <2> QED
    BY <1>1, <2>5, <2>8, <2>9, RunStep DEF BasicInv
<1> QED
  BY <1>5, <1>6

LEMMA ExitBasic ==
    ASSUME BasicInv, NEW r \in Runs, Exit(r)
    PROVE  BasicInv'
<1>1. WorldOK'
  BY DEF Exit, BasicInv, WorldOK
<1>2. run[r] \in RunState /\ RunOK(run[r]) /\ run \in [Runs -> RunState]
  BY DEF BasicInv, RunsOK
<1>3. run[r].phase = "working" /\ run[r].step = "next" /\ run[r].rows = <<>>
  BY DEF Exit, At
<1>4. PICK p \in {"exit0", "exit1"} : p = IF run[r].seen = {} \/ run[r].failed # {} THEN "exit1" ELSE "exit0"
  OBVIOUS
<1>5. PICK x : x = [run[r] EXCEPT !.phase = p]
  OBVIOUS
<1>6. x \in RunState
  BY <1>2, <1>5 DEF RunState
<1>7. /\ x.phase = p /\ x.seen = run[r].seen /\ x.rows = run[r].rows /\ x.deployed = run[r].deployed
      /\ x.failed = run[r].failed /\ x.step = "next"
  BY <1>2, <1>3, <1>5 DEF RunState
<1>8. RunOK(x)
  BY <1>2, <1>3, <1>4, <1>7 DEF RunOK, InARow, HasRows, ForOne, OfType, HasObject, Reported, AllWell
<1>9. run' = [run EXCEPT ![r] = x]
  BY <1>2, <1>4, <1>5 DEF Exit
<1> QED
  BY <1>1, <1>6, <1>8, <1>9, RunStep DEF BasicInv

LEMMA KilledBasic ==
    ASSUME BasicInv, NEW r \in Runs, Killed(r)
    PROVE  BasicInv'
<1>1. WorldOK'
  BY DEF Killed, BasicInv, WorldOK
<1>2. PICK x : x = [Idle EXCEPT !.phase = "killed"]
  OBVIOUS
<1>3. x \in RunState
  BY <1>2, IdleFacts DEF RunState
<1>4. RunOK(x)
  BY <1>2 DEF Idle, RunOK, InARow, HasRows, ForOne, OfType, HasObject, Reported, AllWell
<1>5. run' = [run EXCEPT ![r] = x]
  BY <1>2 DEF Killed
<1> QED
  BY <1>1, <1>3, <1>4, <1>5, RunStep DEF BasicInv

LEMMA CommitJobBasic ==
    ASSUME BasicInv, NEW r \in Runs, NEW s \in Slots, CommitJob(r, s)
    PROVE  BasicInv'
<1>1. UNCHANGED <<live, run, clock, promised, crossed, loose>>
  BY DEF CommitJob
<1>2. PICK v \in {"none", "ok", "failed"} : job' = [job EXCEPT ![<<r, s>>] = v]
  BY DEF CommitJob
<1>3. job' \in [Runs \X Slots -> {"none", "queued", "ok", "failed"}]
  BY <1>2 DEF BasicInv, WorldOK
<1>4. device' \in [Devices -> Conf]
  <2>1. device \in [Devices -> Conf]
    BY DEF BasicInv, WorldOK
  <2>2. device' = device \/ device' = [device EXCEPT ![DeviceOf[s]].running = device[DeviceOf[s]].candidate]
    BY DEF CommitJob
  <2> QED
    BY <2>1, <2>2 DEF Conf
<1> QED
  BY <1>1, <1>3, <1>4 DEF BasicInv, WorldOK, RunsOK

(* The rest of a row: what a step does to the devices keeps their types,   *)
(* and the run goes on to the next call or is done with the row.           *)
LEMMA RowFailedBasic ==
    ASSUME BasicInv, NEW r \in Runs, run[r].rows # <<>>, RowFailed(r)
    PROVE  RunsOK'
<1>1. run[r] \in RunState /\ run \in [Runs -> RunState] /\ Slot(r) \in Slots
  BY RowFacts DEF BasicInv, RunsOK
<1>2. PICK D \in SUBSET Slots : D = run[r].deployed
  BY <1>1 DEF RunState
<1>3. PICK F \in SUBSET Slots : F = run[r].failed \cup {Slot(r)}
  BY <1>1 DEF RunState
<1>4. [RowDone(r) EXCEPT !.failed = @ \cup {Slot(r)}] = [RowDone(r) EXCEPT !.deployed = D, !.failed = F]
  BY <1>1, <1>2, <1>3 DEF RowDone, RunState
<1>5. run' = [run EXCEPT ![r] = [RowDone(r) EXCEPT !.deployed = D, !.failed = F]]
  BY <1>4 DEF RowFailed
<1> QED
  BY <1>2, <1>3, <1>5, AfterRow

LEMMA RowDeployedBasic ==
    ASSUME BasicInv, NEW r \in Runs, run[r].rows # <<>>, RowDeployed(r), run[r].object \in Objects
    PROVE  RunsOK' /\ promised' \in [Slots -> Certs \cup {None}] /\ UNCHANGED <<crossed, loose>>
<1>1. run[r] \in RunState /\ run \in [Runs -> RunState] /\ Slot(r) \in Slots
  BY RowFacts DEF BasicInv, RunsOK
<1>2. PICK D \in SUBSET Slots : D = run[r].deployed \cup {Slot(r)}
  BY <1>1 DEF RunState
<1>3. PICK F \in SUBSET Slots : F = run[r].failed
  BY <1>1 DEF RunState
<1>4. [RowDone(r) EXCEPT !.deployed = @ \cup {Slot(r)}] = [RowDone(r) EXCEPT !.deployed = D, !.failed = F]
  BY <1>1, <1>2, <1>3 DEF RowDone, RunState
<1>5. run' = [run EXCEPT ![r] = [RowDone(r) EXCEPT !.deployed = D, !.failed = F]]
  BY <1>4 DEF RowDeployed
<1>6. RunsOK'
  BY <1>2, <1>3, <1>5, AfterRow
<1>7. run[r].object.cert \in Certs
  BY DEF Objects
<1>8. PICK v \in Certs \cup {None} : promised' = [promised EXCEPT ![Slot(r)] = v]
  BY <1>7 DEF RowDeployed
<1> QED
  BY <1>6, <1>8 DEF RowDeployed, BasicInv, WorldOK

(* Which device and object a step has.                                     *)
LEMMA AtStep ==
    ASSUME BasicInv, NEW r \in Runs, run[r].step # "next"
    PROVE  /\ run[r].rows # <<>> /\ Device(r) \in Devices /\ run[r].phase = "working"
           /\ run[r].step # "import" => run[r].object \in Objects
           /\ run[r].step \in {"refer", "commit", "poll", "list", "delete"} => Device(r) \in Firewalls
           /\ run[r].step \in {"bind", "clean"} => Device(r) \notin Firewalls
           /\ run[r].object \in Objects \cup {None} /\ run[r].doomed \in SUBSET Objects
<1>1. run[r] \in RunState /\ RunOK(run[r])
  BY DEF BasicInv, RunsOK
<1>2. On(run[r]) = Device(r)
  BY DEF On, Device, Slot
<1> QED
  BY <1>1, <1>2 DEF RunOK, InARow, OfType, HasObject, RunState

(* A step of a row that changes a device as it should.                     *)
LEMMA DeviceBasic ==
    ASSUME BasicInv, NEW r \in Runs, NEW c \in Configurations, Device(r) \in Devices,
           device' = Changed(Device(r), c)
    PROVE  device' \in [Devices -> Conf]
  BY ChangedFacts DEF BasicInv, WorldOK

(* A step of a row that only goes on to the next call.                     *)
LEMMA StepBasic ==
    ASSUME BasicInv, NEW r \in Runs, run[r].rows # <<>>, Device(r) \in Devices,
           NEW st \in Steps \ {"next"}, Step(r, st),
           st # "import" => run[r].object \in Objects,
           st \in {"refer", "commit", "poll", "list", "delete"} => Device(r) \in Firewalls,
           st \in {"bind", "clean"} => Device(r) \notin Firewalls
    PROVE  RunsOK'
<1>1. run[r] \in RunState /\ run \in [Runs -> RunState]
  BY DEF BasicInv, RunsOK
<1>2. PICK o \in Objects \cup {None} : o = run[r].object
  BY <1>1 DEF RunState
<1>3. PICK D \in SUBSET Objects : D = run[r].doomed
  BY <1>1 DEF RunState
<1>4. run' = [run EXCEPT ![r].step = st, ![r].object = o, ![r].doomed = D]
  BY <1>1, <1>2, <1>3 DEF Step, RunState
<1> QED
  BY <1>2, <1>3, <1>4, InsideRow
-----------------------------------------------------------------------------
LEMMA NextTargetBasic ==
    ASSUME BasicInv, NEW r \in Runs, NextTarget(r)
    PROVE  BasicInv'
<1>1. run[r].rows # <<>> /\ Device(r) \in Devices
  BY RowFacts DEF NextTarget
<1>2. RunsOK'
  BY <1>1, StepBasic DEF NextTarget, Steps
<1>3. WorldOK'
  BY DEF NextTarget, BasicInv, WorldOK
<1> QED
  BY <1>2, <1>3 DEF BasicInv

LEMMA UnknownTargetBasic ==
    ASSUME BasicInv, NEW r \in Runs, UnknownTarget(r)
    PROVE  BasicInv'
<1>1. RunsOK'
  BY RowFailedBasic DEF UnknownTarget
<1>2. WorldOK'
  BY DEF UnknownTarget, BasicInv, WorldOK
<1> QED
  BY <1>1, <1>2 DEF BasicInv

LEMMA ImportBasic ==
    ASSUME BasicInv, NEW r \in Runs, Import(r)
    PROVE  BasicInv'
<1>1. run[r].rows # <<>> /\ Device(r) \in Devices /\ run[r].doomed \in SUBSET Objects
  BY AtStep DEF Import, At
<1>2. NewObject(r) \in Objects /\ Candidate(r) \in Configurations
  BY <1>1, RowFacts
<1>3. PICK st \in Steps \ {"next", "import"} : st = IF Device(r) \in Firewalls THEN "refer" ELSE "bind"
  BY DEF Steps
<1>4. PICK D \in SUBSET Objects : D = run[r].doomed
  BY <1>1
<1>5. PICK o \in Objects : o = NewObject(r)
  BY <1>2
<1>6. run' = [run EXCEPT ![r].step = st, ![r].object = o, ![r].doomed = D]
  BY <1>3, <1>4, <1>5 DEF Import, BasicInv, RunsOK, RunState
<1>7. RunsOK'
  <2>1. /\ st \in Steps \ {"next"} /\ o \in Objects \cup {None}
        /\ st \in {"refer", "commit", "poll", "list", "delete"} => Device(r) \in Firewalls
        /\ st \in {"bind", "clean"} => Device(r) \notin Firewalls
    BY <1>3
  <2> QED
    BY <1>1, <1>5, <1>6, <2>1, InsideRow
<1>8. device' \in [Devices -> Conf]
  <2>1. PICK c \in Configurations : c = Put(Device(r), Candidate(r), NewObject(r))
    BY <1>2 DEF Put, Configurations
  <2> QED
    BY <1>1, <2>1, DeviceBasic DEF Import
<1>9. WorldOK'
  BY <1>8 DEF Import, BasicInv, WorldOK
<1> QED
  BY <1>7, <1>9 DEF BasicInv

LEMMA ReferBasic ==
    ASSUME BasicInv, NEW r \in Runs, Refer(r)
    PROVE  BasicInv'
<1>1. /\ run[r].rows # <<>> /\ Device(r) \in Devices /\ Device(r) \in Firewalls
      /\ run[r].object \in Objects
  BY AtStep DEF Refer, At
<1>2. Candidate(r) \in Configurations /\ Slot(r) \in Slots
  BY <1>1, RowFacts
<1>3. RunsOK'
  BY <1>1, StepBasic DEF Refer, Steps
<1>4. device' \in [Devices -> Conf]
  <2>1. PICK c \in Configurations : c = Point(Candidate(r), Slot(r), run[r].object)
    BY <1>1, <1>2 DEF Point, Configurations
  <2> QED
    BY <1>1, <2>1, DeviceBasic DEF Refer, PointSlot
<1>5. WorldOK'
  BY <1>2, <1>4 DEF Refer, PointSlot, BasicInv, WorldOK
<1> QED
  BY <1>3, <1>5 DEF BasicInv

LEMMA CommitBasic ==
    ASSUME BasicInv, NEW r \in Runs, Commit(r)
    PROVE  BasicInv'
<1>1. run[r].rows # <<>> /\ Device(r) \in Devices /\ Device(r) \in Firewalls /\ run[r].object \in Objects
  BY AtStep DEF Commit, At
<1>2. Slot(r) \in Slots
  BY <1>1, RowFacts
<1>3. PICK st \in {"list", "poll"} : Step(r, st)
  BY DEF Commit
<1>4. RunsOK'
  BY <1>1, <1>3, StepBasic DEF Steps
<1>5. job' = job \/ job' = [job EXCEPT ![<<r, Slot(r)>>] = "queued"]
  BY DEF Commit
<1>6. WorldOK'
  BY <1>2, <1>5 DEF Commit, BasicInv, WorldOK
<1> QED
  BY <1>4, <1>6 DEF BasicInv

LEMMA FinishedBasic ==
    ASSUME BasicInv, NEW r \in Runs, Finished(r)
    PROVE  BasicInv'
<1>1. run[r].rows # <<>> /\ Device(r) \in Devices /\ Device(r) \in Firewalls /\ run[r].object \in Objects
  BY AtStep DEF Finished, At
<1>2. RunsOK'
  BY <1>1, StepBasic DEF Finished, Steps
<1>3. WorldOK'
  BY DEF Finished, BasicInv, WorldOK
<1> QED
  BY <1>2, <1>3 DEF BasicInv

LEMMA CallFailsBasic ==
    ASSUME BasicInv, NEW r \in Runs, CallFails(r)
    PROVE  BasicInv'
<1>1. run[r].rows # <<>> /\ Device(r) \in Devices /\ (run[r].step # "import" => run[r].object \in Objects)
  BY AtStep DEF CallFails
<1>2. Candidate(r) \in Configurations /\ Slot(r) \in Slots /\ NewObject(r) \in Objects
  BY <1>1, RowFacts
<1>3. RunsOK'
  BY <1>1, RowFailedBasic DEF CallFails
<1>4. job' \in [Runs \X Slots -> {"none", "queued", "ok", "failed"}]
  <2>1. \/ job' = job
        \/ job' = [job EXCEPT ![<<r, Slot(r)>>] = "none"]
        \/ job' = [job EXCEPT ![<<r, Slot(r)>>] = "queued"]
    BY DEF CallFails
  <2> QED
    BY <1>2, <2>1 DEF BasicInv, WorldOK
<1>5. device' \in [Devices -> Conf]
  <2>1. \/ UNCHANGED device
        \/ device' = Changed(Device(r), Put(Device(r), Candidate(r), NewObject(r)))
        \/ At(r, "refer") /\ device' = Changed(Device(r), Point(Candidate(r), Slot(r), run[r].object))
    BY DEF CallFails, PointSlot
  <2>2. CASE device' = Changed(Device(r), Put(Device(r), Candidate(r), NewObject(r)))
    <3>1. PICK c \in Configurations : c = Put(Device(r), Candidate(r), NewObject(r))
      BY <1>2 DEF Put, Configurations
    <3> QED
      BY <1>1, <2>2, <3>1, DeviceBasic
  <2>3. CASE At(r, "refer") /\ device' = Changed(Device(r), Point(Candidate(r), Slot(r), run[r].object))
    <3>1. PICK c \in Configurations : c = Point(Candidate(r), Slot(r), run[r].object)
      BY <1>1, <1>2, <2>3 DEF Point, Configurations, At
    <3> QED
      BY <1>1, <2>3, <3>1, DeviceBasic
  <2> QED
    BY <2>1, <2>2, <2>3 DEF BasicInv, WorldOK
<1>6. loose' \subseteq Slots
  BY <1>2 DEF CallFails, PointSlot, BasicInv, WorldOK
<1>7. WorldOK'
  BY <1>4, <1>5, <1>6 DEF CallFails, BasicInv, WorldOK
<1> QED
  BY <1>3, <1>7 DEF BasicInv

LEMMA ListBasic ==
    ASSUME BasicInv, NEW r \in Runs, List(r)
    PROVE  BasicInv'
<1>1. run[r].rows # <<>> /\ Device(r) \in Devices /\ Device(r) \in Firewalls /\ run[r].object \in Objects
  BY AtStep DEF List, At
<1>2. Candidate(r).certs \in SUBSET Objects
  BY <1>1, RowFacts DEF Configurations
<1>3. PICK D \in SUBSET Objects : D = Stale(r)
  BY <1>2 DEF Stale
<1>4. PICK o \in Objects : o = run[r].object
  BY <1>1
<1>5. run' = [run EXCEPT ![r].step = "delete", ![r].object = o, ![r].doomed = D]
  BY <1>3, <1>4 DEF List, BasicInv, RunsOK, RunState
<1>6. RunsOK'
  <2>1. PICK st \in Steps \ {"next"} : st = "delete"
    BY DEF Steps
  <2> QED
    BY <1>1, <1>4, <1>5, <2>1, InsideRow
<1>7. WorldOK'
  BY DEF List, BasicInv, WorldOK
<1> QED
  BY <1>6, <1>7 DEF BasicInv

LEMMA NothingToCleanBasic ==
    ASSUME BasicInv, NEW r \in Runs, NothingToClean(r)
    PROVE  BasicInv'
<1>1. run[r].rows # <<>> /\ run[r].object \in Objects
  BY AtStep DEF NothingToClean, At
<1>2. RunsOK' /\ promised' \in [Slots -> Certs \cup {None}] /\ UNCHANGED <<crossed, loose>>
  BY <1>1, RowDeployedBasic DEF NothingToClean
<1>3. WorldOK'
  BY <1>2 DEF NothingToClean, BasicInv, WorldOK
<1> QED
  BY <1>2, <1>3 DEF BasicInv

LEMMA DeleteBasic ==
    ASSUME BasicInv, NEW r \in Runs, Delete(r)
    PROVE  BasicInv'
<1>1. /\ run[r].rows # <<>> /\ Device(r) \in Devices /\ Device(r) \in Firewalls /\ run[r].object \in Objects
      /\ run[r].doomed \in SUBSET Objects /\ run[r].step = "delete"
  BY AtStep DEF Delete, At
<1>2. Candidate(r) \in Configurations
  BY <1>1, RowFacts
<1>3. PICK x \in run[r].doomed :
        /\ run' = [run EXCEPT ![r].doomed = @ \ {x}]
        /\ \/ device' = Changed(Device(r), [Candidate(r) EXCEPT !.certs = {y \in @ : y.name # x.name}])
           \/ UNCHANGED device
  BY DEF Delete
<1>4. PICK D \in SUBSET Objects : D = run[r].doomed \ {x}
  BY <1>1
<1>5. PICK o \in Objects : o = run[r].object
  BY <1>1
<1>6. run' = [run EXCEPT ![r].step = "delete", ![r].object = o, ![r].doomed = D]
  BY <1>1, <1>3, <1>4, <1>5 DEF BasicInv, RunsOK, RunState
<1>7. RunsOK'
  BY <1>1, <1>6, InsideRow DEF Steps
<1>8. device' \in [Devices -> Conf]
  <2>1. PICK c \in Configurations : c = [Candidate(r) EXCEPT !.certs = {y \in @ : y.name # x.name}]
    BY <1>2 DEF Configurations
  <2> QED
    BY <1>1, <1>3, <2>1, DeviceBasic DEF BasicInv, WorldOK
<1>9. WorldOK'
  BY <1>8 DEF Delete, BasicInv, WorldOK
<1> QED
  BY <1>7, <1>9 DEF BasicInv

LEMMA BindBasic ==
    ASSUME BasicInv, NEW r \in Runs, Bind(r)
    PROVE  BasicInv'
<1>1. /\ run[r].rows # <<>> /\ Device(r) \in Devices /\ Device(r) \notin Firewalls
      /\ run[r].object \in Objects
  BY AtStep DEF Bind, At
<1>2. Candidate(r) \in Configurations /\ Slot(r) \in Slots
  BY <1>1, RowFacts
<1>3. RunsOK'
  BY <1>1, StepBasic DEF Bind, Steps
<1>4. device' \in [Devices -> Conf]
  <2>1. PICK c \in Configurations : c = Point(Candidate(r), Slot(r), run[r].object)
    BY <1>1, <1>2 DEF Point, Configurations
  <2> QED
    BY <1>1, <2>1, DeviceBasic DEF Bind
<1>5. WorldOK'
  BY <1>4 DEF Bind, BasicInv, WorldOK
<1> QED
  BY <1>3, <1>5 DEF BasicInv

LEMMA BindFailsBasic ==
    ASSUME BasicInv, NEW r \in Runs, BindFails(r)
    PROVE  BasicInv'
<1>1. /\ run[r].rows # <<>> /\ Device(r) \in Devices /\ Device(r) \notin Firewalls
      /\ run[r].object \in Objects
  BY AtStep DEF BindFails, At
<1>2. Candidate(r) \in Configurations /\ Slot(r) \in Slots
  BY <1>1, RowFacts
<1>3. RunsOK'
  BY <1>1, RowFailedBasic DEF BindFails
<1>4. device' \in [Devices -> Conf]
  <2>1. PICK x \in {Candidate(r).ref[Slot(r)], None, run[r].object} :
            device' = Changed(Device(r), Point(Candidate(r), Slot(r), x))
    BY DEF BindFails
  <2>2. PICK c \in Configurations : c = Point(Candidate(r), Slot(r), x)
    BY <1>1, <1>2, <2>1 DEF Point, Configurations
  <2> QED
    BY <1>1, <2>1, <2>2, DeviceBasic
<1>5. WorldOK'
  BY <1>4 DEF BindFails, BasicInv, WorldOK
<1> QED
  BY <1>3, <1>5 DEF BasicInv

LEMMA CleanBasic ==
    ASSUME BasicInv, NEW r \in Runs, Clean(r)
    PROVE  BasicInv'
<1>1. run[r].rows # <<>> /\ Device(r) \in Devices /\ run[r].object \in Objects
  BY AtStep DEF Clean, At
<1>2. Candidate(r) \in Configurations
  BY <1>1, RowFacts
<1>3. RunsOK' /\ promised' \in [Slots -> Certs \cup {None}] /\ UNCHANGED <<crossed, loose>>
  BY <1>1, RowDeployedBasic DEF Clean
<1>4. device' \in [Devices -> Conf]
  <2>1. PICK gone \in SUBSET Stale(r) : device' = Changed(Device(r), [Candidate(r) EXCEPT !.certs = @ \ gone])
    BY DEF Clean
  <2>2. PICK c \in Configurations : c = [Candidate(r) EXCEPT !.certs = @ \ gone]
    BY <1>2 DEF Configurations
  <2> QED
    BY <1>1, <2>1, <2>2, DeviceBasic
<1>5. WorldOK'
  BY <1>3, <1>4 DEF Clean, BasicInv, WorldOK
<1> QED
  BY <1>3, <1>5 DEF BasicInv

LEMMA CleanupFailsBasic ==
    ASSUME BasicInv, NEW r \in Runs, CleanupFails(r)
    PROVE  BasicInv'
<1>1. run[r].rows # <<>>
  BY AtStep DEF CleanupFails
<1>2. RunsOK'
  BY <1>1, RowFailedBasic DEF CleanupFails
<1>3. WorldOK'
  BY DEF CleanupFails, BasicInv, WorldOK
<1> QED
  BY <1>2, <1>3 DEF BasicInv

LEMMA BasicStep == BasicInv /\ [Next]_vars => BasicInv'
<1> SUFFICES ASSUME BasicInv, [Next]_vars PROVE BasicInv'
  OBVIOUS
<1>1. CASE UNCHANGED vars
  BY <1>1 DEF vars, BasicInv, WorldOK, RunsOK
<1>2. ASSUME NEW r \in Runs, Progress(r)
      PROVE  BasicInv'
  BY <1>2, NextNameBasic, ExitBasic, NextTargetBasic, UnknownTargetBasic, ImportBasic, ReferBasic, CommitBasic,
     FinishedBasic, CallFailsBasic, ListBasic, NothingToCleanBasic, DeleteBasic, BindBasic, BindFailsBasic,
     CleanBasic, CleanupFailsBasic
     DEF Progress
<1> QED
  BY <1>1, <1>2, StartBasic, KilledBasic, CommitJobBasic DEF Next

LEMMA BasicInvariant == Spec => []BasicInv
  BY BasicInit, BasicStep, PTL DEF Spec

(* Whatever the configuration says: the devices, the jobs and what the     *)
(* runs of deploy_certificate.py know keep their types, and a run makes    *)
(* calls only in a row (deploy_certificate.py:83-191).                     *)
THEOREM DeployTypeCorrect == Spec => []TypeOK
<1>1. BasicInv => TypeOK
  BY BasicIsTypeOK
<1> QED
  BY <1>1, BasicInvariant, PTL

(* Exit code 0 says that every target of every matched entry has the       *)
(* certificate (deploy_certificate.py:16-18): a target is always still to  *)
(* come, deployed or failed.                                               *)
THEOREM ExitZeroIsTrue == Spec => []ExitZeroCoversAll
<1>1. BasicInv => ExitZeroCoversAll
  BY DEF BasicInv, RunsOK, RunOK, Reported, AllWell, Left, ExitZeroCoversAll
<1> QED
  BY <1>1, BasicInvariant, PTL
-----------------------------------------------------------------------------
(* Of entries that keep out of each other's way.                           *)
LEMMA SeparateFacts ==
    ASSUME Separate, NEW e \in EntryIds, NEW f \in EntryIds
    PROVE  /\ \A d \in Firewalls \cup Cleanup :
                d \in Targets(e) /\ d \in Targets(f) /\ Covers(Entries[e].prefix, Entries[f].prefix) => e = f
           /\ \A n : n \in Named(e) /\ n \in Named(f) => e = f
           /\ \A s : s \in Rows(e) /\ s \in Rows(f) => e = f
  BY DEF Separate, ByName

LEMMA RowsAreSlots == \A e \in EntryIds : Rows(e) \subseteq Slots
<1> SUFFICES ASSUME NEW e \in EntryIds PROVE Rows(e) \subseteq Slots
  OBVIOUS
<1>1. PICK q \in Seq(Slots) : q = Entries[e].rows /\ Rows(e) = Left(q)
  BY EntryFacts
<1>2. DOMAIN q = 1 .. Len(q) /\ \A i \in 1 .. Len(q) : q[i] \in Slots
  BY <1>1
<1> QED
  BY <1>1, <1>2 DEF Left

(* Objects that a device takes for the same are of the same entry.         *)
LEMMA SameEntry ==
    ASSUME Separate, NEW d, NEW x \in Objects, NEW y \in Objects, OfEntry(d, x), OfEntry(d, y), Same(d, x, y)
    PROVE  x.cert.lineage = y.cert.lineage
<1>1. x.cert.lineage \in EntryIds /\ y.cert.lineage \in EntryIds
  BY DEF Objects, Certs
<1>2. CASE x.cert = y.cert
  BY <1>2
<1>3. CASE x.name = y.name /\ d \in Firewalls
  <2>1. Covers(Entries[x.cert.lineage].prefix, Entries[y.cert.lineage].prefix)
    BY <1>3 DEF OfEntry, Covers
  <2> QED
    BY <1>1, <1>3, <2>1, SeparateFacts DEF OfEntry
<1> QED
  BY <1>2, <1>3 DEF Same

(* From c to k only what belongs to entry e, and where slot s points to,   *)
(* has changed.                                                            *)
OnlyOf(c, k, e, s) == /\ \A y \in Objects : y.cert.lineage # e => (y \in c.certs <=> y \in k.certs)
                      /\ \A t \in Slots \ {s} : k.ref[t] = c.ref[t]

LEMMA HeldKept ==
    ASSUME Separate, NEW d, NEW c \in Configurations, NEW k \in Configurations, Tidy(d, c), Tidy(d, k),
           NEW e, NEW s, OnlyOf(c, k, e, s), NEW x \in Objects, OfEntry(d, x), x.cert.lineage # e
    PROVE  /\ Held(d, c, x) => Held(d, k, x)
           /\ \A y \in k.certs : Same(d, x, y) => y \in c.certs
<1>1. c.certs \subseteq Objects /\ k.certs \subseteq Objects
  BY DEF Configurations
<1>2. \A y \in c.certs \cup k.certs : OfEntry(d, y)
  BY DEF Tidy
<1>3. \A y \in c.certs \cup k.certs : Same(d, x, y) => y.cert.lineage # e
  BY <1>1, <1>2, SameEntry
<1>4. \A y \in c.certs \cup k.certs : Same(d, x, y) => (y \in c.certs <=> y \in k.certs)
  BY <1>1, <1>3 DEF OnlyOf
<1> QED
  BY <1>4 DEF Held

(* What a slot of another entry serves stays.                              *)
LEMMA ServesKept ==
    ASSUME Separate, NEW d \in Devices, NEW c \in Configurations, NEW k \in Configurations, Tidy(d, c), Tidy(d, k),
           NEW e \in EntryIds, NEW s \in Rows(e), OnlyOf(c, k, e, s),
           NEW t \in Slots \ Rows(e)
    PROVE  /\ \A v : Serves(d, c, t, v) => Serves(d, k, t, v)
           /\ k.ref[t] = c.ref[t]
<1>1. k.ref[t] = c.ref[t]
  BY DEF OnlyOf
<1>2. CASE c.ref[t] # None
  <2>1. c.ref[t] \in Objects
    BY <1>2 DEF Configurations
  <2>2. OfEntry(d, c.ref[t]) /\ c.ref[t].cert.lineage # e
    BY <1>2 DEF Tidy
  <2>3. /\ Held(d, c, c.ref[t]) => Held(d, k, c.ref[t])
        /\ \A y \in k.certs : Same(d, c.ref[t], y) => y \in c.certs
    BY <2>1, <2>2, HeldKept
  <2> QED
    BY <1>1, <2>3 DEF Serves
<1>3. CASE c.ref[t] = None
  BY <1>1, <1>3 DEF Serves
<1> QED
  BY <1>2, <1>3, <1>1

LEMMA OnlyKept ==
    ASSUME Separate, NEW d, NEW c \in Configurations, NEW k \in Configurations, Tidy(d, c), Tidy(d, k),
           NEW e, NEW s, OnlyOf(c, k, e, s), NEW x \in Objects, OfEntry(d, x), x.cert.lineage # e,
           Only(d, c, x)
    PROVE  Only(d, k, x)
<1>1. \A y \in k.certs : Same(d, x, y) => y \in c.certs
  BY HeldKept
<1>2. x \in k.certs
  BY DEF Only, OnlyOf
<1> QED
  BY <1>1, <1>2 DEF Only

(* What a slot that points to the only such object serves.                 *)
LEMMA OnlyServes ==
    ASSUME NEW d, NEW c \in Configurations, NEW x \in Objects, NEW s \in Slots, Only(d, c, x), c.ref[s] = x
    PROVE  /\ Serves(d, c, s, x.cert)
           /\ \A v : Serves(d, c, s, v) => v = x.cert
  BY DevicesAssumption DEF Only, Serves, Held, Same
-----------------------------------------------------------------------------
(* What OwnInv says of a run in a row.                                     *)
LEMMA OwnFacts ==
    ASSUME BasicInv, OwnInv, NEW r \in Runs, run[r].rows # <<>>
    PROVE  /\ run[r].entry = run[r].lineage /\ Slot(r) \in Rows(run[r].lineage)
           /\ Prefix(r) = Entries[run[r].lineage].prefix
           /\ Name(r).prefix = Prefix(r)
           /\ run[r].lineage \in EntryIds /\ Device(r) \in Targets(run[r].lineage)
<1>1. OwnRows(r)
  BY DEF OwnInv, RowOK
<1>2. run[r].lineage \in EntryIds /\ Slot(r) \in Left(run[r].rows)
  BY RowFacts
<1> QED
  BY <1>1, <1>2 DEF OwnRows, Prefix, Name, Targets, Device

LEMMA LatestFacts ==
    ASSUME BasicInv, OwnInv, NEW r \in Runs, run[r].rows # <<>>
    PROVE  /\ Latest(r) = NewObject(r) /\ Latest(r) \in Objects /\ Latest(r).name = Name(r)
           /\ Latest(r).cert.lineage = run[r].lineage /\ OfEntry(Device(r), Latest(r))
<1>1. Latest(r) = NewObject(r)
  BY OwnFacts DEF Latest, NewObject, Name
<1>2. Latest(r) \in Objects
  BY <1>1, RowFacts
<1>3. Latest(r).name = Name(r) /\ Latest(r).cert.lineage = run[r].lineage
  BY <1>1 DEF NewObject
<1> QED
  BY <1>1, <1>2, <1>3, OwnFacts DEF OfEntry

(* The same of a run between two rows.                                     *)
LEMMA LatestOfEntry ==
    ASSUME BasicInv, NEW r \in Runs, run[r].phase = "working"
    PROVE  /\ run[r].lineage \in EntryIds /\ Latest(r) \in Objects /\ Latest(r).cert.lineage = run[r].lineage
           /\ \A d \in Targets(run[r].lineage) : OfEntry(d, Latest(r))
<1>1. run[r].lineage \in EntryIds /\ run[r].stamp \in 0 .. MaxStamp
  BY DEF BasicInv, RunsOK, RunState, RunOK, ForOne
<1>2. live[run[r].lineage] \in 0 .. MaxRenewals
  BY <1>1 DEF BasicInv, WorldOK
<1>3. Latest(r) \in Objects
  BY <1>1, <1>2, EntryFacts DEF Latest, Objects, Certs, CertNames
<1>4. Latest(r).cert.lineage = run[r].lineage /\ Latest(r).name.prefix = Entries[run[r].lineage].prefix
  BY DEF Latest
<1> QED
  BY <1>1, <1>3, <1>4 DEF OfEntry

LEMMA OwnStep ==
    ASSUME BasicInv, OwnInv, NEW r \in Runs, run[r].step \notin {"next", "import"}
    PROVE  /\ run[r].object \in Objects /\ OfEntry(Device(r), run[r].object)
           /\ run[r].object.name = Name(r) /\ run[r].object.cert.lineage = run[r].lineage
           /\ Lone(r) => run[r].object = Latest(r) /\ Only(Device(r), Candidate(r), Latest(r))
<1>1. OwnObject(r) /\ LoneOK(r)
  BY DEF OwnInv, RowOK
<1>2. run[r].object \in Objects /\ run[r].rows # <<>>
  BY AtStep
<1>3. OfEntry(Device(r), run[r].object)
  BY <1>1, <1>2, OwnFacts DEF OwnObject, OfEntry
<1> QED
  BY <1>1, <1>2, <1>3 DEF OwnObject, LoneOK, Imported

LEMMA DeviceFacts ==
    ASSUME BasicInv, OwnInv, NEW d \in Devices
    PROVE  /\ device[d].candidate \in Configurations /\ device[d].running \in Configurations
           /\ Tidy(d, device[d].candidate) /\ Tidy(d, device[d].running)
           /\ d \in Firewalls => Sound(d, device[d].candidate, loose)
           /\ d \notin Firewalls => device[d].candidate = device[d].running
<1>1. device[d] \in Conf
  BY DEF BasicInv, WorldOK
<1> QED
  BY <1>1 DEF OwnInv, DeviceOK, Conf

(* A run that was not crossed is not for the entry of another at work.     *)
LEMMA LoneDiffers ==
    ASSUME OwnInv, NEW q \in Runs, NEW r \in Runs, q # r, Lone(q), run[r].phase = "working"
    PROVE  run[q].lineage # run[r].lineage
  BY DEF OwnInv, Crossing, Lone

(* What of its entry is promised while a run works is of that run.         *)
LEMMA PromisedIsKept ==
    ASSUME Separate, BasicInv, OwnInv, NEW r \in Runs, run[r].step # "next",
           NEW t \in Rows(run[r].lineage), DeviceOf[t] = Device(r), promised[t] # None
    PROVE  /\ Lone(r) /\ t \in run[r].deployed /\ t # Slot(r) /\ t \in Slots
           /\ Candidate(r).ref[t] = Latest(r) /\ Only(Device(r), Candidate(r), Latest(r))
           /\ promised[t] = Latest(r).cert
<1>1. run[r].phase = "working" /\ run[r].rows # <<>> /\ Device(r) \in Devices
  BY AtStep
<1>2. t \in Slots
  BY <1>1, OwnFacts, RowsAreSlots
<1>3. Lone(r)
  BY <1>1 DEF OwnInv, Silent, Lone
<1>4. t \in run[r].deployed /\ Points(r, t)
  BY <1>3 DEF OwnInv, LoneOK, Begun, Kept
<1>5. Candidate(r).ref[t] = Latest(r) /\ Only(Device(r), Candidate(r), Latest(r))
  BY <1>4 DEF Points, Candidate
<1>6. t # Slot(r)
  BY DEF OwnInv, RowOK, NoPromise
<1>7. Serves(Device(r), Candidate(r), t, promised[t])
  BY <1>2 DEF OwnInv, PromiseOK, Candidate
<1>8. promised[t] = Latest(r).cert
  BY <1>1, <1>2, <1>5, <1>7, RowFacts, LatestFacts, OnlyServes
<1> QED
  BY <1>2, <1>3, <1>4, <1>5, <1>6, <1>8
-----------------------------------------------------------------------------
(* What a step of run r leaves to the others.                              *)
Frame(r) ==
    /\ UNCHANGED <<live, crossed>>
    /\ \A q \in Runs \ {r} : run'[q] = run[q]
    /\ \A q \in Runs \ {r}, s \in Slots : job'[<<q, s>>] = job[<<q, s>>]
    /\ \A s \in Slots : promised'[s] = promised[s] \/ promised'[s] = None
                        \/ (s = Slot(r) /\ run[r].rows # <<>> /\ Lone(r))

LEMMA PromisesOfOthers ==
    ASSUME Separate, BasicInv, OwnInv, NEW r \in Runs, Frame(r), run[r].phase = "working",
           NEW q \in Runs \ {r}, run[q].phase = "working", NEW s \in Rows(run[q].lineage)
    PROVE  promised'[s] = promised[s] \/ promised'[s] = None
<1>1. run[q].lineage \in EntryIds /\ run[r].lineage \in EntryIds
  BY LatestOfEntry
<1>2. s \in Slots
  BY <1>1, RowsAreSlots
<1>3. CASE s = Slot(r) /\ run[r].rows # <<>> /\ Lone(r)
  <2>1. s \in Rows(run[r].lineage)
    BY <1>3, OwnFacts
  <2>2. run[q].lineage = run[r].lineage
    BY <1>1, <2>1, SeparateFacts
  <2> QED
    BY <1>3, <2>2, LoneDiffers
<1> QED
  BY <1>2, <1>3 DEF Frame

LEMMA OtherRow ==
    ASSUME Separate, BasicInv, OwnInv, NEW r \in Runs, Frame(r), run[r].phase = "working", NEW q \in Runs \ {r}
    PROVE  RowOK(q)' /\ Silent(q)'
<1>1. RowOK(q) /\ Silent(q) /\ run'[q] = run[q] /\ crossed' = crossed
  BY DEF OwnInv, Frame
<1>2. Slot(q)' = Slot(q) /\ Name(q)' = Name(q) /\ Prefix(q)' = Prefix(q)
  BY <1>1 DEF Slot, Name, Prefix
<1>3. OwnNames(q)' /\ OwnRows(q)' /\ OwnObject(q)' /\ OwnDoomed(q)'
  BY <1>1, <1>2 DEF RowOK, OwnNames, OwnRows, OwnObject, OwnDoomed
<1>4. NoPromise(q)'
  <2>1. CASE run[q].step = "next"
    BY <1>1, <2>1 DEF NoPromise
  <2>2. CASE run[q].step # "next"
    <3>1. run[q].phase = "working" /\ run[q].rows # <<>>
      BY <2>2, AtStep
    <3>2. Slot(q) \in Rows(run[q].lineage)
      BY <3>1, OwnFacts
    <3>3. promised'[Slot(q)] = promised[Slot(q)] \/ promised'[Slot(q)] = None
      BY <3>1, <3>2, PromisesOfOthers
    <3> QED
      BY <1>1, <1>2, <3>3 DEF RowOK, NoPromise
  <2> QED
    BY <2>1, <2>2
<1>5. Silent(q)'
  <2> SUFFICES ASSUME q \in crossed, run[q].phase = "working", NEW s \in Rows(run[q].lineage)
               PROVE  promised'[s] = None
    BY <1>1 DEF Silent
  <2> QED
    BY <1>1, PromisesOfOthers DEF Silent
<1> QED
  BY <1>3, <1>4, <1>5 DEF RowOK

(* Another run when the devices do not change.                             *)
LEMMA LoneUndisturbed ==
    ASSUME NEW q \in Runs, LoneOK(q), run'[q] = run[q], UNCHANGED device, q \in crossed => q \in crossed',
           Lone(q) /\ q \notin crossed' =>
                /\ live'[run[q].lineage] = live[run[q].lineage]
                /\ run[q].step # "next" => job'[<<q, Slot(q)>>] = job[<<q, Slot(q)>>]
                /\ \A s \in Rows(run[q].lineage) : promised'[s] = promised[s] \/ promised'[s] = None
    PROVE  LoneOK(q)'
<1> SUFFICES ASSUME Lone(q)' PROVE LoneOK(q)'
  BY DEF LoneOK
<1>1. /\ Lone(q) /\ live'[run[q].lineage] = live[run[q].lineage]
      /\ run[q].step # "next" => job'[<<q, Slot(q)>>] = job[<<q, Slot(q)>>]
      /\ \A s \in Rows(run[q].lineage) : promised'[s] = promised[s] \/ promised'[s] = None
  BY DEF Lone
<1>2. Slot(q)' = Slot(q) /\ Device(q)' = Device(q) /\ Candidate(q)' = Candidate(q) /\ Latest(q)' = Latest(q)
  BY <1>1 DEF Slot, Device, Candidate, Latest
<1>3. Imported(q)' /\ Referred(q)'
  BY <1>1, <1>2 DEF LoneOK, Imported, Referred, Only, Same
<1>4. Committed(q)'
  BY <1>1, <1>2 DEF LoneOK, Committed, Serves, Held, Same
<1>5. Kept(q)' /\ Begun(q)'
  BY <1>1, <1>2 DEF LoneOK, Kept, Begun, Points, Only, Same
<1> QED
  BY <1>3, <1>4, <1>5 DEF LoneOK

LEMMA DevicesUndisturbed ==
    ASSUME OwnInv, UNCHANGED <<device, loose>>
    PROVE  /\ (\A d \in Devices : DeviceOK(d))'
           /\ \A s \in Slots : promised'[s] = promised[s] \/ promised'[s] = None => PromiseOK(s)'
<1>1. \A d \in Devices : DeviceOK(d)'
  BY DEF OwnInv, DeviceOK
<1>2. \A s \in Slots : PromiseOK(s)
  BY DEF OwnInv
<1> QED
  BY <1>1, <1>2 DEF PromiseOK

(* A step that leaves the devices alone.                                   *)
LEMMA QuietStep ==
    ASSUME Separate, BasicInv, OwnInv, NEW r \in Runs, Frame(r), run[r].phase = "working", UNCHANGED <<device, loose>>
    PROVE  /\ (\A d \in Devices : DeviceOK(d))'
           /\ \A s \in Slots : promised'[s] = promised[s] \/ promised'[s] = None => PromiseOK(s)'
           /\ \A q \in Runs \ {r} : RowOK(q)' /\ LoneOK(q)' /\ Silent(q)'
<1>1. ASSUME NEW q \in Runs \ {r} PROVE LoneOK(q)'
  <2>1. LoneOK(q) /\ run'[q] = run[q] /\ UNCHANGED <<live, crossed>>
    BY DEF OwnInv, Frame
  <2>2. run[q].step # "next" => job'[<<q, Slot(q)>>] = job[<<q, Slot(q)>>]
    <3>1. run[q].step # "next" => Slot(q) \in Slots
      BY AtStep, RowFacts
    <3> QED
      BY <3>1 DEF Frame
  <2>3. Lone(q) => \A s \in Rows(run[q].lineage) : promised'[s] = promised[s] \/ promised'[s] = None
    BY PromisesOfOthers DEF Lone
  <2> QED
    BY <2>1, <2>2, <2>3, LoneUndisturbed
<1> QED
  BY <1>1, OtherRow, DevicesUndisturbed
-----------------------------------------------------------------------------
(* The configurations that the calls of a run make: only what is of its    *)
(* entry and its slot changes, no reference that was good turns bad, and   *)
(* the object that it installs stays.                                      *)
OwnChange(r, k) ==
    /\ k \in Configurations /\ Tidy(Device(r), k)
    /\ OnlyOf(Candidate(r), k, run[r].lineage, Slot(r))
    /\ Device(r) \in Firewalls => \A t \in Slots :
           k.ref[t] = Candidate(r).ref[t] /\ k.ref[t] # None /\ Held(Device(r), Candidate(r), k.ref[t])
                => Held(Device(r), k, k.ref[t])
    /\ Only(Device(r), Candidate(r), Latest(r)) => Only(Device(r), k, Latest(r))

(* The reference of the row's own slot, unless it does not count.          *)
OwnReference(r, k) ==
    /\ \A t \in Slots \ {Slot(r)} : t \in loose => t \in loose'
    /\ Device(r) \in Firewalls /\ k.ref[Slot(r)] # None /\ Slot(r) \notin loose' => Held(Device(r), k, k.ref[Slot(r)])

LEMMA RowOfDevice ==
    ASSUME BasicInv, OwnInv, NEW r \in Runs, run[r].step # "next"
    PROVE  /\ Device(r) \in Devices /\ run[r].rows # <<>> /\ run[r].phase = "working"
           /\ run[r].lineage \in EntryIds /\ Slot(r) \in Rows(run[r].lineage) /\ Slot(r) \in Slots
           /\ DeviceOf[Slot(r)] = Device(r) /\ Candidate(r) = device[Device(r)].candidate
           /\ Candidate(r) \in Configurations /\ Tidy(Device(r), Candidate(r))
           /\ device[Device(r)].running \in Configurations /\ Tidy(Device(r), device[Device(r)].running)
           /\ Device(r) \in Firewalls => Sound(Device(r), Candidate(r), loose)
           /\ Device(r) \notin Firewalls => Candidate(r) = device[Device(r)].running
<1>1. /\ Device(r) \in Devices /\ run[r].rows # <<>> /\ run[r].phase = "working"
  BY AtStep
<1>2. /\ run[r].lineage \in EntryIds /\ Slot(r) \in Rows(run[r].lineage) /\ Slot(r) \in Slots
      /\ DeviceOf[Slot(r)] = Device(r) /\ Candidate(r) = device[Device(r)].candidate
  BY <1>1, RowFacts, OwnFacts DEF Device, Candidate
<1> QED
  BY <1>1, <1>2, DeviceFacts

(* Such a change and the devices.                                          *)
LEMMA ChangedDevices ==
    ASSUME Separate, BasicInv, OwnInv, NEW r \in Runs, run[r].step # "next",
           NEW k, OwnChange(r, k), OwnReference(r, k), device' = Changed(Device(r), k)
    PROVE  /\ (\A d \in Devices : DeviceOK(d))'
           /\ \A f \in Devices \ {Device(r)} : device'[f] = device[f]
           /\ device'[Device(r)].candidate = k
           /\ device'[Device(r)].running = IF Device(r) \in Firewalls THEN device[Device(r)].running ELSE k
<1> DEFINE d == Device(r)
           c == Candidate(r)
           s == Slot(r)
<1>1. /\ d \in Devices /\ s \in Slots /\ DeviceOf[s] = d
      /\ c \in Configurations /\ Tidy(d, c)
      /\ d \in Firewalls => Sound(d, c, loose)
      /\ Tidy(d, device[d].running)
  BY RowOfDevice
<1>2. k \in Configurations /\ Tidy(d, k) /\ \A t \in Slots \ {s} : k.ref[t] = c.ref[t]
  BY DEF OwnChange, OnlyOf
<1>3. /\ \A f \in Devices \ {d} : device'[f] = device[f]
      /\ device'[d].candidate = k
      /\ device'[d].running = IF d \in Firewalls THEN device[d].running ELSE k
  BY <1>1, <1>2, ChangedFacts DEF BasicInv, WorldOK
<1>4. d \in Firewalls => Sound(d, k, loose')
  <2> SUFFICES ASSUME d \in Firewalls, NEW t \in Slots \ loose', k.ref[t] # None
               PROVE  Held(d, k, k.ref[t])
    BY DEF Sound
  <2>1. CASE t = s
    BY <2>1 DEF OwnReference
  <2>2. CASE t # s
    <3>1. k.ref[t] = c.ref[t] /\ t \notin loose
      BY <1>2, <2>2 DEF OwnReference
    <3>2. Held(d, c, c.ref[t])
      BY <1>1, <3>1 DEF Sound
    <3> QED
      BY <3>1, <3>2 DEF OwnChange
  <2> QED
    BY <2>1, <2>2
<1>5. ASSUME NEW f \in Devices PROVE DeviceOK(f)'
  <2>1. CASE f = d
    <3>1. Tidy(d, device'[d].candidate) /\ Tidy(d, device'[d].running)
      BY <1>1, <1>2, <1>3
    <3>2. d \in Firewalls => Sound(d, device'[d].candidate, loose')
      BY <1>3, <1>4
    <3>3. d \notin Firewalls => device'[d].candidate = device'[d].running
      BY <1>3
    <3> QED
      BY <2>1, <3>1, <3>2, <3>3 DEF DeviceOK
  <2>2. CASE f # d
    <3>1. device'[f] = device[f] /\ DeviceOK(f)
      BY <1>3, <2>2 DEF OwnInv
    <3>2. f \in Firewalls => Sound(f, device[f].candidate, loose')
      <4> SUFFICES ASSUME f \in Firewalls, NEW t \in Slots \ loose', device[f].candidate.ref[t] # None
                   PROVE  Held(f, device[f].candidate, device[f].candidate.ref[t])
        BY DEF Sound
      <4>1. DeviceOf[t] = f
        BY <3>1 DEF DeviceOK, Tidy
      <4>2. t # s
        BY <1>1, <2>2, <4>1
      <4>3. t \notin loose
        BY <4>2 DEF OwnReference
      <4> QED
        BY <3>1, <4>3 DEF DeviceOK, Sound
    <3> QED
      BY <3>1, <3>2 DEF DeviceOK
  <2> QED
    BY <2>1, <2>2
<1> QED
  BY <1>3, <1>5

(* It disturbs no promise of another slot.                                 *)
LEMMA ChangedPromises ==
    ASSUME Separate, BasicInv, OwnInv, NEW r \in Runs, run[r].step # "next",
           NEW k, OwnChange(r, k), OwnReference(r, k), device' = Changed(Device(r), k),
           NEW t \in Slots \ {Slot(r)}, promised'[t] = promised[t] \/ promised'[t] = None
    PROVE  PromiseOK(t)'
<1> DEFINE d == Device(r)
           c == Candidate(r)
           e == run[r].lineage
<1>1. /\ d \in Devices /\ e \in EntryIds /\ Slot(r) \in Rows(e) /\ c \in Configurations /\ Tidy(d, c)
      /\ c = device[d].candidate
  BY RowOfDevice
<1>2. /\ \A f \in Devices \ {d} : device'[f] = device[f]
      /\ device'[d].candidate = k
      /\ device'[d].running = IF d \in Firewalls THEN device[d].running ELSE k
  BY ChangedDevices
<1>3. PromiseOK(t)
  BY DEF OwnInv
<1> SUFFICES ASSUME promised'[t] = promised[t], promised[t] # None
             PROVE  PromiseOK(t)'
  BY DEF PromiseOK
<1>4. CASE DeviceOf[t] # d
  BY <1>2, <1>3, <1>4 DEF PromiseOK
<1>5. CASE DeviceOf[t] = d
  <2>1. Serves(d, c, t, promised[t]) /\ Serves(d, device[d].running, t, promised[t])
    BY <1>1, <1>3, <1>5 DEF PromiseOK
  <2>2. Serves(d, k, t, promised[t])
    <3>1. CASE t \in Rows(e)
      <4>1. c.ref[t] = Latest(r) /\ Only(d, c, Latest(r)) /\ promised[t] = Latest(r).cert
        BY <1>5, <3>1, PromisedIsKept
      <4>2. k \in Configurations /\ k.ref[t] = Latest(r) /\ Only(d, k, Latest(r))
        BY <4>1 DEF OwnChange, OnlyOf
      <4>3. Latest(r) \in Objects
        BY RowOfDevice, LatestFacts
      <4> QED
        BY <4>1, <4>2, <4>3, OnlyServes
    <3>2. CASE t \notin Rows(e)
      BY <1>1, <2>1, <3>2, ServesKept DEF OwnChange
    <3> QED
      BY <3>1, <3>2
  <2> QED
    BY <1>1, <1>2, <1>5, <2>1, <2>2 DEF PromiseOK
<1> QED
  BY <1>4, <1>5

(* Nor what another run that was not crossed has done.                     *)
LEMMA ChangedOthers ==
    ASSUME Separate, BasicInv, OwnInv, NEW r \in Runs, run[r].step # "next",
           NEW k, OwnChange(r, k), OwnReference(r, k), device' = Changed(Device(r), k), Frame(r),
           NEW q \in Runs \ {r}
    PROVE  LoneOK(q)'
<1> SUFFICES ASSUME Lone(q)' PROVE LoneOK(q)'
  BY DEF LoneOK
<1> DEFINE d == Device(r)
           c == Candidate(r)
           e == run[r].lineage
           x == Latest(q)
<1>1. /\ d \in Devices /\ e \in EntryIds /\ Slot(r) \in Rows(e) /\ c \in Configurations /\ Tidy(d, c)
      /\ c = device[d].candidate /\ run[r].phase = "working"
  BY RowOfDevice
<1>2. /\ \A f \in Devices \ {d} : device'[f] = device[f]
      /\ device'[d].candidate = k
      /\ d \in Firewalls => device'[d].running = device[d].running
  BY ChangedDevices
<1>3. Lone(q) /\ LoneOK(q) /\ run'[q] = run[q] /\ UNCHANGED live
  BY DEF OwnInv, Frame, Lone
<1>4. run[q].lineage # e /\ run[q].phase = "working"
  BY <1>1, <1>3, LoneDiffers DEF Lone
<1>5. Slot(q)' = Slot(q) /\ Device(q)' = Device(q) /\ Latest(q)' = x
  BY <1>3 DEF Slot, Device, Latest
<1>6. x \in Objects /\ run[q].lineage \in EntryIds /\ x.cert.lineage = run[q].lineage
  BY <1>4, LatestOfEntry
<1>7. ASSUME NEW f \in Devices, f \in Targets(run[q].lineage), Only(f, device[f].candidate, x)
      PROVE  Only(f, device'[f].candidate, x)
  <2>1. CASE f = d
    <3>1. OfEntry(d, x)
      BY <1>4, <1>7, <2>1, LatestOfEntry
    <3>2. k \in Configurations /\ Tidy(d, k) /\ OnlyOf(c, k, e, Slot(r))
      BY DEF OwnChange
    <3>3. x.cert.lineage # e /\ Only(d, c, x)
      BY <1>1, <1>4, <1>6, <1>7, <2>1
    <3>4. Only(d, k, x)
      BY <1>1, <1>6, <3>1, <3>2, <3>3, OnlyKept
    <3> QED
      BY <1>2, <2>1, <3>4
  <2>2. CASE f # d
    BY <1>2, <1>7, <2>2
  <2> QED
    BY <2>1, <2>2
<1>8. ASSUME NEW f \in Devices, NEW t \in Rows(run[q].lineage)
      PROVE  device'[f].candidate.ref[t] = device[f].candidate.ref[t]
  <2>1. t \in Slots /\ t # Slot(r)
    BY <1>1, <1>4, <1>6, SeparateFacts, RowsAreSlots
  <2>2. k.ref[t] = c.ref[t]
    BY <2>1 DEF OwnChange, OnlyOf
  <2> QED
    BY <1>1, <1>2, <2>2
<1>9. \A s \in Rows(run[q].lineage) : promised'[s] = promised[s] \/ promised'[s] = None
  BY <1>1, <1>4, PromisesOfOthers
<1>10. Kept(q)'
  <2> SUFFICES ASSUME NEW t \in Rows(run[q].lineage), promised'[t] # None, t \in run[q].deployed
               PROVE  Points(q, t)'
    BY <1>3 DEF Kept
  <2>1. promised[t] # None /\ Points(q, t)
    BY <1>3, <1>9 DEF LoneOK, Kept
  <2>2. t \in Slots
    BY <1>6, RowsAreSlots
  <2>3. DeviceOf[t] \in Devices
    BY <2>1, <2>2 DEF OwnInv, PromiseOK
  <2>4. DeviceOf[t] \in Targets(run[q].lineage)
    BY DEF Targets
  <2>5. device'[DeviceOf[t]].candidate.ref[t] = x
    BY <1>8, <2>1, <2>3 DEF Points
  <2>6. Only(DeviceOf[t], device'[DeviceOf[t]].candidate, x)
    BY <1>7, <2>1, <2>3, <2>4 DEF Points
  <2> QED
    BY <1>5, <2>5, <2>6 DEF Points, Only, Same
<1>11. Begun(q)'
  BY <1>3, <1>5, <1>9 DEF LoneOK, Begun
<1>12. CASE run[q].step = "next"
  BY <1>3, <1>10, <1>11, <1>12 DEF LoneOK, Imported, Referred, Committed
<1>13. CASE run[q].step # "next"
  <2> DEFINE g == Device(q)
             t == Slot(q)
  <2>1. g \in Devices /\ t \in Rows(run[q].lineage) /\ t \in Slots /\ Candidate(q) = device[g].candidate
        /\ g \in Targets(run[q].lineage)
    BY <1>13, RowOfDevice, OwnFacts
  <2>2. Candidate(q)' = device'[g].candidate
    BY <1>5 DEF Candidate
  <2>3. Imported(q)'
    <3>1. run[q].step # "import" => run[q].object = x /\ Only(g, device[g].candidate, x)
      BY <1>3, <1>13, <2>1 DEF LoneOK, Imported
    <3>2. run[q].step # "import" => Only(g, device'[g].candidate, x)
      BY <1>7, <2>1, <3>1
    <3> QED
      BY <1>3, <1>5, <2>2, <3>1, <3>2 DEF Imported, Only, Same
  <2>4. Referred(q)'
    <3>1. device'[g].candidate.ref[t] = device[g].candidate.ref[t]
      BY <1>8, <2>1
    <3>2. run[q].step \in {"commit", "poll", "list", "delete", "clean"} => device[g].candidate.ref[t] = x
      BY <1>3, <2>1 DEF LoneOK, Referred
    <3> QED
      BY <1>3, <1>5, <2>2, <3>1, <3>2 DEF Referred
  <2>5. Committed(q)'
    <3>1. job'[<<q, t>>] = job[<<q, t>>]
      BY <2>1 DEF Frame
    <3>2. run[q].step \in {"list", "delete", "poll"} => g \in Firewalls
      BY <1>13, AtStep
    <3>3. g \in Firewalls => device'[g].running = device[g].running
      BY <1>2, <2>1
    <3> QED
      BY <1>3, <1>5, <3>1, <3>2, <3>3 DEF LoneOK, Committed, Serves, Held, Same
  <2> QED
    BY <1>10, <1>11, <2>3, <2>4, <2>5 DEF LoneOK
<1> QED
  BY <1>12, <1>13

(* Nor what the run itself did in the rows before.                         *)
LEMMA ChangedKept ==
    ASSUME Separate, BasicInv, OwnInv, NEW r \in Runs, run[r].step # "next",
           NEW k, OwnChange(r, k), OwnReference(r, k), device' = Changed(Device(r), k), UNCHANGED live,
           run'[r].lineage = run[r].lineage, run'[r].stamp = run[r].stamp,
           Lone(r), NEW t \in Rows(run[r].lineage), t # Slot(r), promised[t] # None, t \in run[r].deployed
    PROVE  Points(r, t)'
<1>1. Latest(r)' = Latest(r)
  BY DEF Latest
<1>2. Points(r, t)
  BY DEF OwnInv, LoneOK, Kept
<1>3. /\ \A f \in Devices \ {Device(r)} : device'[f] = device[f]
      /\ device'[Device(r)].candidate = k
  BY ChangedDevices
<1>4. Candidate(r) = device[Device(r)].candidate /\ t \in Slots
  BY RowOfDevice, RowsAreSlots
<1>5. DeviceOf[t] \in Devices
  BY <1>4 DEF OwnInv, PromiseOK
<1>6. CASE DeviceOf[t] = Device(r)
  <2>1. k.ref[t] = Latest(r) /\ Only(Device(r), k, Latest(r))
    BY <1>2, <1>4, <1>6 DEF Points, OwnChange, OnlyOf
  <2> QED
    BY <1>1, <1>3, <1>6, <2>1 DEF Points, Only, Same
<1>7. CASE DeviceOf[t] # Device(r)
  BY <1>1, <1>2, <1>3, <1>5, <1>7 DEF Points, Only, Same
<1> QED
  BY <1>6, <1>7
-----------------------------------------------------------------------------
(* What a step leaves of the run's own state.                              *)
SameRun(r) == /\ run'[r].phase = run[r].phase /\ run'[r].lineage = run[r].lineage
              /\ run'[r].names = run[r].names /\ run'[r].entry = run[r].entry /\ run'[r].stamp = run[r].stamp

LEMMA Others ==
    ASSUME BasicInv, NEW r \in Runs, NEW x, run' = [run EXCEPT ![r] = x]
    PROVE  /\ \A q \in Runs \ {r} : run'[q] = run[q]
           /\ run'[r] = x
  BY DEF BasicInv, RunsOK

LEMMA OthersJobs ==
    ASSUME BasicInv, NEW r \in Runs, NEW s, NEW v, job' = [job EXCEPT ![<<r, s>>] = v]
    PROVE  \A q \in Runs \ {r}, t \in Slots : job'[<<q, t>>] = job[<<q, t>>]
  BY DEF BasicInv, WorldOK

LEMMA StepFields ==
    ASSUME BasicInv, NEW r \in Runs, NEW st, Step(r, st)
    PROVE  /\ \A q \in Runs \ {r} : run'[q] = run[q]
           /\ SameRun(r) /\ run'[r].step = st /\ run'[r].rows = run[r].rows /\ run'[r].object = run[r].object
           /\ run'[r].doomed = run[r].doomed /\ run'[r].deployed = run[r].deployed
  BY DEF Step, SameRun, BasicInv, RunsOK, RunState

LEMMA FailedFields ==
    ASSUME BasicInv, NEW r \in Runs, RowFailed(r)
    PROVE  /\ \A q \in Runs \ {r} : run'[q] = run[q]
           /\ SameRun(r) /\ run'[r].step = "next" /\ run'[r].rows = Tail(run[r].rows)
           /\ run'[r].deployed = run[r].deployed
  BY DEF RowFailed, RowDone, SameRun, BasicInv, RunsOK, RunState

LEMMA DeployedFields ==
    ASSUME BasicInv, NEW r \in Runs, RowDeployed(r)
    PROVE  /\ \A q \in Runs \ {r} : run'[q] = run[q]
           /\ SameRun(r) /\ run'[r].step = "next" /\ run'[r].rows = Tail(run[r].rows)
           /\ run'[r].deployed = run[r].deployed \cup {Slot(r)}
           /\ \A s \in Slots \ {Slot(r)} : promised'[s] = promised[s]
           /\ Slot(r) \in Slots => promised'[Slot(r)] = IF r \in crossed THEN None ELSE run[r].object.cert
           /\ UNCHANGED <<crossed, loose>>
  BY DEF RowDeployed, RowDone, SameRun, BasicInv, RunsOK, RunState, WorldOK

LEMMA CrossingKept ==
    ASSUME OwnInv, NEW r \in Runs, Frame(r),
           run'[r].phase = "working" => run[r].phase = "working" /\ run'[r].lineage = run[r].lineage
    PROVE  Crossing'
<1>1. \A q \in Runs : run'[q].phase = "working" => run[q].phase = "working" /\ run'[q].lineage = run[q].lineage
  BY DEF Frame
<1> QED
  BY <1>1 DEF OwnInv, Crossing, Frame

LEMMA SilentKept ==
    ASSUME BasicInv, OwnInv, NEW r \in Runs, Frame(r), run'[r].phase # "ready",
           run'[r].phase = "working" => run[r].phase = "working" /\ run'[r].lineage = run[r].lineage
    PROVE  Silent(r)'
<1> SUFFICES ASSUME r \in crossed, run[r].phase = "working", run'[r].lineage = run[r].lineage,
                    NEW s \in Rows(run[r].lineage)
             PROVE  promised'[s] = None
  BY DEF Silent, Frame
<1>1. s \in Slots
  BY LatestOfEntry, RowsAreSlots
<1>2. promised[s] = None
  BY DEF OwnInv, Silent
<1> QED
  BY <1>1, <1>2 DEF Frame, Lone

(* The end of a row.                                                       *)
LEMMA RowEnds ==
    ASSUME Separate, BasicInv, OwnInv, NEW r \in Runs, run[r].rows # <<>>, Frame(r), SameRun(r),
           run'[r].step = "next", run'[r].rows = Tail(run[r].rows),
           (\A d \in Devices : DeviceOK(d))',
           \A s \in Slots : PromiseOK(s)',
           \A q \in Runs \ {r} : LoneOK(q)',
           Lone(r) => \A s \in Rows(run[r].lineage) :
                promised'[s] # None /\ s \in run'[r].deployed => Points(r, s)'
    PROVE  OwnInv'
<1>1. run[r].phase = "working" /\ Left(run[r].rows) = {Slot(r)} \cup Left(Tail(run[r].rows))
  BY RowFacts
<1>2. OwnNames(r) /\ OwnRows(r)
  BY DEF OwnInv, RowOK
<1>3. RowOK(r)'
  BY <1>1, <1>2 DEF SameRun, RowOK, OwnNames, OwnRows, NoPromise, OwnObject, OwnDoomed
<1>4. LoneOK(r)'
  <2>1. Lone(r)' => Lone(r)
    BY DEF Lone, Frame, SameRun
  <2>2. Lone(r)' => Kept(r)'
    BY <2>1 DEF Kept, SameRun
  <2> QED
    BY <2>2 DEF LoneOK, Imported, Referred, Committed, Begun
<1>5. Silent(r)' /\ Crossing'
  BY <1>1, SilentKept, CrossingKept DEF SameRun
<1> QED
  BY <1>1, <1>3, <1>4, <1>5, OtherRow DEF OwnInv

(* A call, and the row goes on.                                            *)
LEMMA RowGoesOn ==
    ASSUME Separate, BasicInv, OwnInv, NEW r \in Runs, run[r].step # "next", Frame(r), UNCHANGED promised,
           SameRun(r), run'[r].rows = run[r].rows, run'[r].deployed = run[r].deployed,
           run'[r].step \notin {"next", "import"},
           run'[r].object.name = Name(r), run'[r].object.cert.lineage = run[r].lineage,
           run'[r].step = "delete" => \A x \in run'[r].doomed : x.name.prefix = Prefix(r) /\ x.name # Name(r),
           (\A d \in Devices : DeviceOK(d))',
           \A s \in Slots : PromiseOK(s)',
           \A q \in Runs \ {r} : LoneOK(q)',
           Lone(r) => /\ Imported(r)' /\ Referred(r)' /\ Committed(r)'
                      /\ \A s \in Rows(run[r].lineage) : promised[s] # None /\ s \in run[r].deployed => Points(r, s)'
    PROVE  OwnInv'
<1>1. run[r].phase = "working"
  BY AtStep
<1>2. Slot(r)' = Slot(r) /\ Device(r)' = Device(r) /\ Name(r)' = Name(r) /\ Prefix(r)' = Prefix(r)
  BY DEF SameRun, Slot, Device, Name, Prefix
<1>3. RowOK(r)'
  <2>1. OwnNames(r) /\ OwnRows(r) /\ NoPromise(r)
    BY DEF OwnInv, RowOK
  <2> QED
    BY <1>2, <2>1 DEF SameRun, RowOK, OwnNames, OwnRows, NoPromise, OwnObject, OwnDoomed
<1>4. LoneOK(r)'
  <2>1. Lone(r)' => Lone(r)
    BY DEF Lone, Frame, SameRun
  <2>2. Lone(r)' => Kept(r)'
    BY <2>1 DEF Kept, SameRun
  <2>3. Lone(r) => Begun(r)
    BY DEF OwnInv, LoneOK
  <2>4. Lone(r)' => Begun(r)'
    BY <1>2, <2>1, <2>3 DEF Begun, SameRun
  <2> QED
    BY <2>1, <2>2, <2>4 DEF LoneOK
<1>5. Silent(r)' /\ Crossing'
  BY <1>1, SilentKept, CrossingKept DEF SameRun
<1> QED
  BY <1>1, <1>3, <1>4, <1>5, OtherRow DEF OwnInv

(* What a run did in the rows before, when the devices do not change.      *)
LEMMA KeptQuietly ==
    ASSUME OwnInv, NEW r \in Runs, UNCHANGED <<device, live>>, Lone(r),
           run'[r].lineage = run[r].lineage, run'[r].stamp = run[r].stamp,
           NEW s \in Rows(run[r].lineage), promised[s] # None, s \in run[r].deployed
    PROVE  Points(r, s)'
<1>1. Points(r, s)
  BY DEF OwnInv, LoneOK, Kept
<1>2. Latest(r)' = Latest(r)
  BY DEF Latest
<1> QED
  BY <1>1, <1>2 DEF Points, Only, Same
-----------------------------------------------------------------------------
LEMMA OwnInit == Separate /\ Init => OwnInv
<1> SUFFICES ASSUME Separate, Init PROVE OwnInv
  OBVIOUS
<1>1. BasicInv
  BY BasicInit
<1>2. \A s \in Slots : /\ First(s) \in Objects /\ s \in Rows(First(s).cert.lineage)
                       /\ First(s).cert.lineage \in EntryIds
                       /\ First(s).name = [prefix |-> Entries[First(s).cert.lineage].prefix, stamp |-> 0]
                       /\ First(s).cert = [lineage |-> First(s).cert.lineage, version |-> 0]
                       /\ First(s) = [name |-> First(s).name, cert |-> First(s).cert]
  <2> TAKE s \in Slots
  <2>1. PICK e \in EntryIds : e = (CHOOSE f \in Of(s) : TRUE) /\ s \in Rows(e)
    BY EntriesAssumption DEF Of
  <2>2. First(s) = [name |-> [prefix |-> Entries[e].prefix, stamp |-> 0], cert |-> [lineage |-> e, version |-> 0]]
    BY <2>1 DEF First
  <2>3. First(s) \in Objects
    BY <2>2, EntryFacts, BoundsAssumption DEF Objects, Certs, CertNames
  <2>4. First(s).cert = [lineage |-> e, version |-> 0] /\ First(s).name = [prefix |-> Entries[e].prefix, stamp |-> 0]
    BY <2>2
  <2>5. First(s).cert.lineage = e
    BY <2>4
  <2>6. First(s) = [name |-> First(s).name, cert |-> First(s).cert]
    BY <2>2, <2>4, Zenon
  <2> QED
    BY <2>1, <2>3, <2>4, <2>5, <2>6, Zenon
<1>3. \A d \in Devices : /\ device[d].candidate = AtFirst(d) /\ device[d].running = AtFirst(d)
                         /\ AtFirst(d).certs = {First(s) : s \in {t \in Slots : DeviceOf[t] = d}}
                         /\ \A s \in Slots : AtFirst(d).ref[s] = IF DeviceOf[s] = d THEN First(s) ELSE None
  BY DEF Init, AtFirst
<1>4. \A s \in Slots : OfEntry(DeviceOf[s], First(s))
  <2> TAKE s \in Slots
  <2> DEFINE n == [prefix |-> Entries[First(s).cert.lineage].prefix, stamp |-> 0]
  <2>0. First(s).name = n
    BY <1>2, Zenon
  <2>1. First(s).name.prefix = Entries[First(s).cert.lineage].prefix
    BY <2>0
  <2>2. DeviceOf[s] \in Targets(First(s).cert.lineage)
    BY <1>2 DEF Targets
  <2> QED
    BY <2>1, <2>2 DEF OfEntry
<1>5. \A d \in Devices : Tidy(d, AtFirst(d))
  <2> TAKE d \in Devices
  <2>1. \A x \in AtFirst(d).certs : OfEntry(d, x)
    BY <1>3, <1>4
  <2>2. \A s \in Slots : AtFirst(d).ref[s] # None => DeviceOf[s] = d /\ AtFirst(d).ref[s] = First(s)
    BY <1>3
  <2> QED
    BY <1>2, <1>4, <2>1, <2>2, Zenon DEF Tidy
<1>6. \A d \in Devices : \A s \in Slots : DeviceOf[s] = d => Only(d, AtFirst(d), First(s))
  <2> SUFFICES ASSUME NEW d \in Devices, NEW s \in Slots, NEW t \in Slots, DeviceOf[s] = d, DeviceOf[t] = d,
                      Same(d, First(s), First(t))
               PROVE  First(t) = First(s)
    BY <1>3 DEF Only
  <2>1. First(s) \in Objects /\ First(t) \in Objects /\ OfEntry(d, First(s)) /\ OfEntry(d, First(t))
    BY <1>2, <1>4
  <2>2. First(s).cert.lineage = First(t).cert.lineage
    BY <2>1, SameEntry
  <2>3. First(s).name = First(t).name /\ First(s).cert = First(t).cert
    BY <1>2, <2>2, Zenon
  <2> QED
    BY <1>2, <2>3, Zenon
<1>7. \A d \in Devices : \A s \in Slots : DeviceOf[s] = d => Serves(d, AtFirst(d), s, First(s).cert)
  <2> TAKE d \in Devices
  <2> TAKE s \in Slots
  <2> HAVE DeviceOf[s] = d
  <2>1. AtFirst(d) \in Configurations
    <3>1. device[d] \in Conf
      BY <1>1 DEF BasicInv, WorldOK
    <3> QED
      BY <1>3, <3>1 DEF Conf
  <2> QED
    BY <1>2, <1>3, <1>6, <2>1, OnlyServes
<1>8. \A d \in Devices : Sound(d, AtFirst(d), loose)
  BY <1>3, <1>7 DEF Sound, Serves
<1>9. \A d \in Devices : DeviceOK(d)
  BY <1>3, <1>5, <1>8 DEF DeviceOK
<1>10. \A s \in Slots : PromiseOK(s)
  <2>1. \A s \in Slots : /\ DeviceOf[s] \in Devices \cup {None}
                         /\ promised[s] = IF DeviceOf[s] = None THEN None ELSE First(s).cert
    BY DevicesAssumption DEF Init
  <2> QED
    BY <1>3, <1>7, <2>1 DEF PromiseOK
<1>11. \A r \in Runs : RowOK(r) /\ LoneOK(r) /\ Silent(r)
  BY DEF Init, Idle, RowOK, OwnNames, OwnRows, NoPromise, OwnObject, OwnDoomed, LoneOK, Lone, Silent
<1>12. Crossing
  BY DEF Init, Idle, Crossing
<1> QED
  BY <1>9, <1>10, <1>11, <1>12 DEF OwnInv

LEMMA StartOwn ==
    ASSUME Separate, BasicInv, OwnInv, NEW r \in Runs, Start(r)
    PROVE  OwnInv'
<1>1. PICK e \in EntryIds, renewed \in BOOLEAN, t \in {clock, clock + 1} :
        LET others == {q \in Runs : run[q].phase = "working" /\ run[q].lineage = e} IN
        /\ live' = [live EXCEPT ![e] = IF renewed THEN @ + 1 ELSE @]
        /\ run' = [run EXCEPT ![r] = [Idle EXCEPT
                !.phase = "working", !.lineage = e, !.stamp = t,
                !.names = IF renewed THEN Named(e) ELSE {Entries[e].name}]]
        /\ crossed' = IF others = {} THEN crossed ELSE crossed \cup others \cup {r}
        /\ promised' = [s \in Slots |-> IF others # {} /\ s \in Rows(e) THEN None ELSE promised[s]]
  BY DEF Start
<1> DEFINE others == {q \in Runs : run[q].phase = "working" /\ run[q].lineage = e}
<1>2. UNCHANGED <<device, job, loose>> /\ run[r].phase = "ready"
  BY DEF Start
<1>3. PICK N : N = IF renewed THEN Named(e) ELSE {Entries[e].name}
  OBVIOUS
<1>4. N \subseteq Named(e)
  BY <1>3, EntryFacts
<1>5. PICK x : x = [Idle EXCEPT !.phase = "working", !.lineage = e, !.stamp = t, !.names = N]
  OBVIOUS
<1>6. run' = [run EXCEPT ![r] = x]
  BY <1>1, <1>3, <1>5
<1>7. (\A q \in Runs \ {r} : run'[q] = run[q]) /\ run'[r] = x
  BY <1>6, Others
<1>8. x.phase = "working" /\ x.lineage = e /\ x.names = N /\ x.step = "next" /\ x.rows = <<>> /\ x.deployed = {}
  BY <1>5 DEF Idle
<1>9. /\ \A s \in Slots : promised'[s] = promised[s] \/ promised'[s] = None
      /\ others # {} => \A s \in Slots : s \in Rows(e) => promised'[s] = None
      /\ others = {} => crossed' = crossed
      /\ others # {} => crossed' = crossed \cup others \cup {r}
      /\ \A f \in EntryIds \ {e} : live'[f] = live[f]
  BY <1>1 DEF BasicInv, WorldOK
<1>10. Rows(e) \subseteq Slots
  BY RowsAreSlots
<1>11. /\ (\A d \in Devices : DeviceOK(d))'
       /\ \A s \in Slots : PromiseOK(s)'
  BY <1>2, <1>9, DevicesUndisturbed
<1>12. ASSUME NEW q \in Runs \ {r} PROVE RowOK(q)' /\ LoneOK(q)' /\ Silent(q)'
  <2>1. RowOK(q) /\ LoneOK(q) /\ Silent(q) /\ run'[q] = run[q]
    BY <1>7 DEF OwnInv
  <2>2. Slot(q)' = Slot(q) /\ Name(q)' = Name(q) /\ Prefix(q)' = Prefix(q)
    BY <2>1 DEF Slot, Name, Prefix
  <2>3. run[q].step # "next" => Slot(q) \in Slots
    BY AtStep, RowFacts
  <2>4. RowOK(q)'
    BY <1>9, <2>1, <2>2, <2>3 DEF RowOK, OwnNames, OwnRows, NoPromise, OwnObject, OwnDoomed
  <2>5. run[q].phase = "working" => run[q].lineage \in EntryIds /\ Rows(run[q].lineage) \subseteq Slots
    BY LatestOfEntry, RowsAreSlots
  <2>6. q \in crossed => q \in crossed'
    BY <1>9
  <2>7. Lone(q) /\ q \notin crossed' => live'[run[q].lineage] = live[run[q].lineage]
    <3>1. Lone(q) /\ run[q].lineage = e => q \in crossed'
      BY <1>9 DEF Lone
    <3> QED
      BY <1>9, <2>5, <3>1 DEF Lone
  <2>8. LoneOK(q)'
    BY <1>2, <1>9, <2>1, <2>5, <2>6, <2>7, LoneUndisturbed DEF Lone
  <2>9. Silent(q)'
    <3>0. q \in crossed' => run[q].phase # "ready"
      BY <1>9, <2>1 DEF Silent
    <3> SUFFICES ASSUME q \in crossed', run[q].phase = "working", NEW s \in Rows(run[q].lineage)
                 PROVE  promised'[s] = None
      BY <2>1, <3>0 DEF Silent
    <3>1. s \in Slots
      BY <2>5
    <3>2. CASE q \in crossed
      BY <1>9, <2>1, <3>1, <3>2 DEF Silent
    <3>3. CASE q \notin crossed
      <4>1. others # {} /\ q \in others
        BY <1>9, <3>3
      <4> QED
        BY <1>9, <3>1, <4>1
    <3> QED
      BY <3>2, <3>3
  <2> QED
    BY <2>4, <2>8, <2>9
<1>13. RowOK(r)'
  BY <1>4, <1>7, <1>8 DEF RowOK, OwnNames, OwnRows, NoPromise, OwnObject, OwnDoomed
<1>14. LoneOK(r)'
  BY <1>7, <1>8 DEF LoneOK, Imported, Referred, Committed, Kept, Begun
<1>15. Silent(r)'
  <2> SUFFICES ASSUME r \in crossed', NEW s \in Rows(e) PROVE promised'[s] = None
    BY <1>7, <1>8, Zenon DEF Silent
  <2>1. CASE others # {}
    BY <1>9, <1>10, <2>1
  <2>2. CASE others = {}
    <3>1. r \in crossed
      BY <1>9, <2>2
    <3> QED
      BY <1>2, <3>1 DEF OwnInv, Silent
  <2> QED
    BY <2>1, <2>2
<1>16. Crossing'
  <2> SUFFICES ASSUME NEW p \in Runs, NEW q \in Runs, p # q,
                      run'[p].phase = "working", run'[q].phase = "working", run'[p].lineage = run'[q].lineage
               PROVE  p \in crossed'
    BY DEF Crossing
  <2>1. CASE p = r
    <3>1. q \in others
      BY <1>7, <1>8, <2>1
    <3> QED
      BY <1>9, <2>1, <3>1
  <2>2. CASE q = r
    <3>1. p \in others
      BY <1>7, <1>8, <2>2
    <3> QED
      BY <1>9, <3>1
  <2>3. CASE p # r /\ q # r
    <3>1. p \in crossed
      BY <1>7, <2>3 DEF OwnInv, Crossing
    <3> QED
      BY <1>9, <3>1
  <2> QED
    BY <2>1, <2>2, <2>3
<1> QED
  BY <1>11, <1>12, <1>13, <1>14, <1>15, <1>16 DEF OwnInv
-----------------------------------------------------------------------------
(* A step between two rows.                                                *)
LEMMA BetweenRows ==
    ASSUME Separate, BasicInv, OwnInv, NEW r \in Runs, run[r].phase = "working",
           UNCHANGED <<live, device, promised, crossed, loose>>,
           \A q \in Runs \ {r} : run'[q] = run[q],
           \A q \in Runs \ {r}, s \in Slots : job'[<<q, s>>] = job[<<q, s>>],
           run'[r].step = "next", run'[r].phase # "ready",
           run'[r].rows # <<>> => run'[r].entry = run'[r].lineage
                                  /\ Left(run'[r].rows) \subseteq Rows(run'[r].lineage),
           run'[r].phase = "working" =>
                /\ run'[r].lineage = run[r].lineage /\ run'[r].stamp = run[r].stamp
                /\ run'[r].deployed = run[r].deployed /\ run'[r].names \subseteq run[r].names
    PROVE  OwnInv'
<1>1. Frame(r)
  BY DEF Frame
<1>2. /\ (\A d \in Devices : DeviceOK(d))'
      /\ \A s \in Slots : PromiseOK(s)'
      /\ \A q \in Runs \ {r} : RowOK(q)' /\ LoneOK(q)' /\ Silent(q)'
  BY <1>1, QuietStep
<1>3. OwnNames(r)
  BY DEF OwnInv, RowOK
<1>4. RowOK(r)'
  BY <1>3 DEF RowOK, OwnNames, OwnRows, NoPromise, OwnObject, OwnDoomed
<1>5. LoneOK(r)'
  <2> SUFFICES ASSUME Lone(r)' PROVE Kept(r)'
    BY DEF LoneOK, Imported, Referred, Committed, Begun
  <2>1. Lone(r) /\ run'[r].phase = "working"
    BY DEF Lone
  <2> QED
    BY <2>1, KeptQuietly DEF Kept
<1>6. Silent(r)' /\ Crossing'
  BY <1>1, SilentKept, CrossingKept
<1> QED
  BY <1>2, <1>4, <1>5, <1>6 DEF OwnInv

LEMMA NextNameOwn ==
    ASSUME Separate, BasicInv, OwnInv, NEW r \in Runs, NextName(r)
    PROVE  OwnInv'
<1>1. /\ UNCHANGED <<live, device, job, promised, crossed, loose>>
      /\ run[r].phase = "working" /\ run[r].step = "next" /\ run[r].rows = <<>>
  BY DEF NextName, At
<1>2. run[r] \in RunState /\ run[r].lineage \in EntryIds /\ run \in [Runs -> RunState]
  BY <1>1 DEF BasicInv, RunsOK, RunOK, ForOne
<1>3. OwnNames(r)
  BY DEF OwnInv, RowOK
<1>4. PICK n \in run[r].names :
        LET e == FindDomainConfig(n) IN
        IF Found(n) = {} \/ e \in run[r].seen
        THEN run' = [run EXCEPT ![r].names = @ \ {n}]
        ELSE run' = [run EXCEPT ![r].names = @ \ {n}, ![r].seen = @ \cup {e}, ![r].entry = e,
                                ![r].rows = Entries[e].rows]
  BY DEF NextName
<1>5. n \in Named(run[r].lineage)
  BY <1>1, <1>3 DEF OwnNames
<1>6. FindDomainConfig(n) = run[r].lineage
  <2>1. Found(n) # {}
    BY <1>2, <1>5 DEF Found
  <2> QED
    BY <1>2, <1>5, <2>1, FoundHasName, SeparateFacts
<1>7. PICK x : /\ run' = [run EXCEPT ![r] = x]
               /\ x.phase = run[r].phase /\ x.lineage = run[r].lineage /\ x.names = run[r].names \ {n}
               /\ x.step = run[r].step /\ x.stamp = run[r].stamp /\ x.deployed = run[r].deployed
               /\ x.rows = <<>> \/ (x.rows = Entries[run[r].lineage].rows /\ x.entry = run[r].lineage)
  <2>1. CASE run' = [run EXCEPT ![r].names = @ \ {n}]
    <3>1. PICK x : x = [run[r] EXCEPT !.names = run[r].names \ {n}]
      OBVIOUS
    <3>2. run' = [run EXCEPT ![r] = x]
      BY <1>2, <2>1, <3>1
    <3>3. /\ x.phase = run[r].phase /\ x.lineage = run[r].lineage /\ x.names = run[r].names \ {n}
          /\ x.step = run[r].step /\ x.stamp = run[r].stamp /\ x.deployed = run[r].deployed
          /\ x.rows = run[r].rows
      BY <1>2, <3>1 DEF RunState
    <3> QED
      BY <1>1, <3>2, <3>3
  <2>2. CASE run' = [run EXCEPT ![r].names = @ \ {n}, ![r].seen = @ \cup {run[r].lineage},
                                ![r].entry = run[r].lineage, ![r].rows = Entries[run[r].lineage].rows]
    <3>1. PICK x : x = [run[r] EXCEPT !.names = run[r].names \ {n}, !.seen = run[r].seen \cup {run[r].lineage},
                                      !.entry = run[r].lineage, !.rows = Entries[run[r].lineage].rows]
      OBVIOUS
    <3>2. run' = [run EXCEPT ![r] = x]
      BY <1>2, <2>2, <3>1
    <3>3. /\ x.phase = run[r].phase /\ x.lineage = run[r].lineage /\ x.names = run[r].names \ {n}
          /\ x.step = run[r].step /\ x.stamp = run[r].stamp /\ x.deployed = run[r].deployed
          /\ x.rows = Entries[run[r].lineage].rows /\ x.entry = run[r].lineage
      BY <1>2, <3>1 DEF RunState
    <3> QED
      BY <3>2, <3>3
  <2> QED
    BY <1>4, <1>6, <2>1, <2>2
<1>8. (\A q \in Runs \ {r} : run'[q] = run[q]) /\ run'[r] = x
  BY <1>7, Others
<1>9. Rows(run[r].lineage) = Left(Entries[run[r].lineage].rows)
  BY <1>2, EntryFacts
<1> QED
  BY <1>1, <1>7, <1>8, <1>9, BetweenRows

LEMMA ExitOwn ==
    ASSUME Separate, BasicInv, OwnInv, NEW r \in Runs, Exit(r)
    PROVE  OwnInv'
<1>1. /\ UNCHANGED <<live, device, job, promised, crossed, loose>>
      /\ run[r].phase = "working" /\ run[r].step = "next" /\ run[r].rows = <<>>
  BY DEF Exit, At
<1>2. PICK p \in {"exit0", "exit1"} : run' = [run EXCEPT ![r].phase = p]
  BY DEF Exit
<1>3. /\ \A q \in Runs \ {r} : run'[q] = run[q]
      /\ run'[r].phase = p /\ run'[r].step = "next" /\ run'[r].rows = <<>>
  BY <1>1, <1>2 DEF BasicInv, RunsOK, RunState
<1> QED
  BY <1>1, <1>3, BetweenRows

LEMMA KilledOwn ==
    ASSUME Separate, BasicInv, OwnInv, NEW r \in Runs, Killed(r)
    PROVE  OwnInv'
<1>1. UNCHANGED <<live, device, promised, crossed, loose>> /\ run[r].phase = "working"
  BY DEF Killed
<1>2. run' = [run EXCEPT ![r] = [Idle EXCEPT !.phase = "killed"]]
  BY DEF Killed
<1>3. /\ \A q \in Runs \ {r} : run'[q] = run[q]
      /\ run'[r].phase = "killed" /\ run'[r].step = "next" /\ run'[r].rows = <<>>
  BY <1>2 DEF BasicInv, RunsOK, Idle
<1>4. \A q \in Runs \ {r}, s \in Slots : job'[<<q, s>>] = job[<<q, s>>]
  BY DEF Killed
<1> QED
  BY <1>1, <1>3, <1>4, BetweenRows

LEMMA NextTargetOwn ==
    ASSUME Separate, BasicInv, OwnInv, NEW r \in Runs, NextTarget(r)
    PROVE  OwnInv'
<1>1. /\ UNCHANGED <<live, device, job, crossed, loose>> /\ run[r].rows # <<>>
      /\ promised' = [s \in Slots |-> IF s \in Taken(r) THEN None ELSE promised[s]]
      /\ Step(r, "import")
  BY DEF NextTarget
<1>2. /\ Slot(r) \in Slots /\ run[r].phase = "working"
      /\ run[r].entry = run[r].lineage /\ Slot(r) \in Rows(run[r].lineage) /\ run[r].lineage \in EntryIds
  BY <1>1, RowFacts, OwnFacts
<1>3. Rows(run[r].lineage) \subseteq Slots
  BY <1>2, RowsAreSlots
<1>4. /\ \A s \in Slots : promised'[s] = promised[s] \/ promised'[s] = None
      /\ promised'[Slot(r)] = None
      /\ \A s \in Rows(run[r].lineage) : DeviceOf[s] = Device(r) /\ promised'[s] # None => s \in run[r].deployed
  BY <1>1, <1>2, <1>3 DEF Taken, Device
<1>5. /\ \A q \in Runs \ {r} : run'[q] = run[q]
      /\ SameRun(r) /\ run'[r].step = "import" /\ run'[r].rows = run[r].rows /\ run'[r].deployed = run[r].deployed
  BY <1>1, StepFields
<1>6. Frame(r)
  BY <1>1, <1>4, <1>5 DEF Frame
<1>7. /\ (\A d \in Devices : DeviceOK(d))'
      /\ \A s \in Slots : PromiseOK(s)'
      /\ \A q \in Runs \ {r} : RowOK(q)' /\ LoneOK(q)' /\ Silent(q)'
  BY <1>1, <1>2, <1>4, <1>6, QuietStep
<1>8. Slot(r)' = Slot(r) /\ Device(r)' = Device(r)
  BY <1>5 DEF Slot, Device
<1>9. RowOK(r)'
  <2>1. OwnNames(r) /\ OwnRows(r)
    BY DEF OwnInv, RowOK
  <2> QED
    BY <1>4, <1>5, <1>8, <2>1 DEF SameRun, RowOK, OwnNames, OwnRows, NoPromise, OwnObject, OwnDoomed
<1>10. LoneOK(r)'
  <2> SUFFICES ASSUME Lone(r)' PROVE Kept(r)' /\ Begun(r)'
    BY <1>5 DEF LoneOK, Imported, Referred, Committed
  <2>1. Lone(r)
    BY <1>1, <1>2 DEF Lone
  <2>2. Kept(r)'
    <3> SUFFICES ASSUME NEW s \in Rows(run[r].lineage), promised'[s] # None, s \in run[r].deployed
                 PROVE  Points(r, s)'
      BY <1>5 DEF Kept, SameRun
    <3>1. promised[s] # None
      BY <1>3, <1>4
    <3> QED
      BY <1>1, <1>5, <2>1, <3>1, KeptQuietly DEF SameRun
  <2>3. Begun(r)'
    BY <1>4, <1>5, <1>8 DEF Begun, SameRun
  <2> QED
    BY <2>2, <2>3
<1>11. Silent(r)' /\ Crossing'
  BY <1>2, <1>5, <1>6, SilentKept, CrossingKept DEF SameRun
<1> QED
  BY <1>7, <1>9, <1>10, <1>11 DEF OwnInv

(* The end of a row that leaves the devices alone, without a promise.      *)
LEMMA QuietRowFails ==
    ASSUME Separate, BasicInv, OwnInv, NEW r \in Runs, run[r].rows # <<>>, RowFailed(r),
           UNCHANGED <<live, device, promised, crossed, loose>>,
           \A q \in Runs \ {r}, s \in Slots : job'[<<q, s>>] = job[<<q, s>>]
    PROVE  OwnInv'
<1>1. /\ \A q \in Runs \ {r} : run'[q] = run[q]
      /\ SameRun(r) /\ run'[r].step = "next" /\ run'[r].rows = Tail(run[r].rows)
      /\ run'[r].deployed = run[r].deployed
  BY FailedFields
<1>2. Frame(r) /\ run[r].phase = "working"
  BY <1>1, RowFacts DEF Frame
<1>3. /\ (\A d \in Devices : DeviceOK(d))'
      /\ \A s \in Slots : PromiseOK(s)'
      /\ \A q \in Runs \ {r} : LoneOK(q)'
  BY <1>2, QuietStep
<1>4. Lone(r) => \A s \in Rows(run[r].lineage) : promised'[s] # None /\ s \in run'[r].deployed => Points(r, s)'
  BY <1>1, KeptQuietly DEF SameRun
<1> QED
  BY <1>1, <1>2, <1>3, <1>4, RowEnds

LEMMA UnknownTargetOwn ==
    ASSUME Separate, BasicInv, OwnInv, NEW r \in Runs, UnknownTarget(r)
    PROVE  OwnInv'
  BY QuietRowFails DEF UnknownTarget

LEMMA CleanupFailsOwn ==
    ASSUME Separate, BasicInv, OwnInv, NEW r \in Runs, CleanupFails(r)
    PROVE  OwnInv'
<1>1. run[r].rows # <<>>
  BY AtStep DEF CleanupFails
<1> QED
  BY <1>1, QuietRowFails DEF CleanupFails

(* A step to the next call that leaves the devices alone.                  *)
LEMMA QuietCall ==
    ASSUME Separate, BasicInv, OwnInv, NEW r \in Runs, run[r].step \in {"commit", "poll", "list", "delete"},
           UNCHANGED <<live, device, promised, crossed, loose>>,
           \A q \in Runs \ {r} : run'[q] = run[q],
           \A q \in Runs \ {r}, s \in Slots : job'[<<q, s>>] = job[<<q, s>>],
           SameRun(r), run'[r].rows = run[r].rows, run'[r].deployed = run[r].deployed,
           run'[r].object = run[r].object, run'[r].step \in {"poll", "list", "delete"},
           run'[r].step = "delete" => \A x \in run'[r].doomed : x.name.prefix = Prefix(r) /\ x.name # Name(r),
           run'[r].step = "poll" => job'[<<r, Slot(r)>>] # "ok",
           run'[r].step # "poll" /\ Lone(r) =>
                Serves(Device(r), device[Device(r)].running, Slot(r), Latest(r).cert)
    PROVE  OwnInv'
<1>1. Frame(r) /\ run[r].phase = "working"
  BY AtStep DEF Frame
<1>2. /\ (\A d \in Devices : DeviceOK(d))'
      /\ \A s \in Slots : PromiseOK(s)'
      /\ \A q \in Runs \ {r} : LoneOK(q)'
  BY <1>1, QuietStep
<1>3. /\ Slot(r)' = Slot(r) /\ Device(r)' = Device(r) /\ Candidate(r)' = Candidate(r) /\ Latest(r)' = Latest(r)
  BY DEF SameRun, Slot, Device, Candidate, Latest
<1>4. run[r].object.name = Name(r) /\ run[r].object.cert.lineage = run[r].lineage
  BY OwnStep
<1>5. Lone(r) => Imported(r)' /\ Referred(r)'
  <2> HAVE Lone(r)
  <2>1. Imported(r) /\ Referred(r)
    BY DEF OwnInv, LoneOK
  <2> QED
    BY <1>3, <2>1 DEF Imported, Referred, Only, Same
<1>6. Lone(r) => Committed(r)'
  BY <1>3 DEF Committed, Serves, Held, Same
<1>7. Lone(r) => \A s \in Rows(run[r].lineage) : promised[s] # None /\ s \in run[r].deployed => Points(r, s)'
  BY KeptQuietly DEF SameRun
<1> QED
  BY <1>1, <1>2, <1>4, <1>5, <1>6, <1>7, RowGoesOn

LEMMA CommitOwn ==
    ASSUME Separate, BasicInv, OwnInv, NEW r \in Runs, Commit(r)
    PROVE  OwnInv'
<1>1. run[r].step = "commit" /\ UNCHANGED <<live, device, promised, crossed, loose>>
  BY DEF Commit, At
<1>2. run[r].rows # <<>> /\ Device(r) \in Devices
  BY <1>1, AtStep
<1>3. Slot(r) \in Slots /\ Candidate(r) \in Configurations
  BY <1>2, RowFacts
<1>4. CASE Candidate(r) = device[Device(r)].running /\ Step(r, "list") /\ UNCHANGED job
  <2>1. Lone(r) => Serves(Device(r), device[Device(r)].running, Slot(r), Latest(r).cert)
    <3> HAVE Lone(r)
    <3>1. Only(Device(r), Candidate(r), Latest(r)) /\ Latest(r) \in Objects
      BY <1>1, <1>2, OwnStep, LatestFacts
    <3>2. Candidate(r).ref[Slot(r)] = Latest(r)
      BY <1>1 DEF OwnInv, LoneOK, Referred
    <3> QED
      BY <1>3, <1>4, <3>1, <3>2, OnlyServes
  <2>2. \A q \in Runs \ {r}, s \in Slots : job'[<<q, s>>] = job[<<q, s>>]
    BY <1>4
  <2> QED
    BY <1>1, <1>4, <2>1, <2>2, StepFields, QuietCall
<1>5. CASE Step(r, "poll") /\ job' = [job EXCEPT ![<<r, Slot(r)>>] = "queued"]
  <2>1. \A q \in Runs \ {r}, s \in Slots : job'[<<q, s>>] = job[<<q, s>>]
    BY <1>5, OthersJobs
  <2>2. job'[<<r, Slot(r)>>] = "queued"
    BY <1>3, <1>5 DEF BasicInv, WorldOK
  <2> QED
    BY <1>1, <1>5, <2>1, <2>2, StepFields, QuietCall
<1> QED
  BY <1>4, <1>5 DEF Commit

LEMMA FinishedOwn ==
    ASSUME Separate, BasicInv, OwnInv, NEW r \in Runs, Finished(r)
    PROVE  OwnInv'
<1>1. /\ run[r].step = "poll" /\ job[<<r, Slot(r)>>] = "ok" /\ UNCHANGED <<live, device, promised, crossed, loose>>
      /\ Step(r, "list") /\ job' = [job EXCEPT ![<<r, Slot(r)>>] = "none"]
  BY DEF Finished, At
<1>2. Lone(r) => Serves(Device(r), device[Device(r)].running, Slot(r), Latest(r).cert)
  BY <1>1 DEF OwnInv, LoneOK, Committed
<1>3. \A q \in Runs \ {r}, s \in Slots : job'[<<q, s>>] = job[<<q, s>>]
  BY <1>1, OthersJobs
<1> QED
  BY <1>1, <1>2, <1>3, StepFields, QuietCall

(* The certificates that a clean-up lists are of the run's own entry.      *)
LEMMA StaleFacts ==
    ASSUME Separate, BasicInv, OwnInv, NEW r \in Runs, run[r].step # "next", Device(r) \in ByName
    PROVE  \A x \in Stale(r) : /\ x \in Candidate(r).certs /\ x \in Objects
                               /\ x.cert.lineage = run[r].lineage /\ x.name.prefix = Prefix(r) /\ x.name # Name(r)
<1> TAKE x \in Stale(r)
<1>1. x \in Candidate(r).certs /\ Covers(x.name.prefix, Prefix(r)) /\ x.name # Name(r)
  BY DEF Stale
<1>2. x \in Objects /\ OfEntry(Device(r), x)
  BY <1>1, RowOfDevice DEF Configurations, Tidy
<1>3. x.cert.lineage \in EntryIds
  BY <1>2 DEF Objects, Certs
<1>4. /\ run[r].lineage \in EntryIds /\ Prefix(r) = Entries[run[r].lineage].prefix
      /\ Device(r) \in Targets(run[r].lineage)
  BY RowOfDevice, OwnFacts
<1>5. x.cert.lineage = run[r].lineage
  BY <1>1, <1>2, <1>3, <1>4, SeparateFacts DEF OfEntry, ByName
<1> QED
  BY <1>1, <1>2, <1>4, <1>5 DEF OfEntry

LEMMA ListOwn ==
    ASSUME Separate, BasicInv, OwnInv, NEW r \in Runs, List(r)
    PROVE  OwnInv'
<1>1. run[r].step = "list" /\ UNCHANGED <<live, device, job, promised, crossed, loose>> /\ Device(r) \in Cleanup
  BY DEF List, At
<1>2. /\ \A q \in Runs \ {r} : run'[q] = run[q]
      /\ SameRun(r) /\ run'[r].step = "delete" /\ run'[r].rows = run[r].rows
      /\ run'[r].object = run[r].object /\ run'[r].doomed = Stale(r) /\ run'[r].deployed = run[r].deployed
  BY DEF List, SameRun, BasicInv, RunsOK, RunState
<1>3. \A x \in Stale(r) : x.name.prefix = Prefix(r) /\ x.name # Name(r)
  BY <1>1, StaleFacts DEF ByName
<1>4. Lone(r) => Serves(Device(r), device[Device(r)].running, Slot(r), Latest(r).cert)
  BY <1>1 DEF OwnInv, LoneOK, Committed
<1>5. \A q \in Runs \ {r}, s \in Slots : job'[<<q, s>>] = job[<<q, s>>]
  BY <1>1
<1> QED
  BY <1>1, <1>2, <1>3, <1>4, <1>5, QuietCall
-----------------------------------------------------------------------------
LEMMA PutIsOwn ==
    ASSUME Separate, BasicInv, OwnInv, NEW r \in Runs, run[r].step = "import"
    PROVE  /\ OwnChange(r, Put(Device(r), Candidate(r), NewObject(r)))
           /\ Only(Device(r), Put(Device(r), Candidate(r), NewObject(r)), Latest(r))
           /\ Put(Device(r), Candidate(r), NewObject(r)).ref = Candidate(r).ref
<1> DEFINE d == Device(r)
           c == Candidate(r)
           s == Slot(r)
<1>1. run[r].rows # <<>> /\ d \in Devices /\ c \in Configurations /\ Tidy(d, c)
  BY RowOfDevice
<1>2. PICK x \in Objects : x = NewObject(r)
  BY <1>1, RowFacts
<1>3. x = Latest(r) /\ x.cert.lineage = run[r].lineage /\ OfEntry(d, x)
  BY <1>1, <1>2, LatestFacts
<1>4. PICK k : k = Put(d, c, x)
  OBVIOUS
<1>5. k \in Configurations /\ k.certs = {y \in c.certs : ~Same(d, x, y)} \cup {x} /\ k.ref = c.ref
  BY <1>1, <1>2, <1>4 DEF Put, Configurations
<1>6. Tidy(d, k)
  BY <1>1, <1>3, <1>5 DEF Tidy
<1>7. OnlyOf(c, k, run[r].lineage, s)
  <2>1. \A y \in c.certs : y \in Objects /\ OfEntry(d, y)
    BY <1>1 DEF Tidy, Configurations
  <2>2. \A y \in c.certs : Same(d, x, y) => y.cert.lineage = run[r].lineage
    BY <1>2, <1>3, <2>1, SameEntry
  <2>3. \A y \in Objects : y.cert.lineage # run[r].lineage => (y \in c.certs <=> y \in k.certs)
    BY <1>3, <1>5, <2>2
  <2> QED
    BY <1>5, <2>3 DEF OnlyOf
<1>8. Only(d, k, x)
  BY <1>5 DEF Only
<1>9. ASSUME NEW t \in Slots, Held(d, c, k.ref[t]) PROVE Held(d, k, k.ref[t])
  <2>1. PICK y \in c.certs : Same(d, k.ref[t], y)
    BY <1>9 DEF Held
  <2>2. y \in k.certs \/ Same(d, x, y)
    BY <1>5
  <2>3. Same(d, k.ref[t], y) /\ Same(d, x, y) => Same(d, k.ref[t], x)
    BY DEF Same
  <2> QED
    BY <1>5, <2>1, <2>2, <2>3 DEF Held
<1> QED
  BY <1>2, <1>3, <1>4, <1>5, <1>6, <1>7, <1>8, <1>9 DEF OwnChange

LEMMA PointIsOwn ==
    ASSUME BasicInv, OwnInv, NEW r \in Runs, run[r].step \in {"refer", "bind"},
           NEW x \in {Candidate(r).ref[Slot(r)], None, run[r].object}
    PROVE  /\ OwnChange(r, Point(Candidate(r), Slot(r), x))
           /\ Point(Candidate(r), Slot(r), x).certs = Candidate(r).certs
           /\ Point(Candidate(r), Slot(r), x).ref[Slot(r)] = x
<1> DEFINE d == Device(r)
           c == Candidate(r)
           s == Slot(r)
<1>1. /\ run[r].rows # <<>> /\ d \in Devices /\ DeviceOf[s] = d /\ s \in Slots /\ s \in Rows(run[r].lineage)
      /\ c \in Configurations /\ Tidy(d, c)
  BY RowOfDevice
<1>2. run[r].object \in Objects /\ OfEntry(d, run[r].object) /\ run[r].object.cert.lineage = run[r].lineage
  BY OwnStep
<1>3. x \in Objects \cup {None}
  BY <1>1, <1>2 DEF Configurations
<1>4. PICK k : k = Point(c, s, x)
  OBVIOUS
<1>5. k \in Configurations /\ k.certs = c.certs /\ k.ref = [c.ref EXCEPT ![s] = x]
  BY <1>1, <1>3, <1>4 DEF Point, Configurations
<1>6. k.ref[s] = x /\ \A t \in Slots \ {s} : k.ref[t] = c.ref[t]
  BY <1>1, <1>5 DEF Configurations
<1>7. x # None => OfEntry(d, x) /\ s \in Rows(x.cert.lineage)
  <2>1. CASE x = c.ref[s]
    BY <1>1, <2>1 DEF Tidy
  <2>2. CASE x = run[r].object
    BY <1>1, <1>2, <2>2
  <2> QED
    BY <2>1, <2>2
<1>8. Tidy(d, k)
  <2>1. \A y \in k.certs : OfEntry(d, y)
    BY <1>1, <1>5 DEF Tidy
  <2>2. ASSUME NEW t \in Slots, k.ref[t] # None
        PROVE  DeviceOf[t] = d /\ OfEntry(d, k.ref[t]) /\ t \in Rows(k.ref[t].cert.lineage)
    <3>1. CASE t = s
      BY <1>1, <1>6, <1>7, <2>2, <3>1
    <3>2. CASE t # s
      BY <1>1, <1>6, <2>2, <3>2 DEF Tidy
    <3> QED
      BY <3>1, <3>2
  <2> QED
    BY <2>1, <2>2 DEF Tidy
<1>9. OnlyOf(c, k, run[r].lineage, s)
  BY <1>5, <1>6 DEF OnlyOf
<1> QED
  BY <1>4, <1>5, <1>6, <1>8, <1>9 DEF OwnChange, Held, Only

LEMMA RemovedIsOwn ==
    ASSUME BasicInv, OwnInv, NEW r \in Runs, run[r].step # "next",
           NEW G, \A y \in Candidate(r).certs : y \in G => y.cert.lineage = run[r].lineage /\ y.name # Name(r),
           Device(r) \in Firewalls => \A t \in Slots : Candidate(r).ref[t] # None =>
                \A y \in Candidate(r).certs : y \in G => y.name # Candidate(r).ref[t].name,
           NEW k, k = [Candidate(r) EXCEPT !.certs = {y \in @ : y \notin G}]
    PROVE  OwnChange(r, k) /\ k.ref = Candidate(r).ref
<1> DEFINE d == Device(r)
           c == Candidate(r)
<1>1. run[r].rows # <<>> /\ c \in Configurations /\ Tidy(d, c)
  BY RowOfDevice
<1>2. k \in Configurations /\ k.certs = {y \in c.certs : y \notin G} /\ k.ref = c.ref
  BY <1>1 DEF Configurations
<1>3. Tidy(d, k)
  BY <1>1, <1>2 DEF Tidy
<1>4. OnlyOf(c, k, run[r].lineage, Slot(r))
  BY <1>2 DEF OnlyOf
<1>5. Only(d, c, Latest(r)) => Only(d, k, Latest(r))
  <2>1. Latest(r).name = Name(r)
    BY <1>1, LatestFacts
  <2> QED
    BY <1>2, <2>1 DEF Only
<1>6. ASSUME d \in Firewalls, NEW t \in Slots, c.ref[t] # None, Held(d, c, c.ref[t])
      PROVE  Held(d, k, c.ref[t])
  <2>1. PICK y \in c.certs : Same(d, c.ref[t], y)
    BY <1>6 DEF Held
  <2>2. y.name = c.ref[t].name
    BY <1>6, <2>1 DEF Same
  <2>3. y \in k.certs
    BY <1>2, <1>6, <2>2
  <2> QED
    BY <2>1, <2>3 DEF Held
<1> QED
  BY <1>2, <1>3, <1>4, <1>5, <1>6 DEF OwnChange

LEMMA SameReference ==
    ASSUME BasicInv, OwnInv, NEW r \in Runs, run[r].step # "next", NEW k, OwnChange(r, k), UNCHANGED loose,
           Device(r) \in Firewalls => k.ref[Slot(r)] = Candidate(r).ref[Slot(r)]
    PROVE  OwnReference(r, k)
<1>1. Slot(r) \in Slots /\ (Device(r) \in Firewalls => Sound(Device(r), Candidate(r), loose))
  BY RowOfDevice
<1> QED
  BY <1>1 DEF OwnReference, OwnChange, Sound

LEMMA SlotPointed ==
    ASSUME BasicInv, OwnInv, NEW r \in Runs, run[r].step = "refer", PointSlot(r)
    PROVE  OwnReference(r, Point(Candidate(r), Slot(r), run[r].object))
<1>1. PICK k : k = Point(Candidate(r), Slot(r), run[r].object)
  OBVIOUS
<1>2. k.certs = Candidate(r).certs /\ k.ref[Slot(r)] = run[r].object
  BY <1>1, PointIsOwn
<1>3. Slot(r) \notin loose' => Lone(r)
  BY AtStep DEF PointSlot, Lone
<1>4. Lone(r) => run[r].object = Latest(r) /\ Only(Device(r), Candidate(r), Latest(r))
  BY OwnStep
<1>5. Slot(r) \notin loose' => Held(Device(r), k, k.ref[Slot(r)])
  BY <1>2, <1>3, <1>4 DEF Held, Only, Same
<1> QED
  BY <1>1, <1>5 DEF OwnReference, PointSlot

(* In a row nothing is promised of its slot.                               *)
LEMMA NoPromiseYet ==
    ASSUME OwnInv, NEW r \in Runs, run[r].step # "next"
    PROVE  promised[Slot(r)] = None
  BY DEF OwnInv, RowOK, NoPromise

(* A row that fails after it changed the device.                           *)
LEMMA LoudRowFails ==
    ASSUME Separate, BasicInv, OwnInv, NEW r \in Runs, run[r].step # "next", RowFailed(r),
           NEW k, OwnChange(r, k), OwnReference(r, k), device' = Changed(Device(r), k),
           UNCHANGED <<live, promised, crossed>>,
           \A q \in Runs \ {r}, s \in Slots : job'[<<q, s>>] = job[<<q, s>>]
    PROVE  OwnInv'
<1>1. /\ \A q \in Runs \ {r} : run'[q] = run[q]
      /\ SameRun(r) /\ run'[r].step = "next" /\ run'[r].rows = Tail(run[r].rows)
      /\ run'[r].deployed = run[r].deployed
  BY FailedFields
<1>2. Frame(r) /\ run[r].rows # <<>> /\ promised[Slot(r)] = None
  BY <1>1, AtStep, NoPromiseYet DEF Frame
<1>3. (\A d \in Devices : DeviceOK(d))'
  BY ChangedDevices
<1>4. \A q \in Runs \ {r} : LoneOK(q)'
  BY <1>2, ChangedOthers
<1>5. \A s \in Slots : PromiseOK(s)'
  <2> TAKE s \in Slots
  <2>1. CASE s = Slot(r)
    BY <1>2, <2>1 DEF PromiseOK
  <2>2. CASE s # Slot(r)
    BY <2>2, ChangedPromises
  <2> QED
    BY <2>1, <2>2
<1>6. Lone(r) => \A s \in Rows(run[r].lineage) : promised'[s] # None /\ s \in run'[r].deployed => Points(r, s)'
  <2> SUFFICES ASSUME Lone(r), NEW s \in Rows(run[r].lineage), promised[s] # None, s \in run[r].deployed
               PROVE  Points(r, s)'
    BY <1>1
  <2>1. s # Slot(r)
    BY <1>2
  <2> QED
    BY <1>1, <2>1, ChangedKept DEF SameRun
<1> QED
  BY <1>1, <1>2, <1>3, <1>4, <1>5, <1>6, RowEnds

(* A call that changed the device, and the row goes on.                    *)
LEMMA LoudCall ==
    ASSUME Separate, BasicInv, OwnInv, NEW r \in Runs, run[r].step # "next",
           NEW k, OwnChange(r, k), OwnReference(r, k), device' = Changed(Device(r), k),
           UNCHANGED <<live, promised, job, crossed>>,
           \A q \in Runs \ {r} : run'[q] = run[q],
           SameRun(r), run'[r].rows = run[r].rows, run'[r].deployed = run[r].deployed,
           run'[r].step \in {"refer", "bind", "commit", "clean", "delete"},
           run'[r].step = "delete" => run[r].step = "delete" /\ run'[r].doomed \subseteq run[r].doomed,
           run'[r].object.name = Name(r), run'[r].object.cert.lineage = run[r].lineage,
           Lone(r) => run'[r].object = Latest(r) /\ Only(Device(r), k, Latest(r)),
           Lone(r) /\ run'[r].step \in {"commit", "clean", "delete"} => k.ref[Slot(r)] = Latest(r)
    PROVE  OwnInv'
<1>1. Frame(r) /\ Device(r) \in Devices /\ promised[Slot(r)] = None
  BY AtStep, NoPromiseYet DEF Frame
<1>2. /\ (\A d \in Devices : DeviceOK(d))'
      /\ device'[Device(r)].candidate = k
      /\ device'[Device(r)].running = IF Device(r) \in Firewalls THEN device[Device(r)].running ELSE k
  BY ChangedDevices
<1>3. \A q \in Runs \ {r} : LoneOK(q)'
  BY <1>1, ChangedOthers
<1>4. \A s \in Slots : PromiseOK(s)'
  <2> TAKE s \in Slots
  <2>1. CASE s = Slot(r)
    BY <1>1, <2>1 DEF PromiseOK
  <2>2. CASE s # Slot(r)
    BY <2>2, ChangedPromises
  <2> QED
    BY <2>1, <2>2
<1>5. Slot(r)' = Slot(r) /\ Device(r)' = Device(r) /\ Latest(r)' = Latest(r) /\ Candidate(r)' = k
  BY <1>2 DEF SameRun, Slot, Device, Latest, Candidate
<1>6. Lone(r) => Imported(r)' /\ Referred(r)'
  BY <1>5 DEF Imported, Referred, Only, Same
<1>7. Lone(r) => Committed(r)'
  <2>1. CASE run'[r].step = "delete"
    <3>1. Device(r) \in Firewalls
      BY <2>1, AtStep
    <3>2. Lone(r) => Serves(Device(r), device[Device(r)].running, Slot(r), Latest(r).cert)
      BY <2>1 DEF OwnInv, LoneOK, Committed
    <3> QED
      BY <1>2, <1>5, <3>1, <3>2 DEF Committed, Serves, Held, Same
  <2>2. CASE run'[r].step # "delete"
    BY <2>2 DEF Committed
  <2> QED
    BY <2>1, <2>2
<1>8. Lone(r) => \A s \in Rows(run[r].lineage) : promised[s] # None /\ s \in run[r].deployed => Points(r, s)'
  <2> SUFFICES ASSUME Lone(r), NEW s \in Rows(run[r].lineage), promised[s] # None, s \in run[r].deployed
               PROVE  Points(r, s)'
    OBVIOUS
  <2>1. s # Slot(r)
    BY <1>1
  <2> QED
    BY <2>1, ChangedKept DEF SameRun
<1>9. run'[r].step = "delete" => \A x \in run'[r].doomed : x.name.prefix = Prefix(r) /\ x.name # Name(r)
  BY DEF OwnInv, RowOK, OwnDoomed
<1> QED
  BY <1>1, <1>2, <1>3, <1>4, <1>6, <1>7, <1>8, <1>9, RowGoesOn

(* The end of a row that was deployed.                                     *)
LEMMA DeployedRow ==
    ASSUME Separate, BasicInv, OwnInv, NEW r \in Runs, run[r].step # "next", Frame(r), RowDeployed(r),
           (\A d \in Devices : DeviceOK(d))',
           \A s \in Slots \ {Slot(r)} : PromiseOK(s)',
           \A q \in Runs \ {r} : LoneOK(q)',
           Lone(r) => /\ run[r].object = Latest(r)
                      /\ device'[Device(r)].candidate.ref[Slot(r)] = Latest(r)
                      /\ Only(Device(r), device'[Device(r)].candidate, Latest(r))
                      /\ Serves(Device(r), device'[Device(r)].candidate, Slot(r), Latest(r).cert)
                      /\ Serves(Device(r), device'[Device(r)].running, Slot(r), Latest(r).cert),
           Lone(r) => \A s \in Rows(run[r].lineage) \ {Slot(r)} :
                promised[s] # None /\ s \in run[r].deployed => Points(r, s)'
    PROVE  OwnInv'
<1>1. /\ \A q \in Runs \ {r} : run'[q] = run[q]
      /\ SameRun(r) /\ run'[r].step = "next" /\ run'[r].rows = Tail(run[r].rows)
      /\ run'[r].deployed = run[r].deployed \cup {Slot(r)}
      /\ \A s \in Slots \ {Slot(r)} : promised'[s] = promised[s]
      /\ Slot(r) \in Slots => promised'[Slot(r)] = IF r \in crossed THEN None ELSE run[r].object.cert
  BY DeployedFields
<1>2. /\ run[r].rows # <<>> /\ Device(r) \in Devices /\ Slot(r) \in Slots /\ run[r].phase = "working"
      /\ run[r].lineage \in EntryIds /\ DeviceOf[Slot(r)] = Device(r)
  BY RowOfDevice
<1>3. r \notin crossed => Lone(r)
  BY <1>2 DEF Lone
<1>4. Latest(r)' = Latest(r)
  BY <1>1 DEF Latest, SameRun, Frame
<1>5. \A s \in Slots : PromiseOK(s)'
  <2>1. PICK t \in Slots : t = Slot(r)
    BY <1>2
  <2>2. DeviceOf[t] = Device(r) /\ (promised'[t] # None => Lone(r) /\ promised'[t] = Latest(r).cert)
    BY <1>1, <1>2, <1>3, <2>1
  <2>3. PromiseOK(t)'
    BY <1>2, <2>1, <2>2 DEF PromiseOK, Serves, Held, Same
  <2> QED
    BY <2>1, <2>3
<1>6. Lone(r) => \A s \in Rows(run[r].lineage) : promised'[s] # None /\ s \in run'[r].deployed => Points(r, s)'
  <2> SUFFICES ASSUME Lone(r), NEW s \in Rows(run[r].lineage), promised'[s] # None, s \in run'[r].deployed
               PROVE  Points(r, s)'
    OBVIOUS
  <2>1. CASE s = Slot(r)
    BY <1>2, <1>4, <2>1 DEF Points, Only, Same
  <2>2. CASE s # Slot(r)
    <3>1. s \in Slots
      BY <1>2, RowsAreSlots
    <3> QED
      BY <1>1, <2>2, <3>1
  <2> QED
    BY <2>1, <2>2
<1> QED
  BY <1>1, <1>2, <1>5, <1>6, RowEnds
-----------------------------------------------------------------------------
LEMMA ImportOwn ==
    ASSUME Separate, BasicInv, OwnInv, NEW r \in Runs, Import(r)
    PROVE  OwnInv'
<1>1. run[r].step = "import" /\ UNCHANGED <<live, promised, job, crossed, loose>>
  BY DEF Import, At
<1>2. run[r].rows # <<>>
  BY <1>1, AtStep
<1>3. PICK o \in Objects : o = NewObject(r) /\ o = Latest(r) /\ o.name = Name(r) /\ o.cert.lineage = run[r].lineage
  BY <1>2, LatestFacts
<1>4. PICK k : k = Put(Device(r), Candidate(r), NewObject(r))
  OBVIOUS
<1>5. OwnChange(r, k) /\ Only(Device(r), k, Latest(r)) /\ k.ref = Candidate(r).ref
  BY <1>1, <1>4, PutIsOwn
<1>6. OwnReference(r, k)
  BY <1>1, <1>5, SameReference
<1>7. device' = Changed(Device(r), k)
  BY <1>4 DEF Import
<1>8. PICK st \in {"refer", "bind"} : run' = [run EXCEPT ![r].object = o, ![r].step = st]
  BY <1>3 DEF Import
<1>9. /\ \A q \in Runs \ {r} : run'[q] = run[q]
      /\ SameRun(r) /\ run'[r].step = st /\ run'[r].rows = run[r].rows /\ run'[r].object = o
      /\ run'[r].deployed = run[r].deployed
  BY <1>8 DEF SameRun, BasicInv, RunsOK, RunState
<1> QED
  BY <1>1, <1>3, <1>5, <1>6, <1>7, <1>9, LoudCall

(* A reference of the firewall and a binding of the server.                *)
LEMMA PointOwn ==
    ASSUME Separate, BasicInv, OwnInv, NEW r \in Runs, run[r].step \in {"refer", "bind"},
           device' = Changed(Device(r), Point(Candidate(r), Slot(r), run[r].object)),
           OwnReference(r, Point(Candidate(r), Slot(r), run[r].object)),
           NEW st \in {"commit", "clean"}, Step(r, st), UNCHANGED <<live, promised, job, crossed>>
    PROVE  OwnInv'
<1>1. PICK k : k = Point(Candidate(r), Slot(r), run[r].object)
  OBVIOUS
<1>2. OwnChange(r, k) /\ k.certs = Candidate(r).certs /\ k.ref[Slot(r)] = run[r].object
  BY <1>1, PointIsOwn
<1>3. /\ run[r].object.name = Name(r) /\ run[r].object.cert.lineage = run[r].lineage
      /\ Lone(r) => run[r].object = Latest(r) /\ Only(Device(r), Candidate(r), Latest(r))
  BY OwnStep
<1>4. Lone(r) => Only(Device(r), k, Latest(r))
  BY <1>2, <1>3 DEF Only
<1>5. /\ \A q \in Runs \ {r} : run'[q] = run[q]
      /\ SameRun(r) /\ run'[r].step = st /\ run'[r].rows = run[r].rows /\ run'[r].object = run[r].object
      /\ run'[r].deployed = run[r].deployed
  BY StepFields
<1>6. OwnReference(r, k) /\ device' = Changed(Device(r), k)
  BY <1>1
<1> QED
  BY <1>2, <1>3, <1>4, <1>5, <1>6, LoudCall

LEMMA ReferOwn ==
    ASSUME Separate, BasicInv, OwnInv, NEW r \in Runs, Refer(r)
    PROVE  OwnInv'
<1>1. /\ run[r].step = "refer" /\ PointSlot(r) /\ Step(r, "commit")
      /\ UNCHANGED <<live, promised, job, crossed>>
  BY DEF Refer, At
<1>2. device' = Changed(Device(r), Point(Candidate(r), Slot(r), run[r].object))
  BY <1>1 DEF PointSlot
<1>3. OwnReference(r, Point(Candidate(r), Slot(r), run[r].object))
  BY <1>1, SlotPointed
<1> QED
  BY <1>1, <1>2, <1>3, PointOwn

(* On a server no reference counts but the one that is served.             *)
LEMMA BoundIsOwn ==
    ASSUME BasicInv, OwnInv, NEW r \in Runs, run[r].step \in {"bind", "clean"}, NEW k, UNCHANGED loose
    PROVE  OwnReference(r, k)
<1>1. Device(r) \notin Firewalls
  BY AtStep
<1> QED
  BY <1>1 DEF OwnReference

LEMMA BindOwn ==
    ASSUME Separate, BasicInv, OwnInv, NEW r \in Runs, Bind(r)
    PROVE  OwnInv'
<1>1. /\ run[r].step = "bind" /\ Step(r, "clean") /\ UNCHANGED <<live, promised, job, crossed, loose>>
      /\ device' = Changed(Device(r), Point(Candidate(r), Slot(r), run[r].object))
  BY DEF Bind, At
<1>2. OwnReference(r, Point(Candidate(r), Slot(r), run[r].object))
  BY <1>1, BoundIsOwn
<1> QED
  BY <1>1, <1>2, PointOwn

LEMMA BindFailsOwn ==
    ASSUME Separate, BasicInv, OwnInv, NEW r \in Runs, BindFails(r)
    PROVE  OwnInv'
<1>1. run[r].step = "bind" /\ RowFailed(r) /\ UNCHANGED <<live, promised, job, crossed, loose>>
  BY DEF BindFails, At
<1>2. PICK x \in {Candidate(r).ref[Slot(r)], None, run[r].object} :
        device' = Changed(Device(r), Point(Candidate(r), Slot(r), x))
  BY DEF BindFails
<1>3. PICK k : k = Point(Candidate(r), Slot(r), x)
  OBVIOUS
<1>4. OwnChange(r, k) /\ OwnReference(r, k)
  BY <1>1, <1>3, PointIsOwn, BoundIsOwn
<1>5. \A q \in Runs \ {r}, s \in Slots : job'[<<q, s>>] = job[<<q, s>>]
  BY <1>1
<1> QED
  BY <1>1, <1>2, <1>3, <1>4, <1>5, LoudRowFails

LEMMA CallFailsOwn ==
    ASSUME Separate, BasicInv, OwnInv, NEW r \in Runs, CallFails(r)
    PROVE  OwnInv'
<1>1. run[r].step # "next" /\ RowFailed(r) /\ UNCHANGED <<live, promised, crossed>>
  BY DEF CallFails
<1>2. run[r].rows # <<>>
  BY <1>1, AtStep
<1>3. CASE /\ UNCHANGED <<device, loose>>
           /\ job' \in {job, [job EXCEPT ![<<r, Slot(r)>>] = "none"], [job EXCEPT ![<<r, Slot(r)>>] = "queued"]}
  <2>1. \A q \in Runs \ {r}, s \in Slots : job'[<<q, s>>] = job[<<q, s>>]
    BY <1>3, OthersJobs
  <2> QED
    BY <1>1, <1>2, <1>3, <2>1, QuietRowFails
<1>4. CASE /\ At(r, "import") /\ UNCHANGED <<job, loose>>
           /\ device' = Changed(Device(r), Put(Device(r), Candidate(r), NewObject(r)))
  <2>1. PICK k : k = Put(Device(r), Candidate(r), NewObject(r))
    OBVIOUS
  <2>2. OwnChange(r, k) /\ k.ref = Candidate(r).ref
    BY <1>4, <2>1, PutIsOwn DEF At
  <2>3. OwnReference(r, k)
    BY <1>1, <1>4, <2>2, SameReference
  <2> QED
    BY <1>1, <1>4, <2>1, <2>2, <2>3, LoudRowFails
<1>5. CASE At(r, "refer") /\ PointSlot(r) /\ UNCHANGED job
  <2>1. PICK k : k = Point(Candidate(r), Slot(r), run[r].object)
    OBVIOUS
  <2>2. OwnChange(r, k) /\ OwnReference(r, k)
    BY <1>5, <2>1, PointIsOwn, SlotPointed DEF At
  <2>3. device' = Changed(Device(r), k)
    BY <1>5, <2>1 DEF PointSlot
  <2> QED
    BY <1>1, <1>5, <2>2, <2>3, LoudRowFails
<1> QED
  BY <1>3, <1>4, <1>5 DEF CallFails

LEMMA DeleteOwn ==
    ASSUME Separate, BasicInv, OwnInv, NEW r \in Runs, Delete(r)
    PROVE  OwnInv'
<1>1. run[r].step = "delete" /\ UNCHANGED <<live, promised, job, crossed, loose>>
  BY DEF Delete, At
<1>2. PICK x \in run[r].doomed :
        /\ run' = [run EXCEPT ![r].doomed = @ \ {x}]
        /\ \/ /\ \A s \in Slots : Candidate(r).ref[s] # None => Candidate(r).ref[s].name # x.name
              /\ device' = Changed(Device(r), [Candidate(r) EXCEPT !.certs = {y \in @ : y.name # x.name}])
           \/ UNCHANGED device
  BY DEF Delete
<1>3. /\ \A q \in Runs \ {r} : run'[q] = run[q]
      /\ SameRun(r) /\ run'[r].step = "delete" /\ run'[r].rows = run[r].rows /\ run'[r].deployed = run[r].deployed
      /\ run'[r].object = run[r].object /\ run'[r].doomed = run[r].doomed \ {x}
  BY <1>1, <1>2 DEF SameRun, BasicInv, RunsOK, RunState
<1>4. CASE /\ \A s \in Slots : Candidate(r).ref[s] # None => Candidate(r).ref[s].name # x.name
           /\ device' = Changed(Device(r), [Candidate(r) EXCEPT !.certs = {y \in @ : y.name # x.name}])
  <2>1. run[r].rows # <<>> /\ Device(r) \in Devices /\ Device(r) \in Firewalls
    BY <1>1, AtStep
  <2>2. PICK k : k = [Candidate(r) EXCEPT !.certs = {y \in @ : y.name # x.name}]
    OBVIOUS
  <2>3. PICK H : H = {y \in Candidate(r).certs : y.name = x.name}
    OBVIOUS
  <2>4. k = [Candidate(r) EXCEPT !.certs = {y \in @ : y \notin H}]
    BY <2>2, <2>3
  <2>5. x.name.prefix = Prefix(r) /\ x.name # Name(r)
    BY <1>1 DEF OwnInv, RowOK, OwnDoomed
  <2>6. \A y \in Candidate(r).certs : y \in H => y.cert.lineage = run[r].lineage /\ y.name # Name(r)
    <3> SUFFICES ASSUME NEW y \in Candidate(r).certs, y.name = x.name
                 PROVE  y.cert.lineage = run[r].lineage /\ y.name # Name(r)
      BY <2>3
    <3>1. y \in Objects /\ OfEntry(Device(r), y)
      BY <1>1, RowOfDevice DEF Configurations, Tidy
    <3>2. /\ y.cert.lineage \in EntryIds /\ Entries[y.cert.lineage].prefix = Prefix(r)
          /\ Device(r) \in Targets(y.cert.lineage)
      BY <2>5, <3>1 DEF Objects, Certs, OfEntry
    <3>3. Covers(Entries[y.cert.lineage].prefix, Entries[run[r].lineage].prefix)
      BY <2>1, <3>2, OwnFacts DEF Covers
    <3> QED
      BY <2>1, <2>5, <3>2, <3>3, OwnFacts, SeparateFacts
  <2>7. \A t \in Slots : Candidate(r).ref[t] # None =>
            \A y \in Candidate(r).certs : y \in H => y.name # Candidate(r).ref[t].name
    BY <1>4, <2>3
  <2>8. OwnChange(r, k) /\ k.ref = Candidate(r).ref
    BY <1>1, <2>4, <2>6, <2>7, RemovedIsOwn
  <2>9. OwnReference(r, k) /\ device' = Changed(Device(r), k)
    BY <1>1, <1>4, <2>2, <2>8, SameReference
  <2>10. run[r].object.name = Name(r) /\ run[r].object.cert.lineage = run[r].lineage
    BY <1>1, OwnStep
  <2>11. Lone(r) => /\ run[r].object = Latest(r) /\ Only(Device(r), k, Latest(r))
                    /\ k.ref[Slot(r)] = Latest(r)
    <3> HAVE Lone(r)
    <3>1. run[r].object = Latest(r) /\ Only(Device(r), Candidate(r), Latest(r))
      BY <1>1, OwnStep
    <3>2. Candidate(r).ref[Slot(r)] = Latest(r)
      BY <1>1 DEF OwnInv, LoneOK, Referred
    <3> QED
      BY <2>8, <3>1, <3>2 DEF OwnChange
  <2> QED
    BY <1>1, <1>3, <2>8, <2>9, <2>10, <2>11, LoudCall
<1>5. CASE UNCHANGED device
  <2>1. \A y \in run'[r].doomed : y.name.prefix = Prefix(r) /\ y.name # Name(r)
    BY <1>1, <1>3 DEF OwnInv, RowOK, OwnDoomed
  <2>2. Lone(r) => Serves(Device(r), device[Device(r)].running, Slot(r), Latest(r).cert)
    BY <1>1 DEF OwnInv, LoneOK, Committed
  <2>3. \A q \in Runs \ {r}, s \in Slots : job'[<<q, s>>] = job[<<q, s>>]
    BY <1>1
  <2> QED
    BY <1>1, <1>3, <1>5, <2>1, <2>2, <2>3, QuietCall
<1> QED
  BY <1>2, <1>4, <1>5

LEMMA DeployedFrame ==
    ASSUME BasicInv, NEW r \in Runs, run[r].step # "next", RowDeployed(r), UNCHANGED <<live, job>>
    PROVE  Frame(r)
<1>1. run[r].rows # <<>> /\ run[r].phase = "working"
  BY AtStep
<1> QED
  BY <1>1, DeployedFields DEF Frame, Lone

LEMMA NothingToCleanOwn ==
    ASSUME Separate, BasicInv, OwnInv, NEW r \in Runs, NothingToClean(r)
    PROVE  OwnInv'
<1>1. run[r].step \in {"list", "clean", "delete"} /\ RowDeployed(r) /\ UNCHANGED <<live, device, job>>
  BY DEF NothingToClean, At
<1>2. /\ run[r].phase = "working" /\ Device(r) \in Devices /\ Slot(r) \in Slots
      /\ Candidate(r) = device[Device(r)].candidate /\ Candidate(r) \in Configurations
      /\ run[r].rows # <<>>
      /\ Device(r) \notin Firewalls => Candidate(r) = device[Device(r)].running
  BY <1>1, RowOfDevice
<1>3. Frame(r)
  BY <1>1, DeployedFrame
<1>4. /\ SameRun(r) /\ UNCHANGED loose
      /\ \A s \in Slots \ {Slot(r)} : promised'[s] = promised[s]
  BY <1>1, DeployedFields
<1>5. /\ (\A d \in Devices : DeviceOK(d))'
      /\ \A s \in Slots \ {Slot(r)} : PromiseOK(s)'
      /\ \A q \in Runs \ {r} : LoneOK(q)'
  BY <1>1, <1>2, <1>3, <1>4, QuietStep
<1>6. Lone(r) => /\ run[r].object = Latest(r) /\ Candidate(r).ref[Slot(r)] = Latest(r)
                 /\ Only(Device(r), Candidate(r), Latest(r))
  BY <1>1, OwnStep DEF OwnInv, LoneOK, Referred
<1>7. Lone(r) => Serves(Device(r), Candidate(r), Slot(r), Latest(r).cert)
  BY <1>2, <1>6, LatestFacts, OnlyServes
<1>8. Lone(r) => Serves(Device(r), device[Device(r)].running, Slot(r), Latest(r).cert)
  <2>1. CASE run[r].step = "clean"
    BY <1>2, <1>7, <2>1, AtStep
  <2>2. CASE run[r].step # "clean"
    BY <1>1, <2>2 DEF OwnInv, LoneOK, Committed
  <2> QED
    BY <2>1, <2>2
<1>9. Lone(r) => \A s \in Rows(run[r].lineage) \ {Slot(r)} :
            promised[s] # None /\ s \in run[r].deployed => Points(r, s)'
  BY <1>1, <1>4, KeptQuietly DEF SameRun
<1> QED
  BY <1>1, <1>2, <1>3, <1>5, <1>6, <1>7, <1>8, <1>9, DeployedRow

LEMMA CleanOwn ==
    ASSUME Separate, BasicInv, OwnInv, NEW r \in Runs, Clean(r)
    PROVE  OwnInv'
<1>1. run[r].step = "clean" /\ RowDeployed(r) /\ UNCHANGED <<live, job>> /\ Device(r) \in Cleanup
  BY DEF Clean, At
<1>2. run[r].rows # <<>> /\ Device(r) \in Devices /\ Slot(r) \in Slots /\ Device(r) \notin Firewalls
  BY <1>1, AtStep, RowFacts
<1>3. PICK gone \in SUBSET Stale(r) : device' = Changed(Device(r), [Candidate(r) EXCEPT !.certs = @ \ gone])
  BY DEF Clean
<1>4. PICK k : k = [Candidate(r) EXCEPT !.certs = @ \ gone]
  OBVIOUS
<1>5. k = [Candidate(r) EXCEPT !.certs = {y \in @ : y \notin gone}]
  <2>1. Candidate(r).certs \ gone = {y \in Candidate(r).certs : y \notin gone}
    OBVIOUS
  <2> QED
    BY <1>4, <2>1
<1>6. \A y \in Candidate(r).certs : y \in gone => y.cert.lineage = run[r].lineage /\ y.name # Name(r)
  BY <1>1, StaleFacts DEF ByName
<1>7. OwnChange(r, k) /\ k.ref = Candidate(r).ref
  BY <1>1, <1>2, <1>5, <1>6, RemovedIsOwn
<1>8. /\ SameRun(r) /\ UNCHANGED loose
      /\ \A s \in Slots \ {Slot(r)} : promised'[s] = promised[s]
  BY <1>1, DeployedFields
<1>9. device' = Changed(Device(r), k) /\ OwnReference(r, k) /\ Frame(r)
  BY <1>1, <1>3, <1>4, <1>8, BoundIsOwn, DeployedFrame
<1>10. /\ (\A d \in Devices : DeviceOK(d))'
       /\ device'[Device(r)].candidate = k /\ device'[Device(r)].running = k
  BY <1>1, <1>2, <1>7, <1>9, ChangedDevices
<1>11. \A s \in Slots \ {Slot(r)} : PromiseOK(s)'
  BY <1>1, <1>7, <1>8, <1>9, ChangedPromises
<1>12. \A q \in Runs \ {r} : LoneOK(q)'
  BY <1>1, <1>7, <1>9, ChangedOthers
<1>13. Lone(r) => run[r].object = Latest(r) /\ k.ref[Slot(r)] = Latest(r) /\ Only(Device(r), k, Latest(r))
  <2> HAVE Lone(r)
  <2>1. run[r].object = Latest(r) /\ Only(Device(r), Candidate(r), Latest(r))
    BY <1>1, OwnStep
  <2>2. Candidate(r).ref[Slot(r)] = Latest(r)
    BY <1>1 DEF OwnInv, LoneOK, Referred
  <2> QED
    BY <1>7, <2>1, <2>2 DEF OwnChange
<1>14. Lone(r) => Serves(Device(r), k, Slot(r), Latest(r).cert)
  BY <1>2, <1>7, <1>13, LatestFacts, OnlyServes DEF OwnChange
<1>15. Lone(r) => \A s \in Rows(run[r].lineage) \ {Slot(r)} :
            promised[s] # None /\ s \in run[r].deployed => Points(r, s)'
  BY <1>1, <1>7, <1>8, <1>9, ChangedKept DEF SameRun
<1> QED
  BY <1>1, <1>9, <1>10, <1>11, <1>12, <1>13, <1>14, <1>15, DeployedRow

(* The firewall runs what its candidate is now, whoever asked for it.      *)
LEMMA CommitJobOwn ==
    ASSUME Separate, BasicInv, OwnInv, NEW r \in Runs, NEW s \in Slots, CommitJob(r, s)
    PROVE  OwnInv'
<1>1. UNCHANGED <<live, run, promised, crossed, loose>>
  BY DEF CommitJob
<1>2. PICK v \in {"ok", "failed", "none"} :
        /\ job' = [job EXCEPT ![<<r, s>>] = v]
        /\ v = "ok" => device' = [device EXCEPT ![DeviceOf[s]].running = device[DeviceOf[s]].candidate]
        /\ \/ device' = [device EXCEPT ![DeviceOf[s]].running = device[DeviceOf[s]].candidate]
           \/ UNCHANGED device
  BY DEF CommitJob
<1>3. device \in [Devices -> Conf] /\ job \in [Runs \X Slots -> {"none", "queued", "ok", "failed"}]
  BY DEF BasicInv, WorldOK
<1>4. \A d \in Devices : /\ device'[d].candidate = device[d].candidate
                         /\ device'[d].running \in {device[d].running, device[d].candidate}
                         /\ v = "ok" /\ d = DeviceOf[s] => device'[d].running = device[d].candidate
  BY <1>2, <1>3 DEF Conf
<1>5. \A d \in Devices : DeviceOK(d)'
  BY <1>1, <1>4 DEF OwnInv, DeviceOK
<1>6. \A t \in Slots : PromiseOK(t)'
  <2> SUFFICES ASSUME NEW t \in Slots, promised[t] # None
               PROVE  PromiseOK(t)'
    BY <1>1 DEF PromiseOK
  <2>1. PromiseOK(t)
    BY DEF OwnInv
  <2> QED
    BY <1>1, <1>4, <2>1 DEF PromiseOK
<1>7. \A q \in Runs : RowOK(q)' /\ Silent(q)'
  BY <1>1 DEF OwnInv, RowOK, OwnNames, OwnRows, NoPromise, OwnObject, OwnDoomed, Silent, Slot, Name, Prefix
<1>8. ASSUME NEW q \in Runs, Lone(q) PROVE LoneOK(q)'
  <2>1. LoneOK(q)
    BY DEF OwnInv
  <2>2. Slot(q)' = Slot(q) /\ Device(q)' = Device(q) /\ Latest(q)' = Latest(q)
    BY <1>1 DEF Slot, Device, Latest
  <2>3. Kept(q)'
    <3> SUFFICES ASSUME NEW t \in Rows(run[q].lineage), promised[t] # None, t \in run[q].deployed
                 PROVE  Points(q, t)'
      BY <1>1 DEF Kept
    <3>1. Points(q, t)
      BY <1>8, <2>1 DEF LoneOK, Kept
    <3>2. t \in Slots
      BY <1>8, LatestOfEntry, RowsAreSlots DEF Lone
    <3>3. DeviceOf[t] \in Devices
      BY <3>2 DEF OwnInv, PromiseOK
    <3> QED
      BY <1>4, <2>2, <3>1, <3>3 DEF Points, Only, Same
  <2>4. Begun(q)'
    BY <1>1, <1>8, <2>1, <2>2 DEF LoneOK, Begun
  <2>5. CASE run[q].step = "next"
    BY <1>1, <2>3, <2>4, <2>5 DEF LoneOK, Imported, Referred, Committed
  <2>6. CASE run[q].step # "next"
    <3>1. /\ run[q].rows # <<>> /\ Device(q) \in Devices /\ Slot(q) \in Slots /\ DeviceOf[Slot(q)] = Device(q)
          /\ Candidate(q) = device[Device(q)].candidate /\ Candidate(q) \in Configurations
      BY <2>6, RowOfDevice
    <3>2. Candidate(q)' = Candidate(q)
      BY <1>4, <2>2, <3>1 DEF Candidate
    <3>3. Imported(q)' /\ Referred(q)'
      BY <1>1, <1>8, <2>1, <2>2, <3>2 DEF LoneOK, Imported, Referred, Only, Same
    <3>4. run[q].step \in {"poll", "list", "delete"} => Serves(Device(q), Candidate(q), Slot(q), Latest(q).cert)
      <4> HAVE run[q].step \in {"poll", "list", "delete"}
      <4>1. Only(Device(q), Candidate(q), Latest(q)) /\ Latest(q) \in Objects
        BY <1>8, <3>1, OwnStep, LatestFacts
      <4>2. Candidate(q).ref[Slot(q)] = Latest(q)
        BY <1>8, <2>1 DEF LoneOK, Referred
      <4> QED
        BY <3>1, <4>1, <4>2, OnlyServes
    <3>5. Committed(q)'
      <4>1. CASE <<q, Slot(q)>> = <<r, s>> /\ run[q].step = "poll"
        <5>1. job'[<<q, Slot(q)>>] = v /\ Device(q) = DeviceOf[s]
          BY <1>2, <1>3, <3>1, <4>1
        <5>2. v = "ok" => Serves(Device(q), device'[Device(q)].running, Slot(q), Latest(q).cert)
          BY <1>4, <3>1, <3>4, <4>1, <5>1
        <5> QED
          BY <1>1, <2>2, <4>1, <5>1, <5>2 DEF Committed, Serves, Held, Same
      <4>2. CASE <<q, Slot(q)>> # <<r, s>> \/ run[q].step # "poll"
        <5>1. run[q].step = "poll" => job'[<<q, Slot(q)>>] = job[<<q, Slot(q)>>]
          BY <1>2, <1>3, <3>1, <4>2
        <5>2. ASSUME run[q].step \in {"list", "delete"} \/ (run[q].step = "poll" /\ job[<<q, Slot(q)>>] = "ok")
              PROVE  Serves(Device(q), device'[Device(q)].running, Slot(q), Latest(q).cert)
          <6>1. Serves(Device(q), device[Device(q)].running, Slot(q), Latest(q).cert)
            BY <1>8, <2>1, <5>2 DEF LoneOK, Committed
          <6> QED
            BY <1>4, <3>1, <3>4, <5>2, <6>1
        <5> QED
          BY <1>1, <2>2, <5>1, <5>2 DEF Committed, Serves, Held, Same
      <4> QED
        BY <4>1, <4>2
    <3> QED
      BY <2>3, <2>4, <3>3, <3>5 DEF LoneOK
  <2> QED
    BY <2>5, <2>6
<1>9. \A q \in Runs : LoneOK(q)'
  BY <1>1, <1>8 DEF LoneOK, Lone
<1>10. Crossing'
  BY <1>1 DEF OwnInv, Crossing
<1> QED
  BY <1>5, <1>6, <1>7, <1>9, <1>10 DEF OwnInv

LEMMA OwnStepKept == Separate /\ BasicInv /\ OwnInv /\ [Next]_vars => OwnInv'
<1> SUFFICES ASSUME Separate, BasicInv, OwnInv, [Next]_vars PROVE OwnInv'
  OBVIOUS
<1>1. CASE UNCHANGED vars
  <2>1. UNCHANGED <<live, device, job, run, promised, crossed, loose>>
    BY <1>1 DEF vars
  <2>2. (\A d \in Devices : DeviceOK(d))' /\ \A s \in Slots : PromiseOK(s)'
    BY <2>1, DevicesUndisturbed
  <2>3. \A r \in Runs : LoneOK(r)'
    BY <2>1, LoneUndisturbed DEF OwnInv
  <2>4. \A r \in Runs : RowOK(r)' /\ Silent(r)'
    BY <2>1 DEF OwnInv, RowOK, OwnNames, OwnRows, NoPromise, OwnObject, OwnDoomed, Silent, Slot, Name, Prefix
  <2>5. Crossing'
    BY <2>1 DEF OwnInv, Crossing
  <2> QED
    BY <2>2, <2>3, <2>4, <2>5 DEF OwnInv
<1>2. ASSUME NEW r \in Runs, Progress(r)
      PROVE  OwnInv'
  BY <1>2, NextNameOwn, ExitOwn, NextTargetOwn, UnknownTargetOwn, ImportOwn, ReferOwn, CommitOwn,
     FinishedOwn, CallFailsOwn, ListOwn, NothingToCleanOwn, DeleteOwn, BindOwn, BindFailsOwn,
     CleanOwn, CleanupFailsOwn
     DEF Progress
<1> QED
  BY <1>1, <1>2, StartOwn, KilledOwn, CommitJobOwn DEF Next

LEMMA IInvInit == Init => IInv
  BY BasicInit, OwnInit DEF IInv

LEMMA IInvStep == IInv /\ [Next]_vars => IInv'
<1>1. Separate' <=> Separate
  OBVIOUS
<1> QED
  BY <1>1, BasicStep, OwnStepKept DEF IInv

LEMMA Invariant == Spec => []IInv
  BY IInvInit, IInvStep, PTL DEF Spec

(* Of entries with no name and no row in common, whose prefixes do not     *)
(* cover each other where they share a firewall or a device with clean-up  *)
(* (Separate): a slot that was reported deployed keeps serving that        *)
(* certificate until a run takes its entry's targets on that device in     *)
(* hand again or runs for that entry cross; no clean-up of another entry,  *)
(* no commit of another run or of one that was killed, and no failure      *)
(* takes it away (cleanup_old_certificates, panos/client.py:266-273 and    *)
(* iis.py:207-225).  Any number of runs may be for the same entry at once. *)
THEOREM PromisesAreKept == Separate => (Spec => []PromisedServed)
<1> SUFFICES ASSUME Separate PROVE Spec => []PromisedServed
  OBVIOUS
<1>1. IInv => PromisedServed
  <2> SUFFICES ASSUME IInv, NEW s \in Slots, promised[s] # None
               PROVE  Served(s) = promised[s]
    BY DEF PromisedServed
  <2>1. PromiseOK(s)
    BY DEF IInv, OwnInv
  <2>2. Serves(DeviceOf[s], device[DeviceOf[s]].running, s, promised[s])
    BY <2>1 DEF PromiseOK
  <2> QED
    BY <2>2 DEF Serves, Held, Served
<1> QED
  BY <1>1, Invariant, PTL

(* Of such entries, whatever fails or is killed, the candidate of a        *)
(* firewall refers only to certificates it has, except where one of two    *)
(* runs for one entry at a time pointed a slot last: what the others leave *)
(* can be committed (deploy_certificate, panos.py:28-45).                  *)
THEOREM CandidatesStayValid == Separate => (Spec => []CandidatesValid)
<1> SUFFICES ASSUME Separate PROVE Spec => []CandidatesValid
  OBVIOUS
<1>1. IInv => CandidatesValid
  BY DevicesAssumption DEF IInv, OwnInv, DeviceOK, Sound, CandidatesValid
<1> QED
  BY <1>1, Invariant, PTL
=============================================================================
