------------------------- MODULE DnsChallengesProofs -------------------------
(***************************************************************************)
(* Type correctness of DnsChallenges, and that runs which keep out of each *)
(* other's way lose no value: neither their own nor those that were there. *)
(* The invariant says that what a hook has read is still what it is about  *)
(* to replace, by the lock file for a whole zone and because nobody else   *)
(* changes the record set otherwise.                                       *)
(***************************************************************************)
EXTENDS DnsChallenges, WellFoundedInduction, TLAPS

Hooks == [name : Names \cup {None}, step : Steps, seen : SUBSET (Records \X Values)]

EntryNames(r) == AllNames(EntryOf(r, entry[r]))

(* What TypeOK says of the rest.                                           *)
WorldOK ==
    /\ kind \in Types
    /\ zone \in [Zones -> SUBSET (Records \X Values)]
    /\ phase \in [Runs -> {"ready", "auth", "cleanup", "done"}]
    /\ entry \in [Runs -> Nat]
    /\ todo \in [Runs -> SUBSET Names]
    /\ hook \in [Runs -> Hooks]
    /\ flock \in [Units \X Zones -> Runs \cup {None}]
    /\ added \in [Runs -> SUBSET Names]
    /\ leftovers \subseteq Challenges

(* What certbot still has to do.                                           *)
ForEntry(r) == phase[r] \in {"auth", "cleanup"} => entry[r] \in DOMAIN Entries[r] /\ todo[r] \subseteq EntryNames(r)
OwnAdded(r) == added[r] \subseteq NamesOf(r)

(* What a hook is about.                                                   *)
ForName(r)  == hook[r].step # "none" => hook[r].name \in todo[r] /\ phase[r] \in {"auth", "cleanup"}
NoHookRuns(r) == hook[r].step = "none" => hook[r] = NoHook
Removed(r)  == hook[r].step # "none" /\ phase[r] = "cleanup" => hook[r].name \notin added[r]
OfKind(r)   == /\ hook[r].step = "lock" => KindIn(r) = "namecheap"
               /\ hook[r].step = "call" => KindIn(r) = "value"
               /\ hook[r].step \in {"read", "write"} => KindIn(r) # "value"
Locked(r)   == hook[r].step \in {"read", "write"} /\ KindIn(r) = "namecheap" => flock[LockIn(r)] = r

RunOK(r) == ForEntry(r) /\ OwnAdded(r) /\ ForName(r) /\ NoHookRuns(r) /\ Removed(r) /\ OfKind(r) /\ Locked(r)

BasicInv == WorldOK /\ \A r \in Runs : RunOK(r)

(* What is in the zones, and what a hook knows of it.                      *)
Placed(z, x) == x[2] \in Challenges =>
    LET p == ProviderFor(x[2].run, x[2].name) IN z = ZoneOf[p] /\ x[1] = RecordOf[p][x[2].name]
ToRemove(x) == x[2] \in Challenges =>
    LET r == x[2].run IN
        /\ phase[r] # "ready"
        /\ phase[r] \in {"auth", "cleanup"} => x[2].name \in EntryNames(r)
        /\ phase[r] = "cleanup" => x[2].name \in todo[r] \/ x[2] \in leftovers
        /\ phase[r] = "done" => x[2] \in leftovers
SeenNow(r) == hook[r].step = "write" => hook[r].seen = Current(r)

ZonesInv == /\ \A z \in Zones : \A x \in zone[z] : Placed(z, x) /\ ToRemove(x)
            /\ \A r \in Runs : SeenNow(r)
            /\ AddedStay /\ OthersStay

IInv == BasicInv /\ (Apart => ZonesInv)
-----------------------------------------------------------------------------
LEMMA LeastOfNaturals ==
    ASSUME NEW T \in SUBSET Nat, T # {}
    PROVE  \E m \in T : \A n \in T : m <= n
<1> DEFINE R == {p \in Nat \X Nat : p[1] < p[2]}
<1>1. R = OpToRel(<, Nat)
  BY Zenon DEF OpToRel
<1>2. IsWellFoundedOn(R, Nat)
  BY <1>1, NatLessThanWellFounded, Zenon
<1>3. PICK m \in T : \A n \in T : ~ (<<n, m>> \in R)
  BY <1>2, WFMin, Zenon
<1>4. \A n \in T : ~ (n < m)
  BY <1>3
<1> QED
  BY <1>4

LEMMA EntryFacts ==
    ASSUME NEW r \in Runs
    PROVE  /\ DOMAIN Entries[r] \subseteq Nat
           /\ \A i \in DOMAIN Entries[r] :
                /\ AllNames(EntryOf(r, i)) \subseteq Names /\ AllNames(EntryOf(r, i)) \subseteq NamesOf(r)
                /\ EntryOf(r, i).provider \in Providers
                /\ \A n \in DOMAIN EntryOf(r, i).extra : EntryOf(r, i).extra[n] \in Providers
           /\ NamesOf(r) \subseteq Names
<1>1. Entries[r] \in Seq(EntryRecords)
  BY EntriesAssumption
<1>2. DOMAIN Entries[r] = 1 .. Len(Entries[r]) /\ Len(Entries[r]) \in Nat
  BY <1>1
<1>3. \A i \in DOMAIN Entries[r] : EntryOf(r, i) \in EntryRecords
  BY <1>1, <1>2 DEF EntryOf
<1>4. \A e \in EntryRecords : /\ e.name \in Names /\ e.provider \in Providers
                              /\ DOMAIN e.extra \subseteq Names
                              /\ \A n \in DOMAIN e.extra : e.extra[n] \in Providers
  BY DEF EntryRecords
<1>5. \A i \in DOMAIN Entries[r] : AllNames(EntryOf(r, i)) \subseteq Names /\ AllNames(EntryOf(r, i)) \subseteq NamesOf(r)
  BY <1>3, <1>4 DEF AllNames, NamesOf
<1>6. NamesOf(r) \subseteq Names
  BY <1>5 DEF NamesOf
<1> QED
  BY <1>2, <1>3, <1>4, <1>5, <1>6

(* Every name of an entry is looked up at some provider instance.          *)
LEMMA ProviderFacts ==
    ASSUME NEW r \in Runs, NEW n \in NamesOf(r)
    PROVE  /\ ProviderFor(r, n) \in Providers
           /\ ZoneOf[ProviderFor(r, n)] \in Zones /\ RecordOf[ProviderFor(r, n)][n] \in Records
<1> DEFINE found == {i \in DOMAIN Entries[r] : Matches(EntryOf(r, i), n)}
<1>1. found \in SUBSET Nat
  BY EntryFacts
<1>2. found # {}
  BY DEF NamesOf, Matches
<1>3. PICK i \in found : \A j \in found : i <= j
  BY <1>1, <1>2, LeastOfNaturals
<1>4. PICK k \in found : k = CHOOSE m \in found : \A j \in found : m <= j
  BY <1>3
<1>5. FindDomainConfig(r, n) = EntryOf(r, k)
  BY <1>4 DEF FindDomainConfig
<1>6. ProviderFor(r, n) \in Providers
  BY <1>5, EntryFacts DEF ProviderFor, ResolveProvider
<1> QED
  BY <1>6, EntryFacts, ZonesAssumption, RecordsAssumption

LEMMA BasicIsTypeOK == BasicInv => TypeOK
<1> SUFFICES ASSUME BasicInv PROVE TypeOK
  OBVIOUS
<1>1. WorldOK
  BY DEF BasicInv
<1>2. \A r \in Runs : phase[r] \in {"auth", "cleanup"} => entry[r] \in DOMAIN Entries[r]
  BY DEF BasicInv, RunOK, ForEntry
<1>3. \A r \in Runs : hook[r].step # "none" => hook[r].name \in todo[r] /\ phase[r] \in {"auth", "cleanup"}
  BY DEF BasicInv, RunOK, ForName
<1> QED
  BY <1>1, <1>2, <1>3 DEF WorldOK, Hooks, TypeOK

(* What a running hook is about.                                           *)
LEMMA HookFacts ==
    ASSUME BasicInv, NEW r \in Runs, hook[r].step # "none"
    PROVE  /\ hook[r].name \in Names /\ hook[r].name \in todo[r] /\ hook[r].name \in NamesOf(r)
           /\ hook[r].name \in EntryNames(r)
           /\ phase[r] \in {"auth", "cleanup"}
           /\ ZoneIn(r) \in Zones /\ RecordIn(r) \in Records
           /\ Challenge(r, hook[r].name) \in Challenges
           /\ Pair(r) \in Records \X Values /\ Pair(r)[1] = RecordIn(r) /\ Pair(r)[2] = Challenge(r, hook[r].name)
           /\ hook[r].seen \in SUBSET (Records \X Values)
           /\ Current(r) \subseteq zone[ZoneIn(r)] /\ zone[ZoneIn(r)] \in SUBSET (Records \X Values)
<1>1. hook[r].name \in todo[r] /\ phase[r] \in {"auth", "cleanup"} /\ ForEntry(r)
  BY DEF BasicInv, RunOK, ForName
<1>2. hook[r].name \in EntryNames(r) /\ entry[r] \in DOMAIN Entries[r]
  BY <1>1 DEF ForEntry
<1>3. hook[r].name \in Names /\ hook[r].name \in NamesOf(r)
  BY <1>2, EntryFacts DEF EntryNames
<1>4. ZoneIn(r) \in Zones /\ RecordIn(r) \in Records
  BY <1>3, ProviderFacts DEF ZoneIn, RecordIn, Instance
<1>5. Challenge(r, hook[r].name) \in Challenges
  BY <1>3 DEF Challenge, Challenges
<1>6. Pair(r) \in Records \X Values /\ Pair(r)[1] = RecordIn(r) /\ Pair(r)[2] = Challenge(r, hook[r].name)
  BY <1>4, <1>5 DEF Pair, Values
<1>7. hook[r].seen \in SUBSET (Records \X Values)
  BY DEF BasicInv, WorldOK, Hooks
<1>8. zone[ZoneIn(r)] \in SUBSET (Records \X Values)
  BY <1>4 DEF BasicInv, WorldOK
<1>9. Current(r) \subseteq zone[ZoneIn(r)]
  BY DEF Current
<1> QED
  BY <1>1, <1>2, <1>3, <1>4, <1>5, <1>6, <1>7, <1>8, <1>9

(* A run that another one's step leaves alone.                             *)
LEMMA RunUndisturbed ==
    ASSUME NEW q \in Runs, RunOK(q), phase'[q] = phase[q], entry'[q] = entry[q], todo'[q] = todo[q],
           hook'[q] = hook[q], added'[q] = added[q], kind' = kind,
           hook[q].step # "none" /\ flock[LockIn(q)] = q => flock'[LockIn(q)] = q
    PROVE  RunOK(q)'
<1>1. Instance(q)' = Instance(q) /\ LockIn(q)' = LockIn(q) /\ KindIn(q)' = KindIn(q) /\ EntryNames(q)' = EntryNames(q)
  BY DEF Instance, LockIn, ZoneIn, KindIn, EntryNames
<1>2. ForEntry(q)' /\ OwnAdded(q)' /\ ForName(q)' /\ NoHookRuns(q)' /\ Removed(q)'
  BY <1>1 DEF RunOK, ForEntry, OwnAdded, ForName, NoHookRuns, Removed
<1>3. OfKind(q)' /\ Locked(q)'
  BY <1>1 DEF RunOK, OfKind, Locked
<1> QED
  BY <1>2, <1>3 DEF RunOK

LEMMA BasicInit == Init => BasicInv
<1> SUFFICES ASSUME Init PROVE BasicInv
  OBVIOUS
<1>1. NoHook \in Hooks
  BY DEF NoHook, Hooks, Steps
<1>2. zone \in [Zones -> SUBSET (Records \X Values)]
  BY ExistingAssumption DEF Init, Values
<1>3. WorldOK
  BY <1>1, <1>2 DEF Init, WorldOK
<1>4. \A r \in Runs : RunOK(r)
  BY DEF Init, NoHook, RunOK, ForEntry, OwnAdded, ForName, NoHookRuns, Removed, OfKind, Locked
<1> QED
  BY <1>3, <1>4 DEF BasicInv

LEMMA StartBasic ==
    ASSUME BasicInv, NEW r \in Runs, Start(r)
    PROVE  BasicInv'
<1>1. PICK i \in DOMAIN Entries[r] : /\ entry' = [entry EXCEPT ![r] = i]
                                     /\ todo' = [todo EXCEPT ![r] = AllNames(EntryOf(r, i))]
  BY DEF Start
<1>2. phase[r] = "ready" /\ phase' = [phase EXCEPT ![r] = "auth"] /\ UNCHANGED <<kind, zone, hook, flock, history>>
  BY DEF Start
<1>3. i \in Nat /\ AllNames(EntryOf(r, i)) \in SUBSET Names
  BY EntryFacts
<1>4. WorldOK'
  BY <1>1, <1>2, <1>3 DEF BasicInv, WorldOK, history
<1>5. ASSUME NEW q \in Runs \ {r} PROVE RunOK(q)'
  BY <1>1, <1>2, RunUndisturbed DEF BasicInv, WorldOK, history
<1>6. RunOK(r)'
  <2>1. /\ entry'[r] = i /\ todo'[r] = AllNames(EntryOf(r, i)) /\ phase'[r] = "auth"
        /\ hook'[r] = hook[r] /\ added'[r] = added[r]
    BY <1>1, <1>2 DEF BasicInv, WorldOK, history
  <2>2. hook[r].step = "none"
    BY <1>2 DEF BasicInv, RunOK, ForName
  <2>3. ForEntry(r)' /\ OwnAdded(r)'
    BY <2>1 DEF BasicInv, RunOK, ForEntry, OwnAdded, EntryNames
  <2> QED
    BY <2>1, <2>2, <2>3 DEF BasicInv, RunOK, ForName, NoHookRuns, Removed, OfKind, Locked
<1> QED
  BY <1>4, <1>5, <1>6 DEF BasicInv

LEMMA BeginHookBasic ==
    ASSUME BasicInv, NEW r \in Runs, BeginHook(r)
    PROVE  BasicInv'
<1>1. PICK n \in todo[r] :
        /\ \/ /\ kind[ProviderFor(r, n)] = "namecheap"
              /\ hook' = [hook EXCEPT ![r] = [name |-> n, step |-> "lock", seen |-> {}]]
           \/ /\ kind[ProviderFor(r, n)] = "value"
              /\ hook' = [hook EXCEPT ![r] = [name |-> n, step |-> "call", seen |-> {}]]
           \/ /\ kind[ProviderFor(r, n)] \notin {"namecheap", "value"}
              /\ hook' = [hook EXCEPT ![r] = [name |-> n, step |-> "read", seen |-> {}]]
        /\ added' = IF phase[r] = "cleanup" THEN [added EXCEPT ![r] = @ \ {n}] ELSE added
  BY DEF BeginHook
<1>2. UNCHANGED <<kind, zone, phase, entry, todo, flock, leftovers>> /\ phase[r] \in {"auth", "cleanup"}
  BY DEF BeginHook
<1>3. PICK st \in {"lock", "call", "read"} :
        /\ hook' = [hook EXCEPT ![r] = [name |-> n, step |-> st, seen |-> {}]]
        /\ st = "lock" <=> kind[ProviderFor(r, n)] = "namecheap"
        /\ st = "call" <=> kind[ProviderFor(r, n)] = "value"
  BY <1>1
<1>4. n \in Names
  BY DEF BasicInv, WorldOK
<1>5. WorldOK'
  <2>1. [name |-> n, step |-> st, seen |-> {}] \in Hooks
    BY <1>4 DEF Hooks, Steps
  <2>2. hook' \in [Runs -> Hooks]
    BY <1>3, <2>1 DEF BasicInv, WorldOK
  <2>3. added' \in [Runs -> SUBSET Names]
    BY <1>1 DEF BasicInv, WorldOK
  <2> QED
    BY <1>2, <2>2, <2>3 DEF BasicInv, WorldOK
<1>6. ASSUME NEW q \in Runs \ {r} PROVE RunOK(q)'
  BY <1>1, <1>2, <1>3, RunUndisturbed DEF BasicInv, WorldOK
<1>7. RunOK(r)'
  <2>1. hook'[r] = [name |-> n, step |-> st, seen |-> {}]
    BY <1>3 DEF BasicInv, WorldOK
  <2>2. hook'[r].name = n /\ hook'[r].step = st
    BY <2>1
  <2>3. added'[r] \subseteq added[r] /\ (phase[r] = "cleanup" => n \notin added'[r])
    BY <1>1 DEF BasicInv, WorldOK
  <2>4. ForEntry(r)' /\ OwnAdded(r)'
    BY <1>2, <2>3 DEF BasicInv, RunOK, ForEntry, OwnAdded, EntryNames
  <2>5. ForName(r)' /\ NoHookRuns(r)' /\ Removed(r)'
    BY <1>2, <2>2, <2>3 DEF ForName, NoHookRuns, Removed
  <2>6. KindIn(r)' = kind[ProviderFor(r, n)]
    BY <1>2, <2>2 DEF KindIn, Instance
  <2>7. OfKind(r)' /\ Locked(r)'
    BY <1>3, <2>2, <2>6 DEF OfKind, Locked
  <2> QED
    BY <2>4, <2>5, <2>7 DEF RunOK
<1> QED
  BY <1>5, <1>6, <1>7 DEF BasicInv

LEMMA NotLocatedBasic ==
    ASSUME BasicInv, NEW r \in Runs, NotLocated(r)
    PROVE  BasicInv'
<1>1. PICK n \in todo[r] :
        /\ todo' = [todo EXCEPT ![r] = @ \ {n}]
        /\ added' = added \/ added' = [added EXCEPT ![r] = @ \ {n}]
        /\ leftovers' = leftovers \/ leftovers' = leftovers \cup {Challenge(r, n)}
  BY DEF NotLocated, history
<1>2. UNCHANGED <<kind, zone, phase, entry, hook, flock>> /\ phase[r] \in {"auth", "cleanup"} /\ hook[r] = NoHook
  BY DEF NotLocated
<1>3. n \in Names
  BY DEF BasicInv, WorldOK
<1>4. Challenge(r, n) \in Challenges
  BY <1>3 DEF Challenge, Challenges
<1>5. WorldOK'
  BY <1>1, <1>2, <1>4 DEF BasicInv, WorldOK
<1>6. ASSUME NEW q \in Runs \ {r} PROVE RunOK(q)'
  BY <1>1, <1>2, RunUndisturbed DEF BasicInv, WorldOK
<1>7. RunOK(r)'
  <2>1. todo'[r] \subseteq todo[r] /\ added'[r] \subseteq added[r] /\ hook'[r].step = "none" /\ hook'[r] = NoHook
    BY <1>1, <1>2 DEF BasicInv, WorldOK, NoHook
  <2>2. ForEntry(r)' /\ OwnAdded(r)'
    BY <1>2, <2>1 DEF BasicInv, RunOK, ForEntry, OwnAdded, EntryNames
  <2> QED
    BY <2>1, <2>2 DEF RunOK, ForName, NoHookRuns, Removed, OfKind, Locked
<1> QED
  BY <1>5, <1>6, <1>7 DEF BasicInv

(* The end of a hook.                                                      *)
LEMMA HookEndsBasic ==
    ASSUME BasicInv, NEW r \in Runs, hook[r].step # "none", NEW ok \in BOOLEAN, HookEnds(r, ok),
           zone' \in [Zones -> SUBSET (Records \X Values)]
    PROVE  BasicInv'
<1>1. /\ hook' = [hook EXCEPT ![r] = NoHook]
      /\ todo' = [todo EXCEPT ![r] = @ \ {hook[r].name}]
      /\ flock' = Released(r)
      /\ UNCHANGED <<kind, phase, entry>>
  BY DEF HookEnds
<1>2. hook[r].name \in Names /\ hook[r].name \in NamesOf(r) /\ Challenge(r, hook[r].name) \in Challenges
  BY HookFacts
<1>3. added' = added \/ added' = [added EXCEPT ![r] = @ \cup {hook[r].name}]
  BY DEF HookEnds
<1>4. leftovers' = leftovers \/ leftovers' = leftovers \cup {Challenge(r, hook[r].name)}
  BY DEF HookEnds
<1>5. WorldOK'
  <2>1. NoHook \in Hooks
    BY DEF NoHook, Hooks, Steps
  <2>2. hook' \in [Runs -> Hooks] /\ todo' \in [Runs -> SUBSET Names] /\ added' \in [Runs -> SUBSET Names]
    BY <1>1, <1>2, <1>3, <2>1 DEF BasicInv, WorldOK
  <2>3. flock' \in [Units \X Zones -> Runs \cup {None}]
    BY <1>1 DEF Released, BasicInv, WorldOK
  <2> QED
    BY <1>1, <1>2, <1>4, <2>2, <2>3 DEF BasicInv, WorldOK
<1>6. ASSUME NEW q \in Runs \ {r} PROVE RunOK(q)'
  <2>1. hook[q].step # "none" => LockIn(q) \in Units \X Zones
    BY HookFacts DEF LockIn, Units
  <2>2. hook[q].step # "none" /\ flock[LockIn(q)] = q => flock'[LockIn(q)] = q
    BY <1>1, <2>1 DEF Released
  <2> QED
    BY <1>1, <1>3, <2>2, RunUndisturbed DEF BasicInv, WorldOK
<1>7. RunOK(r)'
  <2>1. /\ todo'[r] \subseteq todo[r] /\ added'[r] \subseteq added[r] \cup {hook[r].name}
        /\ hook'[r].step = "none" /\ hook'[r] = NoHook
    BY <1>1, <1>3 DEF BasicInv, WorldOK, NoHook
  <2>2. ForEntry(r)' /\ OwnAdded(r)'
    BY <1>1, <1>2, <2>1 DEF BasicInv, RunOK, ForEntry, OwnAdded, EntryNames
  <2> QED
    BY <2>1, <2>2 DEF RunOK, ForName, NoHookRuns, Removed, OfKind, Locked
<1> QED
  BY <1>5, <1>6, <1>7 DEF BasicInv

(* A hook that goes on, possibly with the lock.                            *)
LEMMA HookGoesOn ==
    ASSUME BasicInv, NEW r \in Runs, hook[r].step # "none",
           NEW st \in {"read", "write"}, NEW S \in SUBSET (Records \X Values),
           hook' = [hook EXCEPT ![r].step = st, ![r].seen = S],
           UNCHANGED <<kind, zone, phase, entry, todo, history>>,
           flock' \in [Units \X Zones -> Runs \cup {None}],
           \A l \in Units \X Zones : flock[l] # None => flock'[l] = flock[l],
           KindIn(r) # "value", KindIn(r) = "namecheap" => flock'[LockIn(r)] = r
    PROVE  BasicInv'
<1>1. PICK h : h = [hook[r] EXCEPT !.step = st, !.seen = S]
  OBVIOUS
<1>2. h \in Hooks /\ h.step = st /\ h.name = hook[r].name /\ h.seen = S
  BY <1>1 DEF BasicInv, WorldOK, Hooks, Steps
<1>3. hook' = [hook EXCEPT ![r] = h]
  BY <1>1 DEF BasicInv, WorldOK
<1>4. WorldOK'
  <2>1. hook' \in [Runs -> Hooks]
    BY <1>2, <1>3 DEF BasicInv, WorldOK
  <2> QED
    BY <2>1 DEF BasicInv, WorldOK, history
<1>5. hook'[r] = h /\ \A q \in Runs \ {r} : hook'[q] = hook[q]
  BY <1>3 DEF BasicInv, WorldOK
<1>6. ASSUME NEW q \in Runs \ {r} PROVE RunOK(q)'
  <2>1. hook[q].step # "none" => LockIn(q) \in Units \X Zones
    BY HookFacts DEF LockIn, Units
  <2>2. hook[q].step # "none" /\ flock[LockIn(q)] = q => flock'[LockIn(q)] = q
    BY <2>1, NoneAssumption
  <2> QED
    BY <1>5, <2>2, RunUndisturbed DEF BasicInv, history
<1>7. RunOK(r)'
  <2>1. RunOK(r)
    BY DEF BasicInv
  <2>2. ForEntry(r)' /\ OwnAdded(r)' /\ ForName(r)' /\ NoHookRuns(r)' /\ Removed(r)'
    BY <1>2, <1>5, <2>1 DEF RunOK, ForEntry, OwnAdded, ForName, NoHookRuns, Removed, EntryNames, history
  <2>3. KindIn(r)' = KindIn(r) /\ LockIn(r)' = LockIn(r)
    BY <1>2, <1>5 DEF KindIn, LockIn, ZoneIn, Instance
  <2>4. OfKind(r)' /\ Locked(r)'
    BY <1>2, <1>5, <2>3 DEF OfKind, Locked
  <2> QED
    BY <2>2, <2>4 DEF RunOK
<1> QED
  BY <1>4, <1>6, <1>7 DEF BasicInv

LEMMA LockBasic ==
    ASSUME BasicInv, NEW r \in Runs, Lock(r)
    PROVE  BasicInv'
<1>1. /\ hook[r].step = "lock" /\ flock[LockIn(r)] = None /\ flock' = [flock EXCEPT ![LockIn(r)] = r]
      /\ hook' = [hook EXCEPT ![r].step = "read"]
      /\ UNCHANGED <<kind, zone, phase, entry, todo, history>>
  BY DEF Lock
<1>2. LockIn(r) \in Units \X Zones /\ KindIn(r) = "namecheap"
  BY <1>1, HookFacts DEF LockIn, Units, BasicInv, RunOK, OfKind
<1>3. PICK S \in SUBSET (Records \X Values) : S = hook[r].seen
  BY <1>1, HookFacts
<1>4. hook' = [hook EXCEPT ![r].step = "read", ![r].seen = S]
  BY <1>1, <1>3 DEF BasicInv, WorldOK, Hooks
<1>5. /\ flock' \in [Units \X Zones -> Runs \cup {None}] /\ flock'[LockIn(r)] = r
      /\ \A l \in Units \X Zones : flock[l] # None => flock'[l] = flock[l]
  BY <1>1, <1>2 DEF BasicInv, WorldOK
<1> QED
  BY <1>1, <1>2, <1>4, <1>5, HookGoesOn

LEMMA ReadBasic ==
    ASSUME BasicInv, NEW r \in Runs, Read(r)
    PROVE  BasicInv'
<1>1. hook[r].step = "read" /\ UNCHANGED zone
  BY DEF Read
<1>2. CASE HookEnds(r, TRUE)
  BY <1>1, <1>2, HookEndsBasic DEF BasicInv, WorldOK
<1>3. CASE /\ hook' = [hook EXCEPT ![r].step = "write", ![r].seen = Current(r)]
           /\ UNCHANGED <<kind, phase, entry, todo, flock, history>>
  <2>1. PICK S \in SUBSET (Records \X Values) : S = Current(r)
    BY <1>1, HookFacts
  <2>2. KindIn(r) # "value" /\ (KindIn(r) = "namecheap" => flock[LockIn(r)] = r)
    BY <1>1 DEF BasicInv, RunOK, OfKind, Locked
  <2>3. flock \in [Units \X Zones -> Runs \cup {None}]
    BY DEF BasicInv, WorldOK
  <2> QED
    BY <1>1, <1>3, <2>1, <2>2, <2>3, HookGoesOn
<1> QED
  BY <1>2, <1>3 DEF Read

LEMMA WrittenType ==
    ASSUME BasicInv, NEW r \in Runs, hook[r].step # "none"
    PROVE  /\ Written(r) \in [Zones -> SUBSET (Records \X Values)]
           /\ Called(r) \in [Zones -> SUBSET (Records \X Values)]
<1>1. zone \in [Zones -> SUBSET (Records \X Values)] /\ ZoneIn(r) \in Zones /\ Pair(r) \in Records \X Values
  BY HookFacts DEF BasicInv, WorldOK
<1>2. NewContents(r) \in SUBSET (Records \X Values)
  BY <1>1, HookFacts DEF NewContents
<1> QED
  BY <1>1, <1>2 DEF Written, Called

LEMMA WritesBasic ==
    ASSUME BasicInv, NEW r \in Runs, Write(r) \/ WriteRejected(r) \/ Call(r) \/ HookFails(r)
    PROVE  BasicInv'
<1>1. hook[r].step # "none" /\ \E ok \in BOOLEAN : HookEnds(r, ok)
  BY DEF Write, WriteRejected, Call, HookFails
<1>2. zone' = zone \/ zone' = Written(r) \/ zone' = Called(r)
  BY DEF Write, WriteRejected, Call, HookFails
<1>3. zone' \in [Zones -> SUBSET (Records \X Values)]
  BY <1>1, <1>2, WrittenType DEF BasicInv, WorldOK
<1> QED
  BY <1>1, <1>3, HookEndsBasic

LEMMA PhaseBasic ==
    ASSUME BasicInv, NEW r \in Runs, Validated(r) \/ Finish(r)
    PROVE  BasicInv'
<1>1. /\ phase[r] \in {"auth", "cleanup"} /\ todo[r] = {} /\ UNCHANGED <<kind, zone, entry, hook, flock, history>>
      /\ \/ phase' = [phase EXCEPT ![r] = "cleanup"] /\ todo' = [todo EXCEPT ![r] = AllNames(EntryOf(r, entry[r]))]
         \/ phase' = [phase EXCEPT ![r] = "done"] /\ UNCHANGED todo
  BY DEF Validated, Finish
<1>2. entry[r] \in DOMAIN Entries[r] /\ RunOK(r)
  BY <1>1 DEF BasicInv, RunOK, ForEntry
<1>3. AllNames(EntryOf(r, entry[r])) \in SUBSET Names
  BY <1>2, EntryFacts
<1>4. WorldOK'
  BY <1>1, <1>3 DEF BasicInv, WorldOK, history
<1>5. ASSUME NEW q \in Runs \ {r} PROVE RunOK(q)'
  BY <1>1, RunUndisturbed DEF BasicInv, WorldOK, history
<1>6. RunOK(r)'
  <2>1. hook[r].step = "none"
    BY <1>1, <1>2 DEF RunOK, ForName
  <2>2. /\ (phase'[r] = "cleanup" /\ todo'[r] = EntryNames(r)) \/ phase'[r] = "done"
        /\ entry'[r] = entry[r] /\ hook'[r] = hook[r] /\ added'[r] = added[r]
    BY <1>1 DEF BasicInv, WorldOK, EntryNames, history
  <2>3. ForEntry(r)' /\ OwnAdded(r)'
    BY <1>2, <2>2 DEF RunOK, ForEntry, OwnAdded, EntryNames
  <2> QED
    BY <1>2, <2>1, <2>2, <2>3 DEF RunOK, ForName, NoHookRuns, Removed, OfKind, Locked
<1> QED
  BY <1>4, <1>5, <1>6 DEF BasicInv

LEMMA KilledBasic ==
    ASSUME BasicInv, NEW r \in Runs, Killed(r)
    PROVE  BasicInv'
<1>1. /\ phase' = [phase EXCEPT ![r] = "done"] /\ hook' = [hook EXCEPT ![r] = NoHook]
      /\ todo' = [todo EXCEPT ![r] = {}] /\ added' = [added EXCEPT ![r] = {}]
      /\ leftovers' = leftovers \cup {c \in Challenges : c.run = r}
      /\ UNCHANGED <<kind, zone, entry>> /\ flock' = Released(r)
  BY DEF Killed, Gone
<1>2. WorldOK'
  <2>1. NoHook \in Hooks
    BY DEF NoHook, Hooks, Steps
  <2>2. hook' \in [Runs -> Hooks]
    BY <1>1, <2>1 DEF BasicInv, WorldOK
  <2>3. flock' \in [Units \X Zones -> Runs \cup {None}]
    BY <1>1 DEF Released, BasicInv, WorldOK
  <2> QED
    BY <1>1, <2>2, <2>3 DEF BasicInv, WorldOK
<1>3. ASSUME NEW q \in Runs \ {r} PROVE RunOK(q)'
  <2>1. hook[q].step # "none" => LockIn(q) \in Units \X Zones
    BY HookFacts DEF LockIn, Units
  <2>2. hook[q].step # "none" /\ flock[LockIn(q)] = q => flock'[LockIn(q)] = q
    BY <1>1, <2>1 DEF Released
  <2> QED
    BY <1>1, <2>2, RunUndisturbed DEF BasicInv, WorldOK
<1>4. RunOK(r)'
  <2>1. phase'[r] = "done" /\ added'[r] = {} /\ hook'[r] = NoHook /\ hook'[r].step = "none"
    BY <1>1 DEF BasicInv, WorldOK, NoHook
  <2> QED
    BY <2>1 DEF RunOK, ForEntry, OwnAdded, ForName, NoHookRuns, Removed, OfKind, Locked
<1> QED
  BY <1>2, <1>3, <1>4 DEF BasicInv

LEMMA BasicStep == BasicInv /\ [Next]_vars => BasicInv'
<1> SUFFICES ASSUME BasicInv, [Next]_vars PROVE BasicInv'
  OBVIOUS
<1>1. CASE UNCHANGED vars
  <2>1. UNCHANGED <<kind, zone, phase, entry, todo, hook, flock, added, leftovers>>
    BY <1>1 DEF vars
  <2>2. \A r \in Runs : RunOK(r)'
    BY <2>1, RunUndisturbed DEF BasicInv
  <2> QED
    BY <2>1, <2>2 DEF BasicInv, WorldOK
<1>2. ASSUME NEW r \in Runs, Progress(r)
      PROVE  BasicInv'
  BY <1>2, BeginHookBasic, NotLocatedBasic, LockBasic, ReadBasic, WritesBasic, PhaseBasic DEF Progress
<1> QED
  BY <1>1, <1>2, StartBasic, KilledBasic DEF Next

LEMMA BasicInvariant == Spec => []BasicInv
  BY BasicInit, BasicStep, PTL DEF Spec

(* Whatever the entries and the instances: a hook runs only for a name     *)
(* certbot still has to do (dns_dispatcher.py), and zones, lock files and  *)
(* what a hook has read keep their types.                                  *)
THEOREM ChallengesTypeCorrect == Spec => []TypeOK
  BY BasicIsTypeOK, BasicInvariant, PTL
-----------------------------------------------------------------------------
LEMMA ZonesInit == Init => ZonesInv
<1> SUFFICES ASSUME Init PROVE ZonesInv
  OBVIOUS
<1>1. \A z \in Zones : \A x \in zone[z] : x[2] \notin Challenges
  BY ExistingAssumption DEF Init
<1>2. \A r \in Runs : SeenNow(r)
  BY DEF Init, NoHook, SeenNow
<1>3. AddedStay /\ OthersStay
  BY DEF Init, AddedStay, OthersStay
<1> QED
  BY <1>1, <1>2, <1>3 DEF ZonesInv, Placed, ToRemove

(* Writing a whole record set or zone changes the one value, as a call     *)
(* that is given the value does.                                           *)
LEMMA WrittenIsCalled ==
    ASSUME BasicInv, NEW r \in Runs, hook[r].step = "write", SeenNow(r)
    PROVE  Written(r) = Called(r)
<1> DEFINE Z == zone[ZoneIn(r)]
<1>1. phase[r] \in {"auth", "cleanup"} /\ Current(r) \subseteq Z /\ hook[r].seen = Current(r)
  BY HookFacts DEF SeenNow
<1>2. Pair(r) \in Z => Pair(r) \in Current(r)
  BY HookFacts DEF Current
<1>3. CASE phase[r] = "auth"
  <2>1. (Z \ Current(r)) \cup NewContents(r) = Z \cup {Pair(r)}
    BY <1>1, <1>3 DEF NewContents
  <2> QED
    BY <1>3, <2>1 DEF Written, Called
<1>4. CASE phase[r] = "cleanup"
  <2>1. (Z \ Current(r)) \cup NewContents(r) = Z \ {Pair(r)}
    BY <1>1, <1>2, <1>4 DEF NewContents
  <2> QED
    BY <1>4, <2>1 DEF Written, Called
<1> QED
  BY <1>1, <1>3, <1>4

LEMMA CalledFacts ==
    ASSUME BasicInv, NEW r \in Runs, hook[r].step # "none"
    PROVE  /\ Called(r)[ZoneIn(r)] = IF phase[r] = "auth" THEN zone[ZoneIn(r)] \cup {Pair(r)}
                                                          ELSE zone[ZoneIn(r)] \ {Pair(r)}
           /\ \A z \in Zones : z # ZoneIn(r) => Called(r)[z] = zone[z]
<1>1. zone \in [Zones -> SUBSET (Records \X Values)] /\ ZoneIn(r) \in Zones
  BY HookFacts DEF BasicInv, WorldOK
<1> QED
  BY <1>1 DEF Called

(* What a hook has read stays what it will replace while others work.      *)
LEMMA SeenUndisturbed ==
    ASSUME BasicInv, Apart, NEW r \in Runs, NEW q \in Runs \ {r}, SeenNow(q),
           hook'[q] = hook[q], kind' = kind,
           zone' = zone \/ (hook[r].step \in {"write", "call"} /\ zone' = Called(r))
    PROVE  SeenNow(q)'
<1> SUFFICES ASSUME hook[q].step = "write"
             PROVE  Current(q)' = Current(q)
  BY DEF SeenNow
<1>1. Instance(q)' = Instance(q) /\ KindIn(q)' = KindIn(q) /\ ZoneIn(q)' = ZoneIn(q) /\ RecordIn(q)' = RecordIn(q)
  BY DEF Instance, KindIn, ZoneIn, RecordIn
<1>2. CASE zone' = zone
  BY <1>1, <1>2 DEF Current
<1>3. CASE hook[r].step \in {"write", "call"} /\ zone' = Called(r)
  <2>1. hook[q].name \in NamesOf(q) /\ hook[r].name \in NamesOf(r) /\ ZoneIn(q) \in Zones
    BY <1>3, HookFacts
  <2>2. KindIn(q) # "value" /\ (KindIn(q) = "namecheap" => flock[LockIn(q)] = q)
    BY DEF BasicInv, RunOK, OfKind, Locked
  <2>3. CASE ZoneIn(q) # ZoneIn(r)
    <3>1. zone'[ZoneIn(q)] = zone[ZoneIn(q)]
      BY <1>3, <2>1, <2>3, CalledFacts
    <3> QED
      BY <1>1, <3>1 DEF Current
  <2>4. CASE ZoneIn(q) = ZoneIn(r)
    <3>1. kind \in Types
      BY DEF BasicInv, WorldOK
    <3>2. /\ RecordIn(q) # RecordIn(r) \/ (KindIn(q) = "value" /\ KindIn(r) = "value")
          /\ "namecheap" \in {KindIn(q), KindIn(r)} => KindIn(q) = KindIn(r) /\ Unit[q] = Unit[r]
      BY <2>1, <2>4, <3>1 DEF Apart, Instance, KindIn, ZoneIn, RecordIn
    <3>3. KindIn(q) # "namecheap"
      <4> SUFFICES ASSUME KindIn(q) = "namecheap" PROVE FALSE
        OBVIOUS
      <4>1. KindIn(r) = "namecheap" /\ LockIn(r) = LockIn(q)
        BY <2>4, <3>2 DEF LockIn
      <4>2. flock[LockIn(r)] = r
        BY <1>3, <4>1 DEF BasicInv, RunOK, OfKind, Locked
      <4> QED
        BY <2>2, <4>1, <4>2
    <3>4. Pair(r)[1] # RecordIn(q)
      BY <1>3, <2>2, <3>2, HookFacts
    <3>5. {x \in zone'[ZoneIn(q)] : x[1] = RecordIn(q)} = {x \in zone[ZoneIn(q)] : x[1] = RecordIn(q)}
      BY <1>3, <2>4, <3>4, CalledFacts
    <3> QED
      BY <1>1, <3>3, <3>5 DEF Current
  <2> QED
    BY <2>3, <2>4
<1> QED
  BY <1>2, <1>3

(* A step that leaves the zones alone.                                     *)
LEMMA ZonesUndisturbed ==
    ASSUME BasicInv, Apart, ZonesInv, NEW r \in Runs, zone' = zone, kind' = kind, SeenNow(r)',
           \A q \in Runs \ {r} : /\ phase'[q] = phase[q] /\ entry'[q] = entry[q]
                                 /\ todo'[q] = todo[q] /\ hook'[q] = hook[q],
           \A q \in Runs : added'[q] \subseteq added[q],
           leftovers \subseteq leftovers',
           \A z \in Zones : \A x \in zone[z] : x[2] \in Challenges /\ x[2].run = r => ToRemove(x)'
    PROVE  ZonesInv'
<1>1. ASSUME NEW z \in Zones, NEW x \in zone[z] PROVE Placed(z, x) /\ ToRemove(x)'
  <2>1. Placed(z, x) /\ ToRemove(x)
    BY DEF ZonesInv
  <2>2. CASE x[2] \notin Challenges
    BY <2>1, <2>2 DEF ToRemove
  <2>3. CASE x[2] \in Challenges /\ x[2].run = r
    BY <2>1, <2>3
  <2>4. CASE x[2] \in Challenges /\ x[2].run # r
    <3>1. x[2].run \in Runs \ {r}
      BY <2>4 DEF Challenges
    <3> QED
      BY <2>1, <3>1 DEF ToRemove, EntryNames
  <2> QED
    BY <2>2, <2>3, <2>4
<1>2. ASSUME NEW q \in Runs PROVE SeenNow(q)'
  BY SeenUndisturbed DEF ZonesInv
<1>3. AddedStay' /\ OthersStay'
  BY DEF ZonesInv, AddedStay, OthersStay
<1> QED
  BY <1>1, <1>2, <1>3 DEF ZonesInv, Placed

LEMMA StartZones ==
    ASSUME BasicInv, Apart, ZonesInv, NEW r \in Runs, Start(r)
    PROVE  ZonesInv'
<1>1. PICK i \in DOMAIN Entries[r] : /\ entry' = [entry EXCEPT ![r] = i]
                                     /\ todo' = [todo EXCEPT ![r] = AllNames(EntryOf(r, i))]
  BY DEF Start
<1>2. phase[r] = "ready" /\ phase' = [phase EXCEPT ![r] = "auth"] /\ UNCHANGED <<kind, zone, hook, flock, added, leftovers>>
  BY DEF Start, history
<1>3. hook'[r].step # "write"
  BY <1>2 DEF BasicInv, RunOK, ForName
<1>4. \A z \in Zones : \A x \in zone[z] : x[2] \in Challenges => x[2].run # r
  BY <1>2 DEF ZonesInv, ToRemove
<1>5. \A q \in Runs \ {r} : phase'[q] = phase[q] /\ entry'[q] = entry[q] /\ todo'[q] = todo[q] /\ hook'[q] = hook[q]
  BY <1>1, <1>2 DEF BasicInv, WorldOK
<1> QED
  BY <1>2, <1>3, <1>4, <1>5, ZonesUndisturbed DEF SeenNow

LEMMA BeginHookZones ==
    ASSUME BasicInv, Apart, ZonesInv, NEW r \in Runs, BeginHook(r)
    PROVE  ZonesInv'
<1>1. PICK n \in todo[r], st \in {"lock", "call", "read"} :
        /\ hook' = [hook EXCEPT ![r] = [name |-> n, step |-> st, seen |-> {}]]
        /\ added' = IF phase[r] = "cleanup" THEN [added EXCEPT ![r] = @ \ {n}] ELSE added
  <2>1. PICK n \in todo[r] :
          /\ \/ hook' = [hook EXCEPT ![r] = [name |-> n, step |-> "lock", seen |-> {}]]
             \/ hook' = [hook EXCEPT ![r] = [name |-> n, step |-> "call", seen |-> {}]]
             \/ hook' = [hook EXCEPT ![r] = [name |-> n, step |-> "read", seen |-> {}]]
          /\ added' = IF phase[r] = "cleanup" THEN [added EXCEPT ![r] = @ \ {n}] ELSE added
    BY DEF BeginHook
  <2> QED
    BY <2>1
<1>2. UNCHANGED <<kind, zone, phase, entry, todo, flock, leftovers>>
  BY DEF BeginHook
<1>3. hook'[r].step = st /\ \A q \in Runs \ {r} : hook'[q] = hook[q]
  <2>1. hook'[r] = [name |-> n, step |-> st, seen |-> {}] /\ \A q \in Runs \ {r} : hook'[q] = hook[q]
    BY <1>1 DEF BasicInv, WorldOK
  <2> QED
    BY <2>1
<1>4. \A q \in Runs : added'[q] \subseteq added[q]
  BY <1>1 DEF BasicInv, WorldOK
<1>5. \A z \in Zones : \A x \in zone[z] : ToRemove(x)'
  BY <1>2 DEF ZonesInv, ToRemove, EntryNames
<1> QED
  BY <1>2, <1>3, <1>4, <1>5, ZonesUndisturbed DEF SeenNow

LEMMA NotLocatedZones ==
    ASSUME BasicInv, Apart, ZonesInv, NEW r \in Runs, NotLocated(r)
    PROVE  ZonesInv'
<1>1. PICK n \in todo[r] :
        /\ todo' = [todo EXCEPT ![r] = @ \ {n}]
        /\ IF phase[r] = "cleanup"
           THEN /\ added' = [added EXCEPT ![r] = @ \ {n}]
                /\ leftovers' = leftovers \cup {Challenge(r, n)}
           ELSE UNCHANGED history
  BY DEF NotLocated
<1>2. UNCHANGED <<kind, zone, phase, entry, hook, flock>> /\ hook[r].step # "write"
  BY DEF NotLocated, NoHook
<1>3. \A q \in Runs : added'[q] \subseteq added[q] /\ leftovers \subseteq leftovers'
  BY <1>1 DEF BasicInv, WorldOK, history
<1>4. todo'[r] = todo[r] \ {n} /\ \A q \in Runs \ {r} : todo'[q] = todo[q]
  BY <1>1 DEF BasicInv, WorldOK
<1>5. ASSUME NEW z \in Zones, NEW x \in zone[z], x[2] \in Challenges, x[2].run = r PROVE ToRemove(x)'
  <2>1. ToRemove(x)
    BY DEF ZonesInv
  <2>2. x[2] = Challenge(r, x[2].name)
    BY <1>5 DEF Challenges, Challenge
  <2>3. phase[r] = "cleanup" => x[2].name \in todo'[r] \/ x[2] \in leftovers'
    <3>1. phase[r] = "cleanup" => x[2].name \in todo[r] \/ x[2] \in leftovers
      BY <1>5, <2>1 DEF ToRemove
    <3>2. phase[r] = "cleanup" /\ x[2].name = n => x[2] \in leftovers'
      BY <1>1, <2>2
    <3> QED
      BY <1>3, <1>4, <3>1, <3>2
  <2> QED
    BY <1>2, <1>3, <1>5, <2>1, <2>3 DEF ToRemove, EntryNames
<1> QED
  BY <1>2, <1>3, <1>4, <1>5, ZonesUndisturbed DEF SeenNow

LEMMA LockZones ==
    ASSUME BasicInv, Apart, ZonesInv, NEW r \in Runs, Lock(r)
    PROVE  ZonesInv'
<1>1. hook' = [hook EXCEPT ![r].step = "read"] /\ UNCHANGED <<kind, zone, phase, entry, todo, added, leftovers>>
  BY DEF Lock, history
<1>2. hook'[r].step = "read" /\ \A q \in Runs \ {r} : hook'[q] = hook[q]
  BY <1>1 DEF BasicInv, WorldOK, Hooks
<1>3. \A z \in Zones : \A x \in zone[z] : ToRemove(x)'
  BY <1>1 DEF ZonesInv, ToRemove, EntryNames
<1> QED
  BY <1>1, <1>2, <1>3, ZonesUndisturbed DEF SeenNow

(* The end of a hook that carried out its change, or the whole of nothing. *)
LEMMA HookEndsZones ==
    ASSUME BasicInv, Apart, ZonesInv, NEW r \in Runs, hook[r].step # "none",
           NEW ok \in BOOLEAN, HookEnds(r, ok),
           zone' = zone \/ (hook[r].step \in {"write", "call"} /\ zone' = Called(r)),
           ok /\ phase[r] = "auth" => Pair(r) \in zone'[ZoneIn(r)],
           ok /\ phase[r] = "cleanup" => Pair(r) \notin zone'[ZoneIn(r)]
    PROVE  ZonesInv'
<1>1. /\ hook' = [hook EXCEPT ![r] = NoHook] /\ todo' = [todo EXCEPT ![r] = @ \ {hook[r].name}]
      /\ added' = IF ok /\ phase[r] = "auth" THEN [added EXCEPT ![r] = @ \cup {hook[r].name}] ELSE added
      /\ leftovers' = IF ~ok /\ phase[r] = "cleanup"
                      THEN leftovers \cup {Challenge(r, hook[r].name)} ELSE leftovers
      /\ UNCHANGED <<kind, phase, entry>>
  BY DEF HookEnds
<1>2. /\ hook'[r] = NoHook /\ \A q \in Runs \ {r} : hook'[q] = hook[q]
      /\ todo'[r] = todo[r] \ {hook[r].name} /\ \A q \in Runs \ {r} : todo'[q] = todo[q]
      /\ \A q \in Runs : \A n \in added'[q] : n \in added[q] \/ (q = r /\ n = hook[r].name /\ ok /\ phase[r] = "auth")
  BY <1>1 DEF BasicInv, WorldOK
<1>3. /\ \A z \in Zones : \A x \in zone'[z] : x \in zone[z] \/ (x = Pair(r) /\ z = ZoneIn(r) /\ phase[r] = "auth")
      /\ \A z \in Zones : \A x \in zone[z] : x \in zone'[z] \/ (x = Pair(r) /\ phase[r] = "cleanup")
  <2>1. CASE zone' = zone
    BY <2>1
  <2>2. CASE zone' = Called(r)
    <3>1. phase[r] \in {"auth", "cleanup"}
      BY HookFacts
    <3>2. \A z \in Zones : z # ZoneIn(r) => zone'[z] = zone[z]
      BY <2>2, CalledFacts
    <3>3. zone'[ZoneIn(r)] = IF phase[r] = "auth" THEN zone[ZoneIn(r)] \cup {Pair(r)} ELSE zone[ZoneIn(r)] \ {Pair(r)}
      BY <2>2, CalledFacts
    <3> QED
      BY <3>1, <3>2, <3>3
  <2> QED
    BY <2>1, <2>2
<1>4. ASSUME NEW z \in Zones, NEW x \in zone'[z] PROVE Placed(z, x) /\ ToRemove(x)'
  <2>1. CASE x = Pair(r) /\ z = ZoneIn(r) /\ phase[r] = "auth"
    <3>1. x[2].run = r /\ x[2].name = hook[r].name /\ x[1] = RecordIn(r)
      BY <2>1 DEF Pair, Challenge
    <3>2. Placed(z, x)
      BY <2>1, <3>1 DEF Placed, ZoneIn, RecordIn, Instance
    <3>3. hook[r].name \in EntryNames(r)
      BY HookFacts
    <3> QED
      BY <1>1, <2>1, <3>1, <3>2, <3>3 DEF ToRemove, EntryNames
  <2>2. CASE x \in zone[z]
    <3>1. Placed(z, x) /\ ToRemove(x)
      BY <2>2 DEF ZonesInv
    <3>2. ASSUME x[2] \in Challenges, phase[x[2].run] = "cleanup"
          PROVE  x[2].name \in todo'[x[2].run] \/ x[2] \in leftovers'
      <4>1. x[2].name \in todo[x[2].run] \/ x[2] \in leftovers
        BY <3>1, <3>2 DEF ToRemove
      <4>2. x[2].run \in Runs /\ x[2] = Challenge(x[2].run, x[2].name)
        BY <3>2 DEF Challenges, Challenge
      <4>3. CASE x[2].run = r /\ x[2].name = hook[r].name
        <5>1. z = ZoneIn(r) /\ x[1] = RecordIn(r) /\ x[2] = Challenge(r, hook[r].name)
          BY <3>1, <3>2, <4>2, <4>3 DEF Placed, ZoneIn, RecordIn, Instance
        <5>2. x = <<x[1], x[2]>>
          BY <2>2 DEF BasicInv, WorldOK
        <5>3. x = Pair(r)
          BY <5>1, <5>2 DEF Pair
        <5>4. ~ok
          BY <3>2, <4>3, <5>1, <5>3
        <5> QED
          BY <1>1, <3>2, <4>3, <5>1, <5>4
      <4>4. CASE ~(x[2].run = r /\ x[2].name = hook[r].name)
        BY <1>1, <1>2, <4>1, <4>2, <4>4
      <4> QED
        BY <4>3, <4>4
    <3>3. leftovers \subseteq leftovers'
      BY <1>1
    <3> QED
      BY <1>1, <3>1, <3>2, <3>3 DEF ToRemove, EntryNames
  <2> QED
    BY <1>3, <2>1, <2>2
<1>5. ASSUME NEW q \in Runs PROVE SeenNow(q)'
  <2>1. SeenNow(q)
    BY DEF ZonesInv
  <2>2. CASE q = r
    BY <1>2, <2>2 DEF SeenNow, NoHook
  <2>3. CASE q # r
    BY <1>1, <1>2, <2>1, <2>3, SeenUndisturbed
  <2> QED
    BY <2>2, <2>3
<1>6. ASSUME NEW q \in Runs, NEW n \in added'[q]
      PROVE  <<RecordOf[ProviderFor(q, n)][n], Challenge(q, n)>> \in zone'[ZoneOf[ProviderFor(q, n)]]
  <2>1. CASE n \in added[q]
    <3> DEFINE x == <<RecordOf[ProviderFor(q, n)][n], Challenge(q, n)>>
    <3>1. x \in zone[ZoneOf[ProviderFor(q, n)]]
      BY <2>1 DEF ZonesInv, AddedStay
    <3>2. n \in NamesOf(q)
      BY <2>1 DEF BasicInv, RunOK, OwnAdded
    <3>3. ZoneOf[ProviderFor(q, n)] \in Zones
      BY <3>2, ProviderFacts
    <3>4. phase[r] = "cleanup" => x # Pair(r)
      <4>1. phase[r] = "cleanup" => hook[r].name \notin added[r]
        BY DEF BasicInv, RunOK, Removed
      <4>2. x = Pair(r) => q = r /\ n = hook[r].name
        BY DEF Pair, Challenge
      <4> QED
        BY <2>1, <4>1, <4>2
    <3> QED
      BY <1>3, <3>1, <3>3, <3>4
  <2>2. CASE q = r /\ n = hook[r].name /\ ok /\ phase[r] = "auth"
    BY <2>2 DEF Pair, ZoneIn, RecordIn, Instance
  <2> QED
    BY <1>2, <2>1, <2>2
<1>7. AddedStay'
  BY <1>6 DEF AddedStay
<1>8. OthersStay'
  <2>1. ASSUME NEW z \in Zones, NEW x \in Existing[z] PROVE x \in zone'[z]
    <3>1. x \in zone[z]
      BY DEF ZonesInv, OthersStay
    <3>2. x[2] \in Others /\ x[2] \notin Challenges
      BY ExistingAssumption
    <3>3. x # Pair(r)
      BY <3>2, HookFacts
    <3> QED
      BY <1>3, <3>1, <3>3
  <2> QED
    BY <2>1 DEF OthersStay
<1> QED
  BY <1>4, <1>5, <1>7, <1>8 DEF ZonesInv, Placed

LEMMA ReadZones ==
    ASSUME BasicInv, Apart, ZonesInv, NEW r \in Runs, Read(r)
    PROVE  ZonesInv'
<1>1. hook[r].step = "read" /\ zone' = zone
  BY DEF Read
<1>2. CASE NeedsWrite(r, Current(r))
  <2>1. /\ hook' = [hook EXCEPT ![r].step = "write", ![r].seen = Current(r)]
        /\ UNCHANGED <<kind, phase, entry, todo, added, leftovers>>
    BY <1>2 DEF Read, history
  <2>2. PICK h : h = [hook[r] EXCEPT !.step = "write", !.seen = Current(r)]
    OBVIOUS
  <2>3. hook' = [hook EXCEPT ![r] = h]
    BY <2>1, <2>2 DEF BasicInv, WorldOK
  <2>4. hook'[r] = h /\ \A q \in Runs \ {r} : hook'[q] = hook[q]
    BY <2>3 DEF BasicInv, WorldOK
  <2>5. h.name = hook[r].name /\ h.seen = Current(r)
    BY <2>2 DEF BasicInv, WorldOK, Hooks
  <2>6. Current(r)' = Current(r)
    <3>1. hook'[r].name = hook[r].name
      BY <2>4, <2>5
    <3>2. Instance(r)' = Instance(r) /\ KindIn(r)' = KindIn(r) /\ ZoneIn(r)' = ZoneIn(r) /\ RecordIn(r)' = RecordIn(r)
      BY <2>1, <3>1 DEF KindIn, ZoneIn, RecordIn, Instance
    <3> QED
      BY <1>1, <3>2 DEF Current
  <2>7. SeenNow(r)'
    BY <2>4, <2>5, <2>6 DEF SeenNow
  <2>8. \A z \in Zones : \A x \in zone[z] : ToRemove(x)'
    BY <2>1 DEF ZonesInv, ToRemove, EntryNames
  <2> QED
    BY <1>1, <2>1, <2>4, <2>7, <2>8, ZonesUndisturbed
<1>3. CASE ~NeedsWrite(r, Current(r))
  <2>1. HookEnds(r, TRUE)
    BY <1>3 DEF Read
  <2>2. Pair(r) \in zone[ZoneIn(r)] => Pair(r) \in Current(r)
    BY <1>1, HookFacts DEF Current
  <2>3. Current(r) \subseteq zone[ZoneIn(r)]
    BY <1>1, HookFacts
  <2>4. /\ phase[r] = "auth" => Pair(r) \in zone'[ZoneIn(r)]
        /\ phase[r] = "cleanup" => Pair(r) \notin zone'[ZoneIn(r)]
    BY <1>1, <1>3, <2>2, <2>3 DEF NeedsWrite
  <2> QED
    BY <1>1, <2>1, <2>4, HookEndsZones
<1> QED
  BY <1>2, <1>3

LEMMA WritesZones ==
    ASSUME BasicInv, Apart, ZonesInv, NEW r \in Runs, Write(r) \/ Call(r)
    PROVE  ZonesInv'
<1>1. hook[r].step \in {"write", "call"} /\ HookEnds(r, TRUE) /\ zone' = Called(r)
  <2>1. CASE Write(r)
    BY <2>1, WrittenIsCalled DEF Write, ZonesInv
  <2>2. CASE Call(r)
    BY <2>2 DEF Call
  <2> QED
    BY <2>1, <2>2
<1>2. /\ phase[r] = "auth" => Pair(r) \in zone'[ZoneIn(r)]
      /\ phase[r] = "cleanup" => Pair(r) \notin zone'[ZoneIn(r)]
  BY <1>1, CalledFacts
<1> QED
  BY <1>1, <1>2, HookEndsZones

(* Nothing is deleted while values are added, and what is rejected as not  *)
(* found is not there.                                                     *)
LEMMA WriteRejectedZones ==
    ASSUME BasicInv, Apart, ZonesInv, NEW r \in Runs, WriteRejected(r)
    PROVE  ZonesInv'
<1>1. hook[r].step = "write" /\ Rejected(r) /\ zone' = zone
  BY DEF WriteRejected
<1>2. PICK ok \in BOOLEAN : ok = (Current(r) = {})
  OBVIOUS
<1>3. HookEnds(r, ok)
  BY <1>2 DEF WriteRejected
<1>4. phase[r] # "auth"
  BY <1>1 DEF Rejected, NewContents
<1>5. Pair(r) \in zone[ZoneIn(r)] => Pair(r) \in Current(r)
  BY <1>1, HookFacts DEF Current
<1> QED
  BY <1>1, <1>2, <1>3, <1>4, <1>5, HookEndsZones

LEMMA HookFailsZones ==
    ASSUME BasicInv, Apart, ZonesInv, NEW r \in Runs, HookFails(r)
    PROVE  ZonesInv'
<1>1. hook[r].step # "none" /\ HookEnds(r, FALSE)
  BY DEF HookFails
<1>2. zone' = zone \/ (hook[r].step \in {"write", "call"} /\ zone' = Called(r))
  BY WrittenIsCalled DEF HookFails, ZonesInv
<1> QED
  BY <1>1, <1>2, HookEndsZones

LEMMA PhaseZones ==
    ASSUME BasicInv, Apart, ZonesInv, NEW r \in Runs, Validated(r) \/ Finish(r)
    PROVE  ZonesInv'
<1>1. /\ phase[r] \in {"auth", "cleanup"} /\ todo[r] = {} /\ UNCHANGED <<kind, zone, entry, hook, flock, added, leftovers>>
      /\ \/ /\ phase' = [phase EXCEPT ![r] = "cleanup"]
            /\ todo' = [todo EXCEPT ![r] = AllNames(EntryOf(r, entry[r]))]
         \/ /\ phase[r] = "cleanup" /\ phase' = [phase EXCEPT ![r] = "done"]
            /\ UNCHANGED todo
  BY DEF Validated, Finish, history
<1>2. hook'[r].step # "write"
  BY <1>1 DEF BasicInv, RunOK, ForName
<1>3. \A q \in Runs \ {r} : phase'[q] = phase[q] /\ entry'[q] = entry[q] /\ todo'[q] = todo[q] /\ hook'[q] = hook[q]
  BY <1>1 DEF BasicInv, WorldOK
<1>4. \/ phase'[r] = "cleanup" /\ todo'[r] = EntryNames(r)
      \/ phase[r] = "cleanup" /\ phase'[r] = "done" /\ todo'[r] = todo[r]
  BY <1>1 DEF BasicInv, WorldOK, EntryNames
<1>5. ASSUME NEW z \in Zones, NEW x \in zone[z], x[2] \in Challenges, x[2].run = r PROVE ToRemove(x)'
  <2>1. /\ x[2].name \in EntryNames(r)
        /\ phase[r] = "cleanup" => x[2].name \in todo[r] \/ x[2] \in leftovers
    BY <1>1, <1>5 DEF ZonesInv, ToRemove
  <2>2. phase[r] = "cleanup" => x[2] \in leftovers
    BY <1>1, <2>1
  <2> QED
    BY <1>1, <1>4, <1>5, <2>1, <2>2 DEF ToRemove, EntryNames
<1> QED
  BY <1>1, <1>2, <1>3, <1>5, ZonesUndisturbed DEF SeenNow

LEMMA KilledZones ==
    ASSUME BasicInv, Apart, ZonesInv, NEW r \in Runs, Killed(r)
    PROVE  ZonesInv'
<1>1. /\ phase' = [phase EXCEPT ![r] = "done"] /\ hook' = [hook EXCEPT ![r] = NoHook]
      /\ todo' = [todo EXCEPT ![r] = {}] /\ added' = [added EXCEPT ![r] = {}]
      /\ leftovers' = leftovers \cup {c \in Challenges : c.run = r}
      /\ UNCHANGED <<kind, zone, entry>>
  BY DEF Killed, Gone
<1>2. /\ phase'[r] = "done" /\ hook'[r] = NoHook
      /\ \A q \in Runs : added'[q] \subseteq added[q]
      /\ \A q \in Runs \ {r} : phase'[q] = phase[q] /\ entry'[q] = entry[q] /\ todo'[q] = todo[q] /\ hook'[q] = hook[q]
  BY <1>1 DEF BasicInv, WorldOK
<1>3. ASSUME NEW z \in Zones, NEW x \in zone[z], x[2] \in Challenges, x[2].run = r PROVE ToRemove(x)'
  BY <1>1, <1>2, <1>3 DEF ToRemove
<1>4. SeenNow(r)'
  BY <1>2 DEF SeenNow, NoHook
<1> QED
  BY <1>1, <1>2, <1>3, <1>4, ZonesUndisturbed

LEMMA ZonesStep ==
    ASSUME BasicInv, Apart, ZonesInv, [Next]_vars
    PROVE  ZonesInv'
<1>1. CASE UNCHANGED vars
  <2>1. \A r \in Runs : Current(r)' = Current(r)
    BY <1>1 DEF vars, Current, KindIn, ZoneIn, RecordIn, Instance
  <2> QED
    BY <1>1, <2>1 DEF vars, ZonesInv, Placed, ToRemove, EntryNames, SeenNow, AddedStay, OthersStay
<1>2. ASSUME NEW r \in Runs, Progress(r)
      PROVE  ZonesInv'
  BY <1>2, BeginHookZones, NotLocatedZones, LockZones, ReadZones, WritesZones, WriteRejectedZones,
     HookFailsZones, PhaseZones DEF Progress
<1> QED
  BY <1>1, <1>2, StartZones, KilledZones DEF Next

LEMMA Invariant == Spec => []IInv
<1>1. Init => IInv
  BY BasicInit, ZonesInit DEF IInv
<1>2. IInv /\ [Next]_vars => IInv'
  BY BasicStep, ZonesStep DEF IInv
<1> QED
  BY <1>1, <1>2, PTL DEF Spec

(* Runs of certificates that keep out of each other's way can overlap: a   *)
(* value stays from the end of the auth hook to the cleanup hook for it,   *)
(* beside the other value of its record set and the other records of its   *)
(* zone (route53.py:41-48, namecheap.py:9-10).                             *)
THEOREM ChallengesStay == Apart => (Spec => []AddedStay)
<1> SUFFICES ASSUME Apart PROVE Spec => []AddedStay
  OBVIOUS
<1>1. IInv => AddedStay
  BY DEF IInv, ZonesInv
<1> QED
  BY <1>1, Invariant, PTL

(* What was in a zone before is never lost, not even to the instances that *)
(* write a whole zone (namecheap.py:5-11).                                 *)
THEOREM RecordsOfOthersStay == Apart => (Spec => []OthersStay)
<1> SUFFICES ASSUME Apart PROVE Spec => []OthersStay
  OBVIOUS
<1>1. IInv => OthersStay
  BY DEF IInv, ZonesInv
<1> QED
  BY <1>1, Invariant, PTL

(* A run that has ended leaves a value in a zone only when a hook said     *)
(* that it could not remove it, or when the run was killed: no other run   *)
(* writes back what it had read before (namecheap.py:142-170).              *)
THEOREM NoValueComesBack == Apart => (Spec => []CleanedUp)
<1> SUFFICES ASSUME Apart PROVE Spec => []CleanedUp
  OBVIOUS
<1>1. IInv => CleanedUp
  BY DEF IInv, ZonesInv, ToRemove, CleanedUp
<1> QED
  BY <1>1, Invariant, PTL
-----------------------------------------------------------------------------
(* A hook's change of a zone, or none, is one of ChallengeValues.          *)
LEMMA HookIsPromised ==
    ASSUME BasicInv, NEW r \in Runs, UNCHANGED phase,
           zone' = zone \/ (hook[r].step \in {"write", "call"} /\ zone' = Called(r))
    PROVE  Promise!Add(r) \/ Promise!Remove(r) \/ UNCHANGED <<zone, phase>>
<1> SUFFICES ASSUME hook[r].step \in {"write", "call"}, zone' = Called(r)
             PROVE  Promise!Add(r) \/ Promise!Remove(r)
  OBVIOUS
<1> DEFINE t == [zone |-> ZoneIn(r), pair |-> Pair(r)]
<1>1. phase[r] \in {"auth", "cleanup"} /\ hook[r].name \in NamesOf(r)
  BY HookFacts
<1>2. t \in Targets(r)
  BY <1>1 DEF Targets, ZoneIn, Pair, RecordIn, Instance
<1>3. t.zone = ZoneIn(r) /\ t.pair = Pair(r)
  OBVIOUS
<1> HIDE DEF t
<1>4. CASE phase[r] = "auth"
  <2>1. zone' = [zone EXCEPT ![t.zone] = @ \cup {t.pair}]
    BY <1>3, <1>4 DEF Called
  <2> QED
    BY <1>2, <1>4, <2>1 DEF Promise!Add
<1>5. CASE phase[r] = "cleanup"
  <2>1. zone' = [zone EXCEPT ![t.zone] = @ \ {t.pair}]
    BY <1>3, <1>5 DEF Called
  <2> QED
    BY <1>2, <1>5, <2>1 DEF Promise!Remove
<1> QED
  BY <1>1, <1>4, <1>5

LEMMA StepIsPromised ==
    ASSUME Apart, IInv, [Next]_vars
    PROVE  [Promise!Next]_<<zone, phase>>
<1> SUFFICES Promise!Next \/ UNCHANGED <<zone, phase>>
  OBVIOUS
<1>1. BasicInv /\ ZonesInv
  BY DEF IInv
<1>2. CASE UNCHANGED vars
  BY <1>2 DEF vars
<1>3. ASSUME NEW r \in Runs, Start(r) \/ Validated(r) \/ Finish(r) \/ Killed(r) PROVE Promise!Next
  <2>1. Promise!Begins(r) \/ Promise!Validated(r) \/ Promise!Ends(r)
    BY <1>3 DEF Start, Validated, Finish, Killed, Gone, Promise!Begins, Promise!Validated, Promise!Ends, Promise!Goes
  <2> QED
    BY <2>1 DEF Promise!Next
<1>4. ASSUME NEW r \in Runs, BeginHook(r) \/ NotLocated(r) \/ Lock(r) PROVE UNCHANGED <<zone, phase>>
  BY <1>4 DEF BeginHook, NotLocated, Lock
<1>5. ASSUME NEW r \in Runs, Read(r) \/ Write(r) \/ WriteRejected(r) \/ Call(r) \/ HookFails(r)
      PROVE  Promise!Next \/ UNCHANGED <<zone, phase>>
  <2>1. UNCHANGED phase
    BY <1>5 DEF Read, Write, WriteRejected, Call, HookFails, HookEnds
  <2>2. zone' = zone \/ (hook[r].step \in {"write", "call"} /\ zone' = Called(r))
    BY <1>1, <1>5, WrittenIsCalled DEF Read, Write, WriteRejected, Call, HookFails, ZonesInv
  <2> QED
    BY <1>1, <2>1, <2>2, HookIsPromised DEF Promise!Next
<1> QED
  BY <1>2, <1>3, <1>4, <1>5 DEF Next, Progress

(* For runs that keep out of each other's way, reading a record set or a   *)
(* zone and writing it as a whole is as good as adding or removing one     *)
(* value (azure.py:80-107, route53.py:87-109, godaddy.py:95-115,           *)
(* namecheap.py:152-171).                                                  *)
THEOREM WholeWritesAddOne == Apart => (Spec => ValuesOneByOne)
<1> SUFFICES ASSUME Apart PROVE Spec => ValuesOneByOne
  OBVIOUS
<1>1. Init => Promise!Init
  BY DEF Init, Promise!Init
<1>2. IInv /\ [Next]_vars => [Promise!Next]_<<zone, phase>>
  BY StepIsPromised
<1> QED
  BY <1>1, <1>2, Invariant, PTL DEF Spec, ValuesOneByOne, Promise!Spec
=============================================================================
