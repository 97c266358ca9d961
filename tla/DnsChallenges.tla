---------------------------- MODULE DnsChallenges ----------------------------
(***************************************************************************)
(* The DNS-01 challenges of certbot runs: dns_dispatcher.py as certbot's   *)
(* auth and cleanup hook, the choice of the provider instance for a name   *)
(* (cert_naming.py) and the providers' ways of adding one TXT value to a   *)
(* record that others use too, one API call at a time.                     *)
(*                                                                         *)
(* Abstracted: credentials, the search for the zone, the time to           *)
(* propagate, the reason of a failed call, what the CA answers.            *)
(***************************************************************************)
EXTENDS Naturals, Sequences

CONSTANTS
    Runs,       \* runs of certbot, each for one entry of one configuration
    Names,      \* names a certificate can have
    Records,    \* names of TXT records: challenge names and alias targets
    Providers,  \* instances under dns_providers
    Zones,      \* zones the instances write to
    Others,     \* values that are not challenges of these runs
    Existing,   \* per zone: the records and values it holds at first
    Entries,    \* per run: the domain entries of its configuration, in order
    EndsWith,   \* pairs of names, the first ending with the second
    Types,      \* which instances can have which type: functions to Kinds
    ZoneOf,     \* per instance: the zone
    RecordOf,   \* per instance and name: the TXT record (an alias maps names)
    Serves,     \* per zone: the records that lie in it
    Unit,       \* per run: the systemd unit, with a /tmp of its own
    None

Units == {Unit[r] : r \in Runs}
Kinds == {"azure", "route53", "godaddy", "namecheap", "value"}

(* An entry: extra maps its additional names to provider instances.        *)
EntryRecords == [name : Names, provider : Providers, extra : UNION {[S -> Providers] : S \in SUBSET Names}]
EntryOf(r, i) == Entries[r][i]
AllNames(e) == {e.name} \cup DOMAIN e.extra

(* The value of a challenge is new in every run.                           *)
Challenges == [run : Runs, name : Names]
Values     == Challenges \cup Others
Challenge(r, n) == [run |-> r, name |-> n]

ASSUME TypesAssumption   == Types \subseteq [Providers -> Kinds]
ASSUME ZonesAssumption   == ZoneOf \in [Providers -> Zones] /\ Serves \in [Zones -> SUBSET Records]
ASSUME RecordsAssumption == RecordOf \in [Providers -> [Names -> Records]]
ASSUME ExistingAssumption == Existing \in [Zones -> SUBSET (Records \X Others)] /\ Others \cap Challenges = {}
ASSUME EntriesAssumption  == Entries \in [Runs -> Seq(EntryRecords)]
ASSUME NoneAssumption     == None \notin Runs \cup Names

VARIABLES
    kind,    \* per instance: how its type changes a record; never changes
    zone,    \* the TXT records of each zone: pairs of a record and a value
    phase,   \* what certbot does in a run
    entry,   \* the entry a run is for
    todo,    \* the names whose hook is still to be run in this phase
    hook,    \* the name the running hook is for, its next call, what it read
    flock    \* who holds the lock file of a zone in the /tmp of a unit

VARIABLES      \* history
    added,     \* per run: names whose value was added, and not yet removed
    leftovers  \* values whose removal failed or was never tried

history == <<added, leftovers>>
vars == <<kind, zone, phase, entry, todo, hook, flock, added, leftovers>>

Steps  == {"none", "lock", "read", "write", "call"}
NoHook == [name |-> None, step |-> "none", seen |-> {}]

TypeOK ==
    /\ kind \in Types
    /\ zone \in [Zones -> SUBSET (Records \X Values)]
    /\ phase \in [Runs -> {"ready", "auth", "cleanup", "done"}]
    /\ entry \in [Runs -> Nat]
    /\ \A r \in Runs : phase[r] \in {"auth", "cleanup"} => entry[r] \in DOMAIN Entries[r]
    /\ todo \in [Runs -> SUBSET Names]
    /\ hook \in [Runs -> [name : Names \cup {None}, step : Steps, seen : SUBSET (Records \X Values)]]
    /\ \A r \in Runs : hook[r].step # "none" => hook[r].name \in todo[r] /\ phase[r] \in {"auth", "cleanup"}
    /\ flock \in [Units \X Zones -> Runs \cup {None}]
    /\ added \in [Runs -> SUBSET Names]
    /\ leftovers \subseteq Challenges

Init ==
    /\ kind \in Types
    /\ zone = Existing
    /\ phase = [r \in Runs |-> "ready"]
    /\ entry = [r \in Runs |-> 0]
    /\ todo = [r \in Runs |-> {}]
    /\ hook = [r \in Runs |-> NoHook]
    /\ flock = [l \in Units \X Zones |-> None]
    /\ added = [r \in Runs |-> {}]
    /\ leftovers = {}
-----------------------------------------------------------------------------
(* find_domain_config: the first entry that has the name, or with whose    *)
(* name it ends.                                                           *)
Matches(e, n) == n \in AllNames(e) \/ <<n, e.name>> \in EndsWith

FindDomainConfig(r, n) ==
    LET found == {i \in DOMAIN Entries[r] : Matches(EntryOf(r, i), n)}
    IN  EntryOf(r, CHOOSE i \in found : \A j \in found : i <= j)

ResolveProvider(e, n) == IF n \in DOMAIN e.extra THEN e.extra[n] ELSE e.provider

ProviderFor(r, n) == ResolveProvider(FindDomainConfig(r, n), n)

(* Runs that keep out of each other's way: no two change one record, and   *)
(* those that write a whole zone have one lock file.                       *)
NamesOf(r) == UNION {AllNames(EntryOf(r, i)) : i \in DOMAIN Entries[r]}

Apart ==
    \A k \in Types : \A q, r \in Runs : \A n \in NamesOf(q), m \in NamesOf(r) :
        LET p == ProviderFor(q, n)
            i == ProviderFor(r, m)
        IN  q # r /\ ZoneOf[p] = ZoneOf[i] =>
                /\ RecordOf[p][n] # RecordOf[i][m] \/ (k[p] = "value" /\ k[i] = "value")
                /\ "namecheap" \in {k[p], k[i]} => k[p] = k[i] /\ Unit[q] = Unit[r]

Instance(r) == ProviderFor(r, hook[r].name)
KindIn(r)   == kind[Instance(r)]
ZoneIn(r)   == ZoneOf[Instance(r)]
RecordIn(r) == RecordOf[Instance(r)][hook[r].name]
LockIn(r)   == <<Unit[r], ZoneIn(r)>>
Pair(r)     == <<RecordIn(r), Challenge(r, hook[r].name)>>

(* What one read returns and one write replaces: Namecheap has only the    *)
(* whole zone, the others the record set.                                  *)
Current(r) ==
    LET z == zone[ZoneIn(r)]
    IN  IF KindIn(r) = "namecheap" THEN z ELSE {x \in z : x[1] = RecordIn(r)}
-----------------------------------------------------------------------------
Start(r) ==
    /\ phase[r] = "ready"
    /\ \E i \in DOMAIN Entries[r] :
        /\ entry' = [entry EXCEPT ![r] = i]
        /\ todo' = [todo EXCEPT ![r] = AllNames(EntryOf(r, i))]
    /\ phase' = [phase EXCEPT ![r] = "auth"]
    /\ UNCHANGED <<kind, zone, hook, flock, history>>

(* certbot runs the hook for a name, and the provider finds the zone.      *)
BeginHook(r) ==
    /\ phase[r] \in {"auth", "cleanup"} /\ hook[r] = NoHook
    /\ \E n \in todo[r] :
        LET p == ProviderFor(r, n)
            first == CASE kind[p] = "namecheap" -> "lock"
                       [] kind[p] = "value"     -> "call"
                       [] OTHER                 -> "read"
        IN  /\ RecordOf[p][n] \in Serves[ZoneOf[p]]
            /\ hook' = [hook EXCEPT ![r] = [name |-> n, step |-> first, seen |-> {}]]
            /\ added' = IF phase[r] = "cleanup" THEN [added EXCEPT ![r] = @ \ {n}] ELSE added
    /\ UNCHANGED <<kind, zone, phase, entry, todo, flock, leftovers>>

(* The search for the zone fails: the API does not answer, or the zone of  *)
(* the instance does not hold the record.                                  *)
NotLocated(r) ==
    /\ phase[r] \in {"auth", "cleanup"} /\ hook[r] = NoHook
    /\ \E n \in todo[r] :
        /\ todo' = [todo EXCEPT ![r] = @ \ {n}]
        /\ IF phase[r] = "cleanup"
           THEN /\ added' = [added EXCEPT ![r] = @ \ {n}]
                /\ leftovers' = leftovers \cup {Challenge(r, n)}
           ELSE UNCHANGED history
    /\ UNCHANGED <<kind, zone, phase, entry, hook, flock>>

(* The hook's process exits, which releases the lock file it may hold.     *)
Released(r) == [l \in Units \X Zones |-> IF flock[l] = r THEN None ELSE flock[l]]

HookEnds(r, ok) ==
    /\ hook' = [hook EXCEPT ![r] = NoHook]
    /\ todo' = [todo EXCEPT ![r] = @ \ {hook[r].name}]
    /\ flock' = Released(r)
    /\ added' = IF ok /\ phase[r] = "auth" THEN [added EXCEPT ![r] = @ \cup {hook[r].name}] ELSE added
    /\ leftovers' = IF ~ok /\ phase[r] = "cleanup"
                    THEN leftovers \cup {Challenge(r, hook[r].name)} ELSE leftovers
    /\ UNCHANGED <<kind, phase, entry>>

(* A mutant of Lock: the lock file is opened but not locked.               *)
LockNothing(r) ==
    /\ hook[r].step = "lock"
    /\ hook' = [hook EXCEPT ![r].step = "read"]
    /\ UNCHANGED <<kind, zone, phase, entry, todo, flock, history>>

(* fcntl.flock on a file in tempfile.gettempdir().                         *)
Lock(r) ==
    /\ hook[r].step = "lock"
    /\ flock[LockIn(r)] = None
    /\ flock' = [flock EXCEPT ![LockIn(r)] = r]
    /\ hook' = [hook EXCEPT ![r].step = "read"]
    /\ UNCHANGED <<kind, zone, phase, entry, todo, history>>

(* After the read: is there a change to send?                              *)
NeedsWrite(r, seen) ==
    IF phase[r] = "auth" THEN Pair(r) \notin seen
    ELSE \/ Pair(r) \in seen
         \/ KindIn(r) = "azure"
         \/ KindIn(r) = "route53" /\ seen = {}

Read(r) ==
    /\ hook[r].step = "read"
    /\ LET seen == Current(r) IN
        IF NeedsWrite(r, seen)
        THEN /\ hook' = [hook EXCEPT ![r].step = "write", ![r].seen = seen]
             /\ UNCHANGED <<kind, phase, entry, todo, flock, history>>
        ELSE HookEnds(r, TRUE)
    /\ UNCHANGED zone

(* A mutant of NewContents: the record set is replaced by the new value.   *)
NewContentsAlone(r) ==
    IF phase[r] = "auth" THEN {Pair(r)} ELSE hook[r].seen \ {Pair(r)}

(* What was read with the value added or removed, written as a whole.      *)
NewContents(r) ==
    IF phase[r] = "auth" THEN hook[r].seen \cup {Pair(r)} ELSE hook[r].seen \ {Pair(r)}

Written(r) == [zone EXCEPT ![ZoneIn(r)] = (@ \ Current(r)) \cup NewContents(r)]

(* Route 53 deletes a record set only when it is told the values it has;   *)
(* "not found" is no error.                                                *)
Rejected(r) ==
    /\ KindIn(r) = "route53" /\ NewContents(r) = {}
    /\ Current(r) # IF hook[r].seen = {} THEN {Pair(r)} ELSE hook[r].seen

Write(r) ==
    /\ hook[r].step = "write"
    /\ ~Rejected(r)
    /\ zone' = Written(r)
    /\ HookEnds(r, TRUE)

WriteRejected(r) ==
    /\ hook[r].step = "write"
    /\ Rejected(r)
    /\ HookEnds(r, Current(r) = {})
    /\ UNCHANGED zone

(* Cloudflare, RFC 2136 and a webhook are given the one value.             *)
Called(r) == [zone EXCEPT ![ZoneIn(r)] = IF phase[r] = "auth" THEN @ \cup {Pair(r)} ELSE @ \ {Pair(r)}]

Call(r) ==
    /\ hook[r].step = "call"
    /\ zone' = Called(r)
    /\ HookEnds(r, TRUE)

(* A call raises, for an answer that never came possibly after it was      *)
(* carried out; dns_dispatcher.py exits with 1. Cloudflare's removal does  *)
(* not look at the answers: what it leaves behind counts as failed, too.   *)
HookFails(r) ==
    /\ hook[r].step \in {"read", "write", "call"}
    /\ HookEnds(r, FALSE)
    /\ \/ UNCHANGED zone
       \/ hook[r].step = "write" /\ ~Rejected(r) /\ zone' = Written(r)
       \/ hook[r].step = "call" /\ zone' = Called(r)
-----------------------------------------------------------------------------
(* The CA has looked at the records; certbot now runs the cleanup hooks,   *)
(* whatever it answered.                                                   *)
Validated(r) ==
    /\ phase[r] = "auth" /\ todo[r] = {}
    /\ phase' = [phase EXCEPT ![r] = "cleanup"]
    /\ todo' = [todo EXCEPT ![r] = AllNames(EntryOf(r, entry[r]))]
    /\ UNCHANGED <<kind, zone, entry, hook, flock, history>>

Finish(r) ==
    /\ phase[r] = "cleanup" /\ todo[r] = {}
    /\ phase' = [phase EXCEPT ![r] = "done"]
    /\ UNCHANGED <<kind, zone, entry, todo, hook, flock, history>>

(* A mutant of Gone: the hook outlives certbot.                            *)
GoneButHook(r) ==
    /\ phase[r] \in {"auth", "cleanup"}
    /\ phase' = [phase EXCEPT ![r] = "done"]
    /\ todo' = [todo EXCEPT ![r] = {}]
    /\ added' = [added EXCEPT ![r] = {}]
    /\ leftovers' = leftovers \cup {c \in Challenges : c.run = r}
    /\ UNCHANGED <<kind, zone, entry, hook>>

Gone(r) ==
    /\ phase[r] \in {"auth", "cleanup"}
    /\ phase' = [phase EXCEPT ![r] = "done"]
    /\ hook' = [hook EXCEPT ![r] = NoHook]
    /\ todo' = [todo EXCEPT ![r] = {}]
    /\ added' = [added EXCEPT ![r] = {}]
    /\ leftovers' = leftovers \cup {c \in Challenges : c.run = r}
    /\ UNCHANGED <<kind, zone, entry>>

(* A mutant of Killed: the lock is a file that somebody has to remove.     *)
KilledLocked(r) == Gone(r) /\ UNCHANGED flock

(* The unit is stopped: certbot and its hook are killed.                   *)
Killed(r) == Gone(r) /\ flock' = Released(r)
-----------------------------------------------------------------------------
Progress(r) ==
    \/ BeginHook(r) \/ NotLocated(r) \/ Lock(r) \/ Read(r) \/ Write(r) \/ WriteRejected(r)
    \/ Call(r) \/ HookFails(r) \/ Validated(r) \/ Finish(r)

Next == \E r \in Runs : Start(r) \/ Progress(r) \/ Killed(r)

Spec == Init /\ [][Next]_vars

(* Every call returns or times out.                                        *)
FairSpec == Spec /\ \A r \in Runs : WF_vars(Progress(r))
-----------------------------------------------------------------------------
(* The value a hook added stays until the cleanup hook for it: the wildcard*)
(* and the apex need both values at once (route53.py:41-48), and two       *)
(* certificates renewing at once do not overwrite each other               *)
(* (namecheap.py:9-10).                                                    *)
AddedStay ==
    \A r \in Runs : \A n \in added[r] :
        LET p == ProviderFor(r, n) IN <<RecordOf[p][n], Challenge(r, n)>> \in zone[ZoneOf[p]]

(* namecheap.py:5-11, "Existing records are sent back unchanged".          *)
OthersStay == \A z \in Zones : Existing[z] \subseteq zone[z]

(* A run that has ended leaves no value behind, unless its removal failed  *)
(* or the run was killed: no other run writes it back.                     *)
CleanedUp ==
    \A z \in Zones : \A x \in zone[z] :
        \A r \in Runs : phase[r] = "done" /\ x[2] \in Challenges /\ x[2].run = r => x[2] \in leftovers

(* A hook that reads a record set or a zone and writes it as a whole is as *)
(* good as one that is given the value: what add_txt_record and            *)
(* remove_txt_record say they do (dns_providers/base.py:13-19).            *)
Targets(r) ==
    {LET p == ProviderFor(r, n) IN [zone |-> ZoneOf[p], pair |-> <<RecordOf[p][n], Challenge(r, n)>>] : n \in NamesOf(r)}

Promise == INSTANCE ChallengeValues WITH txt <- zone

ValuesOneByOne == Promise!Spec

(* No run waits for ever for a lock file, whoever was killed holding it.   *)
RunsEnd == \A r \in Runs : phase[r] = "auth" ~> phase[r] = "done"
=============================================================================
