--------------------------- MODULE MCDnsChallenges ---------------------------
(* Instances of DnsChallenges: a wildcard and its apex in one record set,  *)
(* and another customer with an alias into the same zone, which is hosted  *)
(* at each of the providers that write whole record sets.                  *)
EXTENDS DnsChallenges, TLC

CONSTANTS apex, wild, shop, cloud, odd,    \* names
          recA, recT, recC, recH,          \* records
          main, delegate, direct,          \* provider instances
          zN, zC,                          \* zones
          r1, r2,                          \* runs
          console,                         \* the unit
          www                              \* the value of another record

MCServes   == (zN :> {recA, recT, recH}) @@ (zC :> {recC})
MCZoneOf   == (main :> zN) @@ (delegate :> zN) @@ (direct :> zC)
MCExisting == (zN :> {<<recH, www>>}) @@ (zC :> {})

(* The alias maps its names to records of the zone it delegates to.        *)
MCRecordOf == [p \in Providers |->
    (apex :> recA) @@ (wild :> recA) @@ (shop :> IF p = delegate THEN recT ELSE recC)
        @@ (cloud :> recC) @@ (odd :> recH)]

(* The instance for odd is the one of another zone.                        *)
Pairwise  == [name |-> apex, provider |-> main, extra |-> (wild :> main)]
Delegated == [name |-> shop, provider |-> delegate, extra |-> (cloud :> direct)]
Misplaced == [name |-> odd, provider |-> direct, extra |-> <<>>]
MCEntries == (r1 :> <<Pairwise>>) @@ (r2 :> <<Delegated, Misplaced>>)

MCTypes == {(main :> t) @@ (delegate :> t) @@ (direct :> "value") :
            t \in {"azure", "route53", "godaddy", "namecheap"}}

OneUnit  == [r \in Runs |-> console]

(* The instance is as the theorems of DnsChallengesProofs ask.             *)
ASSUME InstanceAssumption == Apart
=============================================================================
