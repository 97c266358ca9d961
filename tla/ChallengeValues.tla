--------------------------- MODULE ChallengeValues ---------------------------
(***************************************************************************)
(* What dns_dispatcher.py and the providers promise about TXT records: a   *)
(* hook adds or removes the one value of a challenge of its run, at once,  *)
(* where it belongs, and leaves everything else in the zones as it is at   *)
(* that moment; values are added before the CA looks and removed after.    *)
(***************************************************************************)
CONSTANTS Runs,
          Targets(_),   \* the values of a run and the zones they belong in
          Existing      \* per zone: the records and values it holds at first

VARIABLES txt,    \* per zone: pairs of a record and a value
          phase   \* what certbot does in a run

Init == txt = Existing /\ phase = [r \in Runs |-> "ready"]

Goes(r, next) == phase' = [phase EXCEPT ![r] = next] /\ UNCHANGED txt

Begins(r)    == phase[r] = "ready" /\ Goes(r, "auth")
Validated(r) == phase[r] = "auth" /\ Goes(r, "cleanup")
Ends(r)      == phase[r] \in {"auth", "cleanup"} /\ Goes(r, "done")

Add(r) ==
    /\ phase[r] = "auth"
    /\ \E t \in Targets(r) : txt' = [txt EXCEPT ![t.zone] = @ \cup {t.pair}]
    /\ UNCHANGED phase

Remove(r) ==
    /\ phase[r] = "cleanup"
    /\ \E t \in Targets(r) : txt' = [txt EXCEPT ![t.zone] = @ \ {t.pair}]
    /\ UNCHANGED phase

Next == \E r \in Runs : Begins(r) \/ Add(r) \/ Validated(r) \/ Remove(r) \/ Ends(r)

Spec == Init /\ [][Next]_<<txt, phase>>
=============================================================================
