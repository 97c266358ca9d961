---------------------------- MODULE MCRenewalRun -----------------------------
(* Instances of RenewalRun for TLC.  A unit of time stands for half a gap  *)
(* between alerts in the first instance, for twenty minutes in the second. *)
EXTENDS RenewalRun

CONSTANTS r1, r2, s1, c1, c2, n1, n2

UselessFirst == <<c2, c1>>
OneCustomer  == <<c1>>

HoursBetween == [e \in {"dns_failure", "renewal_failed", "deploy_failed", "renewal_success", "deploy_success"} |->
                  IF e \in {"renewal_success", "deploy_success"} THEN 0 ELSE 2]

FailuresOnly == {"renewal_failed", "cert_expiring"}
ExpiryOnly   == {"cert_expiring"}

AllOn == {[c \in Customers |-> "on"]}

(* Both customers want alerts; or c1 wants none, and the file of c2 cannot *)
(* be read, or has no address to renew with, or ends the scan.             *)
OnOrUseless == AllOn \cup
    {[c \in Customers |-> IF c = c1 THEN "off" ELSE why] : why \in {"unreadable", "no_email", "broken"}}
OneEntry == [c \in Customers |-> IF c = c1 THEN {n1} ELSE {}]

(* A certificate that expires in three units, or in two days.              *)
SomeExpire == {[c \in Customers |-> [n \in Names |-> 3]]}
LastDay    == {[c \in Customers |-> [n \in Names |-> 144]]}
=============================================================================
