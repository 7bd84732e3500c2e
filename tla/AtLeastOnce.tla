------------------------------ MODULE AtLeastOnce ------------------------------
(***************************************************************************)
(* What pg_noty promises for each event the trigger records: it is owed to *)
(* its destination until the destination has accepted it or it is set      *)
(* aside as a dead letter; an operator may make a dead letter owed again;  *)
(* retention may forget only what is no longer owed.                       *)
(***************************************************************************)
CONSTANT Events

VARIABLES
    fate,             \* what became of each event
    accepted          \* events some request of which got a 2xx answer

States == {"new", "owed", "delivered", "dead", "forgotten"}

AInit ==
    /\ fate = [e \in Events |-> "new"]
    /\ accepted = {}

Produce(e) ==
    /\ fate[e] = "new"
    /\ fate' = [fate EXCEPT ![e] = "owed"]
    /\ UNCHANGED accepted

\* Requests may be repeated, and a repeated request may be accepted again.
Accept(e) ==
    /\ fate[e] # "new"
    /\ accepted' = accepted \cup {e}
    /\ UNCHANGED fate

Deliver(e) ==
    /\ fate[e] = "owed" /\ e \in accepted
    /\ fate' = [fate EXCEPT ![e] = "delivered"]
    /\ UNCHANGED accepted

Bury(e) ==
    /\ fate[e] = "owed"
    /\ fate' = [fate EXCEPT ![e] = "dead"]
    /\ UNCHANGED accepted

Requeue(S) ==
    /\ \A e \in S : fate[e] = "dead"
    /\ fate' = [e \in Events |-> IF e \in S THEN "owed" ELSE fate[e]]
    /\ UNCHANGED accepted

Forget(S) ==
    /\ \A e \in S : fate[e] \in {"delivered", "dead"}
    /\ fate' = [e \in Events |-> IF e \in S THEN "forgotten" ELSE fate[e]]
    /\ UNCHANGED accepted

ANext ==
    \/ \E e \in Events : Produce(e) \/ Accept(e) \/ Deliver(e) \/ Bury(e)
    \/ \E S \in SUBSET Events : Requeue(S) \/ Forget(S)

ASpec == AInit /\ [][ANext]_<<fate, accepted>>

===============================================================================
