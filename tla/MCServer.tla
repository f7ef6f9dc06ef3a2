------------------------------ MODULE MCServer ------------------------------
(* Webhooks and Connections, each on a small instance.  They share no state: *)
(* part says which one a behaviour is about, and only that one is fair.      *)
EXTENDS Webhooks, Connections

VARIABLE part

MCInit == part \in {"webhooks", "connections"} /\ Init /\ PoolInit

MCNext ==
    \/ part = "webhooks" /\ Next /\ UNCHANGED <<connVars, part>>
    \/ part = "connections" /\ PoolNext /\ UNCHANGED <<vars, part>>

MCFairness ==
    \/ part = "webhooks" /\ Fairness
    \/ part = "connections" /\ PoolFairness

MCSpec == MCInit /\ [][MCNext]_<<part, vars, connVars>> /\ MCFairness

\* Both keep their types.
TypesOK == TypeOK /\ PoolTypeOK
=============================================================================
