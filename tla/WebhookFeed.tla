---------------------------- MODULE WebhookFeed ----------------------------
(* What the webhooks promise: a snapshot is announced only once it is in the *)
(* database, at most once, and never after a later one.                      *)
EXTENDS Naturals

CONSTANT Ids                  \* snapshot IDs

VARIABLES stored, announced   \* committed snapshots, and those announced

Init == stored = {} /\ announced = {}

Store ==
    /\ stored' \in SUBSET Ids
    /\ stored \subseteq stored'
    /\ UNCHANGED announced

Announce(id) ==
    /\ id \in stored
    /\ \A a \in announced : a < id
    /\ announced' = announced \cup {id}
    /\ UNCHANGED stored

Next == Store \/ \E id \in Ids : Announce(id)

Spec == Init /\ [][Next]_<<stored, announced>>
=============================================================================
