----------------------------- MODULE Webhooks -----------------------------
(***************************************************************************)
(* Announcing snapshots to the configured webhooks (api/middleware.rs).    *)
(* Every modifying request runs in one database transaction, which may     *)
(* insert snapshots; their IDs are drawn from a sequence when they are     *)
(* inserted and become visible when the transaction commits.  After the    *)
(* response the middleware loads the snapshots above LAST_POSTED_SNAPSHOT, *)
(* a process-wide atomic, and claims each one by compare-and-exchange.     *)
(*                                                                         *)
(* The middleware wraps the TimeoutLayer: when a request times out, the    *)
(* middleware goes on while the transaction, a blocking task, is still     *)
(* running.  When the client disconnects, the middleware is dropped.       *)
(***************************************************************************)
EXTENDS Naturals

CONSTANTS
    Reqs,    \* concurrent modifying requests, and admin tasks
    MaxId    \* bound: the snapshots a behaviour may insert

ASSUME BoundAssumption == MaxId \in Nat

Ids == 1..MaxId

\* LAST_POSTED_SNAPSHOT before it is initialised (i64::MAX).
NotYet == MaxId + 1

VARIABLES
    up,         \* the server process is running
    next,       \* next value of the snapshot ID sequence
    stored,     \* committed snapshots
    last,       \* LAST_POSTED_SNAPSHOT
    tx,         \* whose transaction is open, if any
    drawn,      \* IDs the open transaction has inserted
    pc,         \* where each request is
    floor,      \* value of LAST_POSTED_SNAPSHOT the middleware's query uses
    batch,      \* snapshots the middleware has yet to go through
    peek,       \* value compare_exchange expects
    announced,  \* snapshots claimed: a task per webhook sends each of them, once
    owed        \* history: snapshots a request had committed when it responded

dbVars     == <<next, stored, tx, drawn>>
hookVars   == <<floor, batch, peek>>
vars       == <<up, dbVars, last, pc, hookVars, announced, owed>>

TypeOK ==
    /\ up \in BOOLEAN
    /\ next \in 1..MaxId + 1
    /\ stored \subseteq Ids
    /\ last \in IF up THEN 0..MaxId ELSE {NotYet}
    /\ tx \in [Reqs -> {"none", "request", "admin"}]
    /\ drawn \in [Reqs -> SUBSET Ids]
    /\ pc \in [Reqs -> {"idle", "handling", "after", "query", "posting", "claim"}]
    /\ floor \in [Reqs -> 0..NotYet]
    /\ batch \in [Reqs -> SUBSET Ids]
    /\ peek \in [Reqs -> 0..NotYet]
    /\ announced \subseteq Ids
    /\ owed \in [Reqs -> SUBSET Ids]

Init ==
    /\ up = FALSE
    /\ next = 1
    /\ stored = {}
    /\ last = NotYet
    /\ tx = [r \in Reqs |-> "none"]
    /\ drawn = [r \in Reqs |-> {}]
    /\ pc = [r \in Reqs |-> "idle"]
    /\ floor = [r \in Reqs |-> 0]
    /\ batch = [r \in Reqs |-> {}]
    /\ peek = [r \in Reqs |-> 0]
    /\ announced = {}
    /\ owed = [r \in Reqs |-> {}]

-----------------------------------------------------------------------------
(* The process.                                                             *)

\* Mutant: the counter is not initialised.
StartUninitialised ==
    /\ ~up
    /\ up' = TRUE
    /\ UNCHANGED <<dbVars, last, pc, hookVars, announced, owed>>

\* initialize_snapshot_counter: the highest ID in the table, 0 if there is none.
Start ==
    /\ ~up
    /\ up' = TRUE
    /\ \E id \in stored \cup {0} :
          last' = id /\ \A other \in stored : other <= id
    /\ UNCHANGED <<dbVars, pc, hookVars, announced, owed>>

\* The server stops, however it does.  An admin task is a process of its own.
Stop ==
    /\ up
    /\ up' = FALSE
    /\ last' = NotYet
    /\ tx' = [r \in Reqs |-> IF tx[r] = "request" THEN "none" ELSE tx[r]]
    /\ drawn' = [r \in Reqs |-> IF tx[r] = "request" THEN {} ELSE drawn[r]]
    /\ pc' = [r \in Reqs |-> "idle"]
    /\ floor' = [r \in Reqs |-> 0]
    /\ batch' = [r \in Reqs |-> {}]
    /\ peek' = [r \in Reqs |-> 0]
    /\ owed' = [r \in Reqs |-> {}]
    /\ UNCHANGED <<next, stored, announced>>

-----------------------------------------------------------------------------
(* Transactions that insert snapshots.                                      *)

Begin(r) ==
    /\ up /\ pc[r] = "idle" /\ tx[r] = "none"
    /\ pc' = [pc EXCEPT ![r] = "handling"]
    /\ tx' = [tx EXCEPT ![r] = "request"]
    /\ UNCHANGED <<up, next, stored, drawn, last, hookVars, announced, owed>>

\* Admin tasks merge posts, with a snapshot and without the middleware.
BeginAdmin(r) ==
    /\ pc[r] = "idle" /\ tx[r] = "none"
    /\ tx' = [tx EXCEPT ![r] = "admin"]
    /\ UNCHANGED <<up, next, stored, drawn, last, pc, hookVars, announced, owed>>

\* NewSnapshot::insert
Insert(r) ==
    /\ tx[r] # "none"
    /\ next <= MaxId
    /\ drawn' = [drawn EXCEPT ![r] = @ \cup {next}]
    /\ next' = next + 1
    /\ UNCHANGED <<up, stored, tx, last, pc, hookVars, announced, owed>>

\* The transaction ends; if the request has not timed out, it responds.
EndTx(r, committed) ==
    /\ tx[r] # "none"
    /\ stored' = stored \cup committed
    /\ tx' = [tx EXCEPT ![r] = "none"]
    /\ drawn' = [drawn EXCEPT ![r] = {}]
    /\ IF pc[r] = "handling"
       THEN pc' = [pc EXCEPT ![r] = "after"] /\ owed' = [owed EXCEPT ![r] = committed]
       ELSE UNCHANGED <<pc, owed>>
    /\ UNCHANGED <<up, next, last, hookVars, announced>>

Commit(r)   == EndTx(r, drawn[r])
Rollback(r) == EndTx(r, {})

TimeOut(r) ==
    /\ pc[r] = "handling"
    /\ pc' = [pc EXCEPT ![r] = "after"]
    /\ UNCHANGED <<up, dbVars, last, hookVars, announced, owed>>

-----------------------------------------------------------------------------
(* The middleware: post_to_webhooks.                                        *)

\* The middleware is over, or dropped.
Leave(r) ==
    /\ pc' = [pc EXCEPT ![r] = "idle"]
    /\ floor' = [floor EXCEPT ![r] = 0]
    /\ batch' = [batch EXCEPT ![r] = {}]
    /\ peek' = [peek EXCEPT ![r] = 0]
    /\ owed' = [owed EXCEPT ![r] = {}]

\* Dropped at an await, or the query fails.
Abandon(r) ==
    /\ pc[r] \in {"handling", "after", "query"}
    /\ Leave(r)
    /\ UNCHANGED <<up, dbVars, last, announced>>

ReadLast(r) ==
    /\ pc[r] = "after"
    /\ floor' = [floor EXCEPT ![r] = last]
    /\ pc' = [pc EXCEPT ![r] = "query"]
    /\ UNCHANGED <<up, dbVars, last, batch, peek, announced, owed>>

Query(r) ==
    /\ pc[r] = "query"
    /\ batch' = [batch EXCEPT ![r] = {id \in stored : id > floor[r]}]
    /\ pc' = [pc EXCEPT ![r] = "posting"]
    /\ UNCHANGED <<up, dbVars, last, floor, peek, announced, owed>>

\* The snapshot the loop of post_to_webhooks is at: they are ordered by ID.
Current(r, id) == id \in batch[r] /\ \A other \in batch[r] : id <= other

\* Mutant: the loop ends at the first snapshot that is skipped.
PeekStops(r, id) ==
    /\ pc[r] = "posting"
    /\ Current(r, id)
    /\ peek' = [peek EXCEPT ![r] = last]
    /\ IF id <= last
       THEN batch' = [batch EXCEPT ![r] = {}] /\ UNCHANGED pc
       ELSE pc' = [pc EXCEPT ![r] = "claim"] /\ UNCHANGED batch
    /\ UNCHANGED <<up, dbVars, last, floor, announced, owed>>

\* post_snapshot: the atomic is read; a snapshot at or below it is skipped.
Peek(r, id) ==
    /\ pc[r] = "posting"
    /\ Current(r, id)
    /\ peek' = [peek EXCEPT ![r] = last]
    /\ IF id <= last
       THEN batch' = [batch EXCEPT ![r] = @ \ {id}] /\ UNCHANGED pc
       ELSE pc' = [pc EXCEPT ![r] = "claim"] /\ UNCHANGED batch
    /\ UNCHANGED <<up, dbVars, last, floor, announced, owed>>

\* Mutant: the atomic is stored to instead of compared and exchanged.
ClaimStore(r, id) ==
    /\ pc[r] = "claim"
    /\ Current(r, id)
    /\ pc' = [pc EXCEPT ![r] = "posting"]
    /\ last' = id
    /\ batch' = [batch EXCEPT ![r] = @ \ {id}]
    /\ announced' = announced \cup {id}
    /\ UNCHANGED <<up, dbVars, floor, peek, owed>>

\* Mutant: the atomic is read once, before the loop.
ClaimNoReload(r, id) ==
    /\ pc[r] = "claim"
    /\ Current(r, id)
    /\ IF last = peek[r]
       THEN /\ pc' = [pc EXCEPT ![r] = "posting"]
            /\ last' = id
            /\ batch' = [batch EXCEPT ![r] = @ \ {id}]
            /\ announced' = announced \cup {id}
       ELSE UNCHANGED <<pc, last, batch, announced>>
    /\ UNCHANGED <<up, dbVars, floor, peek, owed>>

\* compare_exchange; on success a task is spawned for each webhook.
Claim(r, id) ==
    /\ pc[r] = "claim"
    /\ Current(r, id)
    /\ pc' = [pc EXCEPT ![r] = "posting"]
    /\ IF last = peek[r]
       THEN /\ last' = id
            /\ batch' = [batch EXCEPT ![r] = @ \ {id}]
            /\ announced' = announced \cup {id}
       ELSE UNCHANGED <<last, batch, announced>>
    /\ UNCHANGED <<up, dbVars, floor, peek, owed>>

Finish(r) ==
    /\ pc[r] = "posting"
    /\ batch[r] = {}
    /\ Leave(r)
    /\ UNCHANGED <<up, dbVars, last, announced>>

Middleware(r) ==
    \/ ReadLast(r) \/ Query(r) \/ Finish(r)
    \/ \E id \in Ids : Peek(r, id) \/ Claim(r, id)

Next ==
    \/ Start \/ Stop
    \/ \E r \in Reqs :
          \/ Begin(r) \/ BeginAdmin(r) \/ Insert(r) \/ Commit(r) \/ Rollback(r)
          \/ TimeOut(r) \/ Abandon(r) \/ Middleware(r)

\* The server's threads run every request whose response is there to its end.
Fairness == \A r \in Reqs : WF_vars(Middleware(r))

Spec == Init /\ [][Next]_vars /\ Fairness

-----------------------------------------------------------------------------
(* Properties                                                               *)

\* The middleware and its atomic implement the feed: committed snapshots only, each
\* at most once and in ID order, across concurrent requests, timeouts and restarts
\* (post_snapshot, initialize_snapshot_counter).
Feed == INSTANCE WebhookFeed WITH stored <- stored, announced <- announced
FeedSpec == Feed!Spec

\* A request whose middleware runs to its end leaves none of its snapshots to a later
\* request: all have been announced, or overtaken by one with a higher ID
\* (post_to_webhooks reads the atomic before it queries).
NothingLeftBehind ==
    [][\A r \in Reqs : pc[r] = "posting" /\ pc'[r] = "idle" /\ up'
          => \A id \in owed[r] : id \in announced \/ id < last]_vars

\* Requests racing for the same snapshots cannot keep each other from responding:
\* a failed compare_exchange means another one made progress (post_snapshot).
EveryRequestEnds == \A r \in Reqs : pc[r] = "after" ~> pc[r] = "idle"

-----------------------------------------------------------------------------
(* What the documentation says of the code, and the code does not do.       *)

\* "Upon any event, the API will send a POST request to the listed URIs" (docs/API.md,
\* Webhooks): the snapshots of a request that ran to its end have been announced.
EveryEventAnnounced ==
    [][\A r \in Reqs : pc[r] = "posting" /\ pc'[r] = "idle" /\ up'
          => owed[r] \subseteq announced]_vars
=============================================================================
