---------------------------- MODULE ServerProofs ----------------------------
(* Theorems about Webhooks, Connections and the two side by side.           *)
EXTENDS MCServer, FiniteSetTheorems, WellFoundedInduction, TLAPS

-----------------------------------------------------------------------------
(* Webhooks, for any number of requests and snapshots: the invariant.      *)

\* IDs come from one sequence: nobody has drawn a committed one, or another's.
Sequenced ==
    /\ \A id \in stored : id < next
    /\ \A r \in Reqs : /\ \A id \in drawn[r] : id < next /\ id \notin stored
                       /\ tx[r] = "none" => drawn[r] = {}
                       /\ \A q \in Reqs \ {r} : drawn[r] \cap drawn[q] = {}

\* Requests are served by a running process, and those being handled have a
\* transaction.
Handled ==
    \A r \in Reqs : /\ pc[r] # "idle" \/ tx[r] = "request" => up
                    /\ pc[r] = "handling" => tx[r] = "request"
                    /\ pc[r] \in {"idle", "handling"} => owed[r] = {}

\* The atomic is at or above everything announced, and at a committed snapshot.
Posted ==
    /\ announced \subseteq stored
    /\ up => last \in stored \cup {0} /\ \A id \in announced : id <= last

\* A snapshot that needs nothing more: announced, or overtaken.
Covered(id) == id \in announced \/ id < last

\* The snapshot the process started at was there before its requests.
Origin ==
    up /\ last \notin announced =>
        \A r \in Reqs : last \notin owed[r] /\ (tx[r] = "request" => last \notin drawn[r])

\* What each request's middleware has left to do.
Remaining(r) ==
    /\ owed[r] \subseteq stored /\ batch[r] \subseteq stored
    /\ pc[r] = "query" => floor[r] <= last /\ \A id \in owed[r] : id <= floor[r] => Covered(id)
    /\ pc[r] = "claim" => peek[r] <= last /\ \A id \in batch[r] : peek[r] < id
    /\ pc[r] \in {"posting", "claim"} => \A id \in owed[r] : Covered(id) \/ id \in batch[r]

Inv ==
    /\ TypeOK /\ Sequenced /\ Handled /\ Posted /\ Origin
    /\ \A r \in Reqs : Remaining(r)

-----------------------------------------------------------------------------
LEMMA InitInv ==
    ASSUME Init
    PROVE  Inv
<1>1. 1 \in 1..MaxId + 1 /\ 0 \in 0..NotYet
  BY BoundAssumption DEF NotYet
<1>2. TypeOK
  BY <1>1 DEF Init, TypeOK
<1>3. Sequenced /\ Handled /\ Posted /\ Origin
  BY DEF Init, Sequenced, Handled, Posted, Origin
<1>4. \A r \in Reqs : Remaining(r)
  BY DEF Init, Remaining
<1> QED
  BY <1>2, <1>3, <1>4 DEF Inv

LEMMA StartInv ==
    ASSUME Inv, Start
    PROVE  Inv'
<1>1. TypeOK'
  BY BoundAssumption DEF Inv, TypeOK, Start, Ids, NotYet, dbVars, hookVars
<1>2. Sequenced' /\ Handled'
  BY DEF Inv, Sequenced, Handled, Start, dbVars
<1>3. Posted'
  BY DEF Inv, Posted, Start, dbVars
<1>4. \A r \in Reqs : pc[r] = "idle" /\ owed[r] = {} /\ tx[r] # "request"
  BY DEF Inv, Handled, Start
<1>5. Origin' /\ \A r \in Reqs : Remaining(r)'
  BY <1>4 DEF Inv, Origin, Remaining, Start, dbVars, hookVars
<1> QED
  BY <1>1, <1>2, <1>3, <1>5 DEF Inv

LEMMA StopInv ==
    ASSUME Inv, Stop
    PROVE  Inv'
<1>1. TypeOK'
  <2>1. 0 \in 0..NotYet
    BY BoundAssumption DEF NotYet
  <2> QED
    BY <2>1 DEF Inv, TypeOK, Stop
<1>2. Sequenced'
  BY DEF Inv, TypeOK, Sequenced, Stop
<1>3. Handled' /\ Posted' /\ Origin'
  BY DEF Inv, TypeOK, Handled, Posted, Origin, Stop
<1>4. \A r \in Reqs : Remaining(r)'
  BY DEF Remaining, Stop
<1> QED
  BY <1>1, <1>2, <1>3, <1>4 DEF Inv

LEMMA BeginInv ==
    ASSUME Inv, NEW q \in Reqs, Begin(q) \/ BeginAdmin(q) \/ TimeOut(q)
    PROVE  Inv'
<1> USE DEF Begin, BeginAdmin, TimeOut, dbVars, hookVars
<1>1. TypeOK'
  BY DEF Inv, TypeOK
<1>2. Sequenced' /\ Handled' /\ Posted'
  BY DEF Inv, TypeOK, Sequenced, Handled, Posted
<1>3. Origin'
  <2>1. \A r \in Reqs : tx'[r] = "request" => tx[r] = "request" \/ drawn[r] = {}
    BY DEF Inv, TypeOK, Sequenced
  <2>2. UNCHANGED <<up, last, announced, owed, drawn>>
    OBVIOUS
  <2> HIDE DEF Begin, BeginAdmin, TimeOut
  <2> QED
    BY <2>1, <2>2 DEF Inv, Origin
<1>4. \A r \in Reqs : Remaining(r)'
  BY DEF Inv, TypeOK, Remaining, Covered
<1> QED
  BY <1>1, <1>2, <1>3, <1>4 DEF Inv

LEMMA InsertInv ==
    ASSUME Inv, NEW q \in Reqs, Insert(q)
    PROVE  Inv'
<1> USE DEF Insert, hookVars
<1>1. TypeOK'
  BY BoundAssumption DEF Inv, TypeOK, Ids
<1>2. \A r \in Reqs : drawn'[r] = IF r = q THEN drawn[r] \cup {next} ELSE drawn[r]
  BY DEF Inv, TypeOK
<1>3. Sequenced'
  BY <1>2, BoundAssumption DEF Inv, TypeOK, Sequenced, Ids
<1>4. Handled' /\ Posted' /\ \A r \in Reqs : Remaining(r)'
  BY DEF Inv, Handled, Posted, Remaining, Covered
<1>5. up => last < next
  BY BoundAssumption DEF Inv, TypeOK, Sequenced, Posted
<1>6. Origin'
  BY <1>2, <1>5 DEF Inv, TypeOK, Origin
<1> QED
  BY <1>1, <1>3, <1>4, <1>6 DEF Inv

LEMMA EndTxInv ==
    ASSUME Inv, NEW q \in Reqs, NEW committed \in SUBSET drawn[q], EndTx(q, committed)
    PROVE  Inv'
<1> USE DEF EndTx, hookVars
<1>1. TypeOK'
  BY DEF Inv, TypeOK
<1>2. /\ \A r \in Reqs : drawn'[r] = IF r = q THEN {} ELSE drawn[r]
      /\ \A r \in Reqs : tx'[r] = IF r = q THEN "none" ELSE tx[r]
  BY DEF Inv, TypeOK
<1>3. Sequenced'
  BY <1>2 DEF Inv, TypeOK, Sequenced
<1>4. Handled' /\ Posted'
  BY <1>2 DEF Inv, TypeOK, Handled, Posted
<1>5. Origin'
  BY <1>2 DEF Inv, TypeOK, Handled, Origin
<1>6. \A r \in Reqs : Remaining(r)'
  BY <1>2 DEF Inv, TypeOK, Remaining, Covered
<1> QED
  BY <1>1, <1>3, <1>4, <1>5, <1>6 DEF Inv

LEMMA LeaveInv ==
    ASSUME Inv, NEW q \in Reqs, Leave(q), UNCHANGED <<up, dbVars, last, announced>>
    PROVE  Inv'
<1> USE DEF Leave, dbVars
<1>1. TypeOK'
  BY BoundAssumption DEF Inv, TypeOK, NotYet
<1>2. Sequenced' /\ Posted'
  BY DEF Inv, Sequenced, Posted
<1>3. Handled' /\ Origin'
  BY DEF Inv, TypeOK, Handled, Origin
<1>4. \A r \in Reqs : Remaining(r)'
  BY DEF Inv, TypeOK, Remaining, Covered
<1> QED
  BY <1>1, <1>2, <1>3, <1>4 DEF Inv

\* A request that is owed a snapshot the atomic has reached is covered for it.
LEMMA Reached ==
    ASSUME Inv, up, NEW r \in Reqs, NEW id \in owed[r], id <= last
    PROVE  Covered(id)
  BY BoundAssumption DEF Inv, TypeOK, Origin, Covered, Ids

LEMMA ReadLastInv ==
    ASSUME Inv, NEW q \in Reqs, ReadLast(q)
    PROVE  Inv'
<1> USE DEF ReadLast, dbVars
<1>1. up /\ last \in 0..MaxId /\ last \in Nat
  BY BoundAssumption DEF Inv, TypeOK, Handled
<1>2. TypeOK'
  BY <1>1, BoundAssumption DEF Inv, TypeOK, NotYet
<1>3. Sequenced' /\ Handled' /\ Posted' /\ Origin'
  BY DEF Inv, TypeOK, Sequenced, Handled, Posted, Origin
<1>4. ASSUME NEW r \in Reqs
      PROVE  Remaining(r)'
  <2>1. \A id \in owed[r] : id <= last => Covered(id)
    BY <1>1, Reached
  <2> QED
    BY <1>1, <2>1 DEF Inv, TypeOK, Remaining, Covered
<1> QED
  BY <1>2, <1>3, <1>4 DEF Inv

LEMMA QueryInv ==
    ASSUME Inv, NEW q \in Reqs, Query(q)
    PROVE  Inv'
<1> USE DEF Query, dbVars
<1>1. TypeOK'
  BY DEF Inv, TypeOK
<1>2. Sequenced' /\ Handled' /\ Posted' /\ Origin'
  BY DEF Inv, TypeOK, Sequenced, Handled, Posted, Origin
<1>3. ASSUME NEW r \in Reqs
      PROVE  Remaining(r)'
  <2>1. owed[r] \subseteq Ids /\ floor[r] \in 0..NotYet
    BY DEF Inv, TypeOK
  <2> QED
    BY <2>1, BoundAssumption DEF Inv, TypeOK, Remaining, Covered, Ids, NotYet
<1> QED
  BY <1>1, <1>2, <1>3 DEF Inv

LEMMA PeekInv ==
    ASSUME Inv, NEW q \in Reqs, NEW id \in Ids, Peek(q, id)
    PROVE  Inv'
<1> USE DEF Peek, dbVars
<1>1. up /\ last \in 0..MaxId /\ last \in Nat
  BY BoundAssumption DEF Inv, TypeOK, Handled
<1>2. TypeOK'
  BY <1>1, BoundAssumption DEF Inv, TypeOK, NotYet
<1>3. Sequenced' /\ Handled' /\ Posted' /\ Origin'
  BY DEF Inv, TypeOK, Sequenced, Handled, Posted, Origin
<1>4. ASSUME NEW r \in Reqs
      PROVE  Remaining(r)'
  <2>1. CASE r # q
    BY <2>1 DEF Inv, TypeOK, Remaining, Covered
  <2>2. CASE r = q /\ id <= last
    <3>1. id \in owed[r] => Covered(id)
      BY <1>1, <2>2, Reached
    <3> QED
      BY <2>2, <3>1 DEF Inv, TypeOK, Remaining, Covered
  <2>3. CASE r = q /\ ~(id <= last)
    <3>1. \A other \in batch[q] : last < other
      BY <1>1, <2>3 DEF Inv, TypeOK, Current, Ids
    <3> QED
      BY <1>1, <2>3, <3>1 DEF Inv, TypeOK, Remaining, Covered
  <2> QED
    BY <2>1, <2>2, <2>3
<1> QED
  BY <1>2, <1>3, <1>4 DEF Inv

LEMMA ClaimInv ==
    ASSUME Inv, NEW q \in Reqs, NEW id \in Ids, Claim(q, id)
    PROVE  Inv'
<1> USE DEF dbVars
<1>1. up /\ last \in 0..MaxId /\ id \in 1..MaxId /\ MaxId \in Nat /\ id \in stored
  BY BoundAssumption DEF Inv, TypeOK, Handled, Claim, Current, Ids, Remaining
<1>2. CASE last # peek[q]
  <2>1. TypeOK'
    BY <1>2 DEF Claim, Inv, TypeOK
  <2>2. Sequenced' /\ Handled' /\ Posted' /\ Origin'
    BY <1>2 DEF Claim, Inv, TypeOK, Sequenced, Handled, Posted, Origin
  <2>3. \A r \in Reqs : Remaining(r)'
    BY <1>2 DEF Claim, Inv, TypeOK, Remaining, Covered
  <2> QED
    BY <2>1, <2>2, <2>3 DEF Inv
<1>3. CASE last = peek[q]
  <2>1. last < id /\ last' = id /\ announced' = announced \cup {id}
    BY <1>3 DEF Claim, Current, Inv, Remaining
  <2>2. TypeOK'
    <3>1. last' \in 0..MaxId
      BY <1>1, <2>1
    <3> QED
      BY <1>1, <1>3, <2>1, <3>1 DEF Claim, Inv, TypeOK
  <2>3. Sequenced' /\ Handled' /\ Origin'
    BY <1>3, <2>1 DEF Claim, Inv, TypeOK, Sequenced, Handled, Origin
  <2>4. Posted'
    BY <1>1, <1>3, <2>1 DEF Claim, Inv, TypeOK, Posted, Ids
  <2>5. ASSUME NEW r \in Reqs
        PROVE  Remaining(r)'
    <3>1. owed[r] \subseteq Ids /\ batch[r] \subseteq Ids
      BY DEF Inv, TypeOK
    <3>2. ASSUME NEW other \in Ids, Covered(other)
          PROVE  Covered(other)'
      BY <1>1, <2>1, <3>2 DEF Covered, Ids
    <3>3. floor[r] <= last => floor[r] <= last'
      BY <1>1, <2>1 DEF Inv, TypeOK, NotYet
    <3>4. peek[r] <= last => peek[r] <= last'
      BY <1>1, <2>1 DEF Inv, TypeOK, NotYet
    <3>5. Covered(id)'
      BY <2>1 DEF Covered
    <3>6. CASE r = q
      BY <1>3, <3>1, <3>2, <3>5, <3>6 DEF Claim, Inv, TypeOK, Remaining
    <3>7. CASE r # q
      BY <1>3, <3>1, <3>2, <3>3, <3>4, <3>7 DEF Claim, Inv, TypeOK, Remaining
    <3> QED
      BY <3>6, <3>7
  <2> QED
    BY <2>2, <2>3, <2>4, <2>5 DEF Inv
<1> QED
  BY <1>2, <1>3

LEMMA NextInv ==
    ASSUME Inv, [Next]_vars
    PROVE  Inv'
<1>1. CASE Start \/ Stop
  BY <1>1, StartInv, StopInv
<1>2. ASSUME NEW r \in Reqs, Begin(r) \/ BeginAdmin(r) \/ TimeOut(r)
      PROVE  Inv'
  BY <1>2, BeginInv
<1>3. ASSUME NEW r \in Reqs, Insert(r)
      PROVE  Inv'
  BY <1>3, InsertInv
<1>4. ASSUME NEW r \in Reqs, Commit(r) \/ Rollback(r)
      PROVE  Inv'
  BY <1>4, EndTxInv DEF Commit, Rollback
<1>5. ASSUME NEW r \in Reqs, Abandon(r) \/ Finish(r)
      PROVE  Inv'
  BY <1>5, LeaveInv DEF Abandon, Finish
<1>6. ASSUME NEW r \in Reqs, Middleware(r)
      PROVE  Inv'
  BY <1>5, <1>6, ReadLastInv, QueryInv, PeekInv, ClaimInv DEF Middleware
<1>7. CASE UNCHANGED vars
  BY <1>7 DEF vars, dbVars, hookVars, Inv, TypeOK, Sequenced, Handled, Posted, Origin,
              Remaining, Covered
<1> QED
  BY <1>1, <1>2, <1>3, <1>4, <1>5, <1>6, <1>7 DEF Next

\* What the middleware relies on holds in every reachable state, whatever the number of
\* requests and snapshots (post_to_webhooks, post_snapshot, initialize_snapshot_counter).
THEOREM Invariance == Spec => []Inv
<1>1. Init => Inv
  BY InitInv
<1>2. Inv /\ [Next]_vars => Inv'
  BY NextInv
<1> QED
  BY <1>1, <1>2, PTL DEF Spec

\* Every variable keeps its type; in particular LAST_POSTED_SNAPSHOT is initialised
\* whenever requests are served.
THEOREM WebhookTypes == Spec => []TypeOK
<1>1. Inv => TypeOK
  BY DEF Inv
<1> QED
  BY <1>1, Invariance, PTL

-----------------------------------------------------------------------------
(* The middleware implements the feed.                                      *)

\* Every step of the middleware is a step of the feed or does not concern it.
LEMMA StepFeed ==
    ASSUME Inv, [Next]_vars
    PROVE  [Feed!Next]_<<stored, announced>>
<1> USE DEF dbVars, hookVars
<1>1. CASE announced' = announced /\ stored \subseteq stored'
  <2>1. stored' \subseteq Ids
    BY NextInv DEF Inv, TypeOK
  <2> QED
    BY <1>1, <2>1 DEF Feed!Next, Feed!Store
<1>2. ASSUME NEW r \in Reqs, NEW id \in Ids, Claim(r, id)
      PROVE  [Feed!Next]_<<stored, announced>>
  <2>1. CASE last # peek[r]
    BY <1>2, <2>1 DEF Claim
  <2>2. CASE last = peek[r]
    <3>1. up /\ last \in Nat /\ id \in Nat /\ id \in stored /\ last < id
      BY <1>2, <2>2, BoundAssumption
         DEF Claim, Current, Inv, TypeOK, Handled, Remaining, Ids
    <3>2. \A a \in announced : a < id
      BY <3>1 DEF Inv, TypeOK, Posted, Ids
    <3> QED
      BY <1>2, <2>2, <3>1, <3>2 DEF Claim, Feed!Next, Feed!Announce
  <2> QED
    BY <2>1, <2>2
<1>3. CASE \E r \in Reqs, id \in Ids : Claim(r, id)
  BY <1>2, <1>3
<1>4. CASE ~\E r \in Reqs, id \in Ids : Claim(r, id)
  <2>1. announced' = announced /\ stored \subseteq stored'
    BY <1>4 DEF Next, vars, Start, Stop, Begin, BeginAdmin, Insert, Commit, Rollback, EndTx,
                TimeOut, Abandon, Middleware, ReadLast, Query, Peek, Finish
  <2> QED
    BY <1>1, <2>1
<1> QED
  BY <1>3, <1>4

\* Snapshots are announced once they are committed, at most once and in ID order, over any
\* number of requests, timeouts, disconnections and restarts (post_snapshot).
THEOREM ImplementsFeed == Spec => FeedSpec
<1>1. Init => Feed!Init
  BY DEF Init, Feed!Init
<1>2. Inv /\ [Next]_vars => [Feed!Next]_<<stored, announced>>
  BY StepFeed
<1> QED
  BY <1>1, <1>2, Invariance, PTL DEF Spec, FeedSpec, Feed!Spec

\* A request whose middleware runs to its end leaves none of its snapshots to a later one
\* (post_to_webhooks).
THEOREM LeavesNothingBehind == Spec => NothingLeftBehind
<1> DEFINE Left == \A r \in Reqs : pc[r] = "posting" /\ pc'[r] = "idle" /\ up'
                     => \A id \in owed[r] : id \in announced \/ id < last
<1>1. Inv /\ [Next]_vars => [Left]_vars
  <2> SUFFICES ASSUME Inv, [Next]_vars, NEW r \in Reqs, pc[r] = "posting", pc'[r] = "idle", up'
               PROVE  \A id \in owed[r] : id \in announced \/ id < last
    OBVIOUS
  <2>1. batch[r] = {}
    BY DEF Next, vars, Start, Stop, Begin, BeginAdmin, Insert, Commit, Rollback, EndTx, Leave,
           TimeOut, Abandon, Middleware, ReadLast, Query, Peek, Claim, Finish, Inv, TypeOK
  <2> QED
    BY <2>1 DEF Inv, Remaining, Covered
<1> QED
  BY <1>1, Invariance, PTL DEF Spec, NothingLeftBehind

-----------------------------------------------------------------------------
(* Connections, for any number of tasks, mutexes and workers: every permit   *)
(* and every connection is somewhere, and a task that is past its mutex has  *)
(* the guard.                                                                *)

Labels == {"idle", "lock", "permit", "get", "using", "running", "returning"}

PoolTypes ==
    /\ at \in [Tasks -> Labels]
    /\ kind \in [Tasks -> Kinds]
    /\ waiting \in [Locks -> Seq(Tasks)]
    /\ holder \in [Locks -> Tasks \cup {Nobody}]
    /\ queue \in Seq(Tasks)
    /\ permits \in Nat /\ idle \in Nat /\ left \in Nat /\ closing \in Nat

PermitsHeld ==
    permits + Cardinality(At("get")) + Cardinality(At("using"))
       + Cardinality(At("running")) + left = MaxConns

ConnectionsHeld ==
    idle + Cardinality(At("using")) + Cardinality(At("returning"))
       + Cardinality(At("running")) + left + closing = MaxConns

Counts == PermitsHeld /\ ConnectionsHeld

\* A task past its mutex has the guard until it ends.
Guarded ==
    \A t \in Tasks : at[t] \in {"permit", "get", "running", "returning"} /\ kind[t] \in Locks =>
        holder[kind[t]] = t

\* A task that waits for its mutex is in its queue.
InQueue ==
    \A t \in Tasks : at[t] = "lock" =>
        /\ kind[t] \in Locks
        /\ \E i \in 1..Len(waiting[kind[t]]) : waiting[kind[t]][i] = t

PoolInv == PoolTypes /\ Counts /\ Guarded /\ InQueue

-----------------------------------------------------------------------------
LEMMA AtFinite ==
    ASSUME NEW label
    PROVE  IsFiniteSet(At(label)) /\ Cardinality(At(label)) \in Nat
<1>1. At(label) \subseteq Tasks
  BY DEF At
<1> QED
  BY <1>1, ConnectionsAssumption, FS_Subset, FS_CardinalityType

\* How a step of one task changes the number of tasks at a place.
LEMMA Moves ==
    ASSUME PoolTypes, NEW t \in Tasks, NEW to \in Labels, Goto(t, to), NEW label
    PROVE  /\ at[t] = label /\ to # label => Cardinality(At(label)') = Cardinality(At(label)) - 1
           /\ at[t] # label /\ to = label => Cardinality(At(label)') = Cardinality(At(label)) + 1
           /\ (at[t] = label <=> to = label) => Cardinality(At(label)') = Cardinality(At(label))
           /\ at' \in [Tasks -> Labels]
<1>1. at' \in [Tasks -> Labels] /\ at'[t] = to /\ \A s \in Tasks \ {t} : at'[s] = at[s]
  BY DEF PoolTypes, Goto
<1>2. IsFiniteSet(At(label)) /\ Cardinality(At(label)) \in Nat
  BY AtFinite
<1>3. CASE at[t] = label /\ to # label
  <2>1. At(label)' = At(label) \ {t} /\ t \in At(label)
    BY <1>1, <1>3 DEF At
  <2> QED
    BY <2>1, <1>1, <1>2, <1>3, FS_RemoveElement
<1>4. CASE at[t] # label /\ to = label
  <2>1. At(label)' = At(label) \cup {t} /\ t \notin At(label)
    BY <1>1, <1>4 DEF At
  <2> QED
    BY <2>1, <1>1, <1>2, <1>4, FS_AddElement
<1>5. CASE at[t] = label <=> to = label
  <2>1. At(label)' = At(label)
    BY <1>1, <1>5 DEF At
  <2> QED
    BY <2>1, <1>1, <1>5
<1> QED
  BY <1>3, <1>4, <1>5

Waits(q, x) == \E i \in 1..Len(q) : q[i] = x

LEMMA LeaveQueue ==
    ASSUME NEW S, NEW q \in Seq(S), NEW e
    PROVE  /\ RemoveFirst(q, e) \in Seq(S)
           /\ \A x : x # e /\ Waits(q, x) => Waits(RemoveFirst(q, e), x)
<1>1. CASE ~ \E i \in 1..Len(q) : q[i] = e
  BY <1>1 DEF RemoveFirst, Waits
<1>2. CASE \E i \in 1..Len(q) : q[i] = e
  <2> DEFINE I == {i \in 1..Len(q) : q[i] = e}
             n == SelectInSeq(q, LAMBDA v : v = e)
  <2>1. PICK m \in I : \A i \in I : <<i, m>> \notin OpToRel(<, Nat)
    <3>1. I \subseteq Nat /\ I # {}
      BY <1>2
    <3> QED
      BY <3>1, NatLessThanWellFounded, WFMin
  <2>2. ASSUME NEW i \in I PROVE m <= i
    <3>1. <<i, m>> \notin {pair \in Nat \X Nat : pair[1] < pair[2]}
      BY <2>1 DEF OpToRel
    <3>2. i \in Nat /\ m \in Nat /\ <<i, m>> \in Nat \X Nat
      OBVIOUS
    <3>3. ~ (i < m)
      BY <3>1, <3>2
    <3> QED
      BY <3>2, <3>3
  <2>3. Min(I) \in I
    BY <2>2 DEF Min
  <2>4. n = Min(I)
    BY <1>2 DEF SelectInSeq
  <2>5. n \in 1..Len(q) /\ q[n] = e
    BY <2>3, <2>4
  <2> HIDE DEF n, I
  <2> DEFINE low == SubSeq(q, 1, n - 1)
             high == SubSeq(q, n + 1, Len(q))
  <2>6. RemoveFirst(q, e) = low \o high
    BY <1>2 DEF RemoveFirst, RemoveAt, n
  <2>a. low \in Seq(S) /\ Len(low) = n - 1 /\ high \in Seq(S) /\ Len(high) = Len(q) - n
    BY <2>5
  <2>e. /\ \A i \in 1..(n - 1) : low[i] = q[i]
        /\ \A i \in 1..(Len(q) - n) : high[i] = q[n + i]
    BY <2>5
  <2>f. n \in Nat /\ Len(q) \in Nat /\ n >= 1 /\ n <= Len(q)
    BY <2>5
  <2> HIDE DEF low, high
  <2>b. Len(low \o high) = Len(q) - 1
    BY <2>a, <2>f
  <2>c. \A i \in 1..(n - 1) : (low \o high)[i] = q[i]
    BY <2>a, <2>e, <2>f
  <2>d. ASSUME NEW i \in n..(Len(q) - 1) PROVE (low \o high)[i] = q[i + 1]
    <3>1. i - (n - 1) \in 1..(Len(q) - n) /\ i \in (Len(low) + 1)..(Len(low) + Len(high))
      BY <2>a, <2>f
    <3>2. (low \o high)[i] = high[i - (n - 1)]
      BY <2>a, <2>f, <3>1
    <3>3. high[i - (n - 1)] = q[n + (i - (n - 1))] /\ n + (i - (n - 1)) = i + 1
      BY <2>e, <2>f, <3>1
    <3> QED
      BY <3>2, <3>3
  <2>7. RemoveFirst(q, e) \in Seq(S)
    BY <2>6, <2>a
  <2>8. ASSUME NEW i \in 1..Len(q), i # n
        PROVE  \E j \in 1..Len(RemoveFirst(q, e)) : RemoveFirst(q, e)[j] = q[i]
    <3>1. CASE i < n
      <4>1. i \in 1..Len(RemoveFirst(q, e)) /\ RemoveFirst(q, e)[i] = q[i]
        BY <2>5, <2>6, <2>b, <2>c, <3>1
      <4> QED
        BY <4>1
    <3>2. CASE i > n
      <4>1. i - 1 \in 1..Len(RemoveFirst(q, e)) /\ RemoveFirst(q, e)[i - 1] = q[i]
        <5>1. i - 1 \in n..(Len(q) - 1) /\ (i - 1) + 1 = i /\ n >= 1
          BY <2>5, <3>2
        <5>2. (low \o high)[i - 1] = q[i]
          BY <2>d, <5>1
        <5>3. i - 1 \in 1..(Len(q) - 1)
          BY <2>f, <5>1
        <5> QED
          BY <2>6, <2>b, <5>2, <5>3
      <4> QED
        BY <4>1
    <3> QED
      BY <2>5, <2>8, <3>1, <3>2
  <2> QED
    BY <2>5, <2>7, <2>8 DEF Waits
<1> QED
  BY <1>1, <1>2

\* The same in numbers.
One(here, there) == IF here = there THEN 1 ELSE 0

LEMMA Counted ==
    ASSUME PoolTypes, NEW t \in Tasks, NEW to \in Labels, Goto(t, to)
    PROVE  LET gains(label) == One(to, label) - One(at[t], label) IN
           /\ Cardinality(At("get"))' = Cardinality(At("get")) + gains("get")
           /\ Cardinality(At("using"))' = Cardinality(At("using")) + gains("using")
           /\ Cardinality(At("running"))' = Cardinality(At("running")) + gains("running")
           /\ Cardinality(At("returning"))' = Cardinality(At("returning")) + gains("returning")
<1>1. ASSUME NEW label
      PROVE  Cardinality(At(label))' = Cardinality(At(label)) + One(to, label) - One(at[t], label)
  <2>1. Cardinality(At(label)) \in Nat
    BY AtFinite
  <2>2. Cardinality(At(label))' = Cardinality(At(label)')
    OBVIOUS
  <2>3. /\ at[t] = label /\ to # label => Cardinality(At(label)') = Cardinality(At(label)) - 1
        /\ at[t] # label /\ to = label => Cardinality(At(label)') = Cardinality(At(label)) + 1
        /\ (at[t] = label <=> to = label) => Cardinality(At(label)') = Cardinality(At(label))
    BY Moves
  <2> QED
    BY <2>1, <2>2, <2>3 DEF One
<1>2. Cardinality(At("get")) \in Nat /\ Cardinality(At("using")) \in Nat
  BY AtFinite
<1>3. Cardinality(At("running")) \in Nat /\ Cardinality(At("returning")) \in Nat
  BY AtFinite
<1> QED
  BY <1>1, <1>2, <1>3 DEF One

LEMMA PoolInitInv ==
    ASSUME PoolInit
    PROVE  PoolInv
<1>1. MaxConns \in Nat
  BY ConnectionsAssumption DEF MaxConns
<1>2. PoolTypes
  BY <1>1 DEF PoolInit, PoolTypes, Labels, Kinds
<1>3. Counts
  <2>1. ASSUME NEW label \in Labels \ {"idle"} PROVE Cardinality(At(label)) = 0
    <3>1. At(label) = {}
      BY DEF PoolInit, At, Labels
    <3> QED
      BY <3>1, FS_EmptySet
  <2>2. \A label \in {"get", "using", "running", "returning"} : Cardinality(At(label)) = 0
    BY <2>1 DEF Labels
  <2> QED
    BY <1>1, <2>2 DEF PoolInit, Counts, PermitsHeld, ConnectionsHeld
<1>4. Guarded /\ InQueue
  BY DEF PoolInit, Guarded, InQueue
<1> QED
  BY <1>2, <1>3, <1>4 DEF PoolInv

-----------------------------------------------------------------------------
LEMMA PoolNextInv ==
    ASSUME PoolInv, [PoolNext]_connVars
    PROVE  PoolInv'
<1> USE DEF PoolInv
<1>a. /\ Cardinality(At("get")) \in Nat /\ Cardinality(At("using")) \in Nat
      /\ Cardinality(At("running")) \in Nat /\ Cardinality(At("returning")) \in Nat
  BY AtFinite
<1>b. ASSUME NEW label, at' = at PROVE At(label)' = At(label)
  BY <1>b DEF At
<1>c. MaxConns \in Nat
  BY ConnectionsAssumption DEF MaxConns
<1>d. permits \in Nat /\ idle \in Nat /\ left \in Nat /\ closing \in Nat
  BY DEF PoolTypes
<1>1. ASSUME NEW t \in Tasks, NEW k \in Kinds, Arrive(t, k) PROVE PoolInv'
  <2>1. PICK to \in Labels : /\ Goto(t, to) /\ to \in {"lock", "permit"} /\ at[t] = "idle"
                             /\ to = "permit" <=> k \notin Locks
    BY <1>1, ConnectionsAssumption DEF Arrive, AcquirePermit, Labels
  <2>2. UNCHANGED <<holder, permits, idle, left, closing>> /\ kind' = [kind EXCEPT ![t] = k]
    BY <1>1 DEF Arrive, AcquirePermit
  <2>3. /\ k \in Locks => waiting' = [waiting EXCEPT ![k] = Append(@, t)] /\ queue' = queue
        /\ k \notin Locks => waiting' = waiting /\ queue' = Append(queue, t)
    BY <1>1 DEF Arrive, AcquirePermit
  <2>4. PoolTypes'
    <3>1. at' \in [Tasks -> Labels] /\ holder' \in [Locks -> Tasks \cup {Nobody}]
      BY <2>1, <2>2, Moves DEF PoolTypes
    <3>2. waiting' \in [Locks -> Seq(Tasks)] /\ queue' \in Seq(Tasks)
      <4>1. CASE k \in Locks
        <5>1. Append(waiting[k], t) \in Seq(Tasks)
          BY <4>1 DEF PoolTypes
        <5> QED
          BY <2>3, <4>1, <5>1 DEF PoolTypes
      <4>2. CASE k \notin Locks
        <5>1. waiting' = waiting /\ queue' = Append(queue, t)
          BY <2>3, <4>2
        <5> QED
          BY <5>1 DEF PoolTypes
      <4> QED
        BY <4>1, <4>2
    <3>3. kind' \in [Tasks -> Kinds]
      BY <2>2 DEF PoolTypes
    <3> QED
      BY <3>1, <3>2, <3>3, <2>2, <1>d DEF PoolTypes
  <2>a. UNCHANGED <<permits, idle, left, closing>>
    BY <2>2
  <2>b. Goto(t, to) /\ to \in Labels /\ to \in {"lock", "permit"} /\ at[t] = "idle"
    BY <2>1
  <2>c. /\ Cardinality(At("get"))' = Cardinality(At("get"))
        /\ Cardinality(At("using"))' = Cardinality(At("using"))
        /\ Cardinality(At("running"))' = Cardinality(At("running"))
        /\ Cardinality(At("returning"))' = Cardinality(At("returning"))
    BY <2>b, <1>a, Counted DEF One
  <2>5. Counts'
    <3>1. PermitsHeld'
      BY <2>a, <2>c DEF Counts, PermitsHeld
    <3>2. ConnectionsHeld'
      BY <2>a, <2>c DEF Counts, ConnectionsHeld
    <3> QED
      BY <3>1, <3>2 DEF Counts
  <2>6. Guarded'
    BY <2>1, <2>2 DEF Guarded, Goto, PoolTypes
  <2>7. InQueue'
    <3> SUFFICES ASSUME NEW s \in Tasks, at'[s] = "lock"
                 PROVE  /\ kind'[s] \in Locks
                        /\ \E i \in 1..Len(waiting'[kind'[s]]) : waiting'[kind'[s]][i] = s
      BY DEF InQueue
    <3>1. CASE s = t
      <4>1. k \in Locks /\ kind'[t] = k
        BY <2>1, <2>2, <3>1 DEF Goto, PoolTypes
      <4>2. waiting'[k] = Append(waiting[k], t) /\ waiting[k] \in Seq(Tasks)
        BY <2>3, <4>1 DEF PoolTypes
      <4>3. waiting'[k][Len(waiting'[k])] = t /\ Len(waiting'[k]) \in 1..Len(waiting'[k])
        BY <4>2
      <4> QED
        BY <3>1, <4>1, <4>3
    <3>2. CASE s # t
      <4>1. at[s] = "lock" /\ kind'[s] = kind[s]
        BY <2>1, <2>2, <3>2 DEF Goto, PoolTypes
      <4>2. PICK i \in 1..Len(waiting[kind[s]]) : waiting[kind[s]][i] = s
        BY <4>1 DEF InQueue
      <4>3. kind[s] \in Locks /\ waiting[kind[s]] \in Seq(Tasks)
        BY <4>1 DEF InQueue, PoolTypes
      <4>4. waiting'[kind[s]] \in {waiting[kind[s]], Append(waiting[kind[s]], t)}
        BY <2>3, <4>3 DEF PoolTypes
      <4>5. i \in 1..Len(waiting'[kind[s]]) /\ waiting'[kind[s]][i] = s
        BY <4>2, <4>3, <4>4
      <4> QED
        BY <4>1, <4>3, <4>5
    <3> QED
      BY <3>1, <3>2
  <2> QED
    BY <2>4, <2>5, <2>6, <2>7
<1>2. ASSUME NEW t \in Tasks, Lock(t) PROVE PoolInv'
  <2>1. Goto(t, "permit") /\ "permit" \in Labels /\ at[t] = "lock"
    BY <1>2 DEF Lock, AcquirePermit, Labels
  <2>2. /\ UNCHANGED <<kind, permits, idle, left, closing>> /\ queue' = Append(queue, t)
        /\ holder' = [holder EXCEPT ![kind[t]] = t] /\ holder[kind[t]] = Nobody
        /\ waiting' = [waiting EXCEPT ![kind[t]] = Tail(@)] /\ Head(waiting[kind[t]]) = t
    BY <1>2 DEF Lock, AcquirePermit
  <2>3. kind[t] \in Locks /\ waiting[kind[t]] \in Seq(Tasks) /\ waiting[kind[t]] # <<>>
    BY <2>1 DEF InQueue, PoolTypes
  <2>a. UNCHANGED <<permits, idle, left, closing>>
    BY <2>2
  <2>4. PoolTypes'
    <3>1. at' \in [Tasks -> Labels] /\ holder' \in [Locks -> Tasks \cup {Nobody}]
      BY <2>1, <2>2, Moves DEF PoolTypes
    <3>2. Tail(waiting[kind[t]]) \in Seq(Tasks) /\ Append(queue, t) \in Seq(Tasks)
      BY <2>3 DEF PoolTypes
    <3>3. waiting' \in [Locks -> Seq(Tasks)] /\ queue' \in Seq(Tasks)
      BY <2>2, <3>2 DEF PoolTypes
    <3>4. kind' \in [Tasks -> Kinds]
      BY <2>2 DEF PoolTypes
    <3> QED
      BY <3>1, <3>3, <3>4, <2>a, <1>d DEF PoolTypes
  <2>5. Counts'
    <3>1. PermitsHeld'
      BY <2>1, <2>a, <1>a, <1>c, <1>d, Counted DEF Counts, PermitsHeld, One
    <3>2. ConnectionsHeld'
      BY <2>1, <2>a, <1>a, <1>c, <1>d, Counted DEF Counts, ConnectionsHeld, One
    <3> QED
      BY <3>1, <3>2 DEF Counts
  <2>6. Guarded'
    BY <2>1, <2>2, ConnectionsAssumption DEF Guarded, Goto, PoolTypes
  <2>7. InQueue'
    <3> SUFFICES ASSUME NEW s \in Tasks, at'[s] = "lock"
                 PROVE  /\ kind'[s] \in Locks
                        /\ \E i \in 1..Len(waiting'[kind'[s]]) : waiting'[kind'[s]][i] = s
      BY DEF InQueue
    <3>1. s # t /\ at[s] = "lock" /\ kind'[s] = kind[s]
      BY <2>1, <2>2 DEF Goto, PoolTypes
    <3>2. PICK i \in 1..Len(waiting[kind[s]]) : waiting[kind[s]][i] = s
      BY <3>1 DEF InQueue
    <3>3. kind[s] \in Locks /\ waiting[kind[s]] \in Seq(Tasks)
      BY <3>1 DEF InQueue, PoolTypes
    <3>4. CASE kind[s] # kind[t]
      <4>1. waiting'[kind[s]] = waiting[kind[s]]
        BY <2>2, <3>3, <3>4 DEF PoolTypes
      <4> QED
        BY <3>1, <3>2, <3>3, <4>1
    <3>5. CASE kind[s] = kind[t]
      <4>1. waiting'[kind[s]] = Tail(waiting[kind[s]])
        BY <2>2, <3>3, <3>5 DEF PoolTypes
      <4>2. i # 1
        BY <2>2, <2>3, <3>1, <3>2, <3>5
      <4>3. i - 1 \in 1..Len(waiting'[kind[s]]) /\ waiting'[kind[s]][i - 1] = s
        BY <3>2, <3>3, <4>1, <4>2
      <4> QED
        BY <3>1, <3>3, <4>3
    <3> QED
      BY <3>4, <3>5
  <2> QED
    BY <2>4, <2>5, <2>6, <2>7
<1>3. ASSUME NEW t \in Tasks, Permit(t) PROVE PoolInv'
  <2>1. Goto(t, "get") /\ "get" \in Labels /\ at[t] = "permit"
    BY <1>3 DEF Permit, Labels
  <2>2. permits' = permits - 1 /\ permits' \in Nat /\ UNCHANGED <<idle, left, closing>>
    BY <1>3 DEF Permit, PoolTypes
  <2>3. UNCHANGED <<kind, waiting, holder>> /\ queue' = RemoveFirst(queue, t)
    BY <1>3 DEF Permit
  <2>4. PoolTypes'
    <3>1. at' \in [Tasks -> Labels] /\ holder' \in [Locks -> Tasks \cup {Nobody}]
      BY <2>1, <2>3, Moves DEF PoolTypes, Release
    <3>2. waiting' \in [Locks -> Seq(Tasks)] /\ queue' \in Seq(Tasks)
      BY <2>3, LeaveQueue DEF PoolTypes
    <3> QED
      BY <3>1, <3>2, <2>2, <2>3, <1>d DEF PoolTypes
  <2>5. Counts'
    <3>1. PermitsHeld'
      BY <2>1, <2>2, <1>a, <1>c, <1>d, Counted DEF Counts, PermitsHeld, One
    <3>2. ConnectionsHeld'
      BY <2>1, <2>2, <1>a, <1>c, <1>d, Counted DEF Counts, ConnectionsHeld, One
    <3> QED
      BY <3>1, <3>2 DEF Counts
  <2>6. Guarded'
    BY <2>1, <2>3 DEF Guarded, Goto, PoolTypes, Release
  <2>7. InQueue'
    BY <2>1, <2>3 DEF InQueue, Goto, PoolTypes
  <2> QED
    BY <2>4, <2>5, <2>6, <2>7
<1>4. ASSUME NEW t \in Tasks, Connect(t) PROVE PoolInv'
  <2>1. PICK to \in Labels : Goto(t, to) /\ to \in {"using", "running"} /\ at[t] = "get"
    BY <1>4 DEF Connect, Labels
  <2>2. idle' = idle - 1 /\ idle' \in Nat /\ UNCHANGED <<permits, left, closing>>
    BY <1>4 DEF Connect, PoolTypes
  <2>3. UNCHANGED <<kind, waiting, holder, queue>>
    BY <1>4 DEF Connect
  <2>4. PoolTypes'
    <3>1. at' \in [Tasks -> Labels] /\ holder' \in [Locks -> Tasks \cup {Nobody}]
      BY <2>1, <2>3, Moves DEF PoolTypes, Release
    <3>2. waiting' \in [Locks -> Seq(Tasks)] /\ queue' \in Seq(Tasks)
      BY <2>3 DEF PoolTypes
    <3> QED
      BY <3>1, <3>2, <2>2, <2>3, <1>d DEF PoolTypes
  <2>5. Counts'
    <3>1. PermitsHeld'
      BY <2>1, <2>2, <1>a, <1>c, <1>d, Counted DEF Counts, PermitsHeld, One
    <3>2. ConnectionsHeld'
      BY <2>1, <2>2, <1>a, <1>c, <1>d, Counted DEF Counts, ConnectionsHeld, One
    <3> QED
      BY <3>1, <3>2 DEF Counts
  <2>6. Guarded'
    BY <2>1, <2>3 DEF Guarded, Goto, PoolTypes, Release
  <2>7. InQueue'
    BY <2>1, <2>3 DEF InQueue, Goto, PoolTypes
  <2> QED
    BY <2>4, <2>5, <2>6, <2>7
<1>5. ASSUME NEW t \in Tasks, GetFails(t) PROVE PoolInv'
  <2>1. Goto(t, "idle") /\ "idle" \in Labels /\ at[t] = "get"
    BY <1>5 DEF GetFails, Labels
  <2>2. permits' = permits + 1 /\ UNCHANGED <<idle, left, closing>>
    BY <1>5 DEF GetFails, PoolTypes
  <2>3. UNCHANGED <<kind, waiting, queue>> /\ Release(t)
    BY <1>5 DEF GetFails
  <2>4. PoolTypes'
    <3>1. at' \in [Tasks -> Labels] /\ holder' \in [Locks -> Tasks \cup {Nobody}]
      BY <2>1, <2>3, Moves DEF PoolTypes, Release
    <3>2. waiting' \in [Locks -> Seq(Tasks)] /\ queue' \in Seq(Tasks)
      BY <2>3 DEF PoolTypes
    <3> QED
      BY <3>1, <3>2, <2>2, <2>3, <1>d DEF PoolTypes
  <2>5. Counts'
    <3>1. PermitsHeld'
      BY <2>1, <2>2, <1>a, <1>c, <1>d, Counted DEF Counts, PermitsHeld, One
    <3>2. ConnectionsHeld'
      BY <2>1, <2>2, <1>a, <1>c, <1>d, Counted DEF Counts, ConnectionsHeld, One
    <3> QED
      BY <3>1, <3>2 DEF Counts
  <2>6. Guarded'
    BY <2>1, <2>3 DEF Guarded, Goto, PoolTypes, Release
  <2>7. InQueue'
    BY <2>1, <2>3 DEF InQueue, Goto, PoolTypes
  <2> QED
    BY <2>4, <2>5, <2>6, <2>7
<1>6. ASSUME NEW t \in Tasks, Drop(t) PROVE PoolInv'
  <2>1. Goto(t, "idle") /\ "idle" \in Labels /\ at[t] = "using"
    BY <1>6 DEF Drop, Labels
  <2>2. permits' = permits + 1 /\ idle' = idle + 1 /\ UNCHANGED <<left, closing>>
    BY <1>6 DEF Drop, PoolTypes
  <2>3. UNCHANGED <<kind, waiting, holder, queue>>
    BY <1>6 DEF Drop
  <2>4. PoolTypes'
    <3>1. at' \in [Tasks -> Labels] /\ holder' \in [Locks -> Tasks \cup {Nobody}]
      BY <2>1, <2>3, Moves DEF PoolTypes, Release
    <3>2. waiting' \in [Locks -> Seq(Tasks)] /\ queue' \in Seq(Tasks)
      BY <2>3 DEF PoolTypes
    <3> QED
      BY <3>1, <3>2, <2>2, <2>3, <1>d DEF PoolTypes
  <2>5. Counts'
    <3>1. PermitsHeld'
      BY <2>1, <2>2, <1>a, <1>c, <1>d, Counted DEF Counts, PermitsHeld, One
    <3>2. ConnectionsHeld'
      BY <2>1, <2>2, <1>a, <1>c, <1>d, Counted DEF Counts, ConnectionsHeld, One
    <3> QED
      BY <3>1, <3>2 DEF Counts
  <2>6. Guarded'
    BY <2>1, <2>3 DEF Guarded, Goto, PoolTypes, Release
  <2>7. InQueue'
    BY <2>1, <2>3 DEF InQueue, Goto, PoolTypes
  <2> QED
    BY <2>4, <2>5, <2>6, <2>7
<1>7. ASSUME NEW t \in Tasks, EndTransaction(t) PROVE PoolInv'
  <2>1. Goto(t, "returning") /\ "returning" \in Labels /\ at[t] = "running"
    BY <1>7 DEF EndTransaction, Labels
  <2>2. permits' = permits + 1 /\ UNCHANGED <<idle, left, closing>>
    BY <1>7 DEF EndTransaction, PoolTypes
  <2>3. UNCHANGED <<kind, waiting, holder, queue>>
    BY <1>7 DEF EndTransaction
  <2>4. PoolTypes'
    <3>1. at' \in [Tasks -> Labels] /\ holder' \in [Locks -> Tasks \cup {Nobody}]
      BY <2>1, <2>3, Moves DEF PoolTypes, Release
    <3>2. waiting' \in [Locks -> Seq(Tasks)] /\ queue' \in Seq(Tasks)
      BY <2>3 DEF PoolTypes
    <3> QED
      BY <3>1, <3>2, <2>2, <2>3, <1>d DEF PoolTypes
  <2>5. Counts'
    <3>1. PermitsHeld'
      BY <2>1, <2>2, <1>a, <1>c, <1>d, Counted DEF Counts, PermitsHeld, One
    <3>2. ConnectionsHeld'
      BY <2>1, <2>2, <1>a, <1>c, <1>d, Counted DEF Counts, ConnectionsHeld, One
    <3> QED
      BY <3>1, <3>2 DEF Counts
  <2>6. Guarded'
    BY <2>1, <2>3 DEF Guarded, Goto, PoolTypes, Release
  <2>7. InQueue'
    BY <2>1, <2>3 DEF InQueue, Goto, PoolTypes
  <2> QED
    BY <2>4, <2>5, <2>6, <2>7
<1>8. ASSUME NEW t \in Tasks, Return(t) PROVE PoolInv'
  <2>1. Goto(t, "idle") /\ "idle" \in Labels /\ at[t] = "returning"
    BY <1>8 DEF Return, Labels
  <2>2. idle' = idle + 1 /\ UNCHANGED <<permits, left, closing>>
    BY <1>8 DEF Return, PoolTypes
  <2>3. UNCHANGED <<kind, waiting, queue>> /\ Release(t)
    BY <1>8 DEF Return
  <2>4. PoolTypes'
    <3>1. at' \in [Tasks -> Labels] /\ holder' \in [Locks -> Tasks \cup {Nobody}]
      BY <2>1, <2>3, Moves DEF PoolTypes, Release
    <3>2. waiting' \in [Locks -> Seq(Tasks)] /\ queue' \in Seq(Tasks)
      BY <2>3 DEF PoolTypes
    <3> QED
      BY <3>1, <3>2, <2>2, <2>3, <1>d DEF PoolTypes
  <2>5. Counts'
    <3>1. PermitsHeld'
      BY <2>1, <2>2, <1>a, <1>c, <1>d, Counted DEF Counts, PermitsHeld, One
    <3>2. ConnectionsHeld'
      BY <2>1, <2>2, <1>a, <1>c, <1>d, Counted DEF Counts, ConnectionsHeld, One
    <3> QED
      BY <3>1, <3>2 DEF Counts
  <2>6. Guarded'
    BY <2>1, <2>3 DEF Guarded, Goto, PoolTypes, Release
  <2>7. InQueue'
    BY <2>1, <2>3 DEF InQueue, Goto, PoolTypes
  <2> QED
    BY <2>4, <2>5, <2>6, <2>7
<1>9. ASSUME NEW t \in Tasks, Cancel(t) PROVE PoolInv'
  <2>1. Goto(t, "idle") /\ "idle" \in Labels /\ at[t] \in {"lock", "permit", "running", "returning"}
    BY <1>9 DEF Cancel, Labels
  <2>2. /\ UNCHANGED <<permits, idle>>
        /\ left' = IF at[t] = "running" THEN left + 1 ELSE left
        /\ closing' = IF at[t] = "returning" THEN closing + 1 ELSE closing
    BY <1>9 DEF Cancel, PoolTypes
  <2>3. /\ UNCHANGED kind /\ Release(t) /\ queue' = RemoveFirst(queue, t)
        /\ waiting' = [l \in Locks |-> RemoveFirst(waiting[l], t)]
    BY <1>9 DEF Cancel
  <2>4. PoolTypes'
    <3>1. at' \in [Tasks -> Labels] /\ holder' \in [Locks -> Tasks \cup {Nobody}]
      BY <2>1, <2>3, Moves DEF PoolTypes, Release
    <3>2. waiting' \in [Locks -> Seq(Tasks)] /\ queue' \in Seq(Tasks)
      BY <2>3, LeaveQueue DEF PoolTypes
    <3> QED
      BY <3>1, <3>2, <2>2, <2>3, <1>d DEF PoolTypes
  <2>5. Counts'
    <3>1. PermitsHeld'
      BY <2>1, <2>2, <1>a, <1>c, <1>d, Counted DEF Counts, PermitsHeld, One
    <3>2. ConnectionsHeld'
      BY <2>1, <2>2, <1>a, <1>c, <1>d, Counted DEF Counts, ConnectionsHeld, One
    <3> QED
      BY <3>1, <3>2 DEF Counts
  <2>6. Guarded'
    BY <2>1, <2>3 DEF Guarded, Goto, PoolTypes, Release
  <2>7. InQueue'
    <3> SUFFICES ASSUME NEW s \in Tasks, at'[s] = "lock"
                 PROVE  /\ kind'[s] \in Locks
                        /\ \E i \in 1..Len(waiting'[kind'[s]]) : waiting'[kind'[s]][i] = s
      BY DEF InQueue
    <3>1. s # t /\ at[s] = "lock" /\ kind'[s] = kind[s]
      BY <2>1, <2>3 DEF Goto, PoolTypes
    <3>2. PICK i \in 1..Len(waiting[kind[s]]) : waiting[kind[s]][i] = s
      BY <3>1 DEF InQueue
    <3>3. kind[s] \in Locks /\ waiting[kind[s]] \in Seq(Tasks)
      BY <3>1 DEF InQueue, PoolTypes
    <3>4. waiting'[kind[s]] = RemoveFirst(waiting[kind[s]], t)
      BY <2>3, <3>3
    <3>5. Waits(waiting[kind[s]], s)
      BY <3>2 DEF Waits
    <3>6. Waits(RemoveFirst(waiting[kind[s]], t), s)
      BY <3>1, <3>3, <3>5, LeaveQueue
    <3> QED
      BY <3>1, <3>3, <3>4, <3>6 DEF Waits
  <2> QED
    BY <2>4, <2>5, <2>6, <2>7
<1>10. CASE EndLeft
  <2>1. /\ UNCHANGED <<at, kind, waiting, holder, queue, idle>>
        /\ left' = left - 1 /\ left' \in Nat /\ permits' = permits + 1 /\ closing' = closing + 1
    BY <1>10 DEF EndLeft, PoolTypes
  <2>2. PoolTypes' /\ Guarded' /\ InQueue'
    BY <2>1 DEF PoolTypes, Guarded, InQueue
  <2>3. Counts'
    BY <2>1, <1>a, <1>b, <1>c, <1>d DEF Counts, PermitsHeld, ConnectionsHeld
  <2> QED
    BY <2>2, <2>3
<1>11. CASE ReturnLeft
  <2>1. /\ UNCHANGED <<at, kind, waiting, holder, queue, permits, left>>
        /\ closing' = closing - 1 /\ closing' \in Nat /\ idle' = idle + 1
    BY <1>11 DEF ReturnLeft, PoolTypes
  <2>2. PoolTypes' /\ Guarded' /\ InQueue'
    BY <2>1 DEF PoolTypes, Guarded, InQueue
  <2>3. Counts'
    BY <2>1, <1>a, <1>b, <1>c, <1>d DEF Counts, PermitsHeld, ConnectionsHeld
  <2> QED
    BY <2>2, <2>3
<1>12. CASE UNCHANGED connVars
  BY <1>12, <1>b DEF connVars, PoolTypes, Counts, PermitsHeld, ConnectionsHeld, Guarded, InQueue
<1> QED
  BY <1>1, <1>2, <1>3, <1>4, <1>5, <1>6, <1>7, <1>8, <1>9, <1>10, <1>11, <1>12 DEF PoolNext

\* Tasks at two places.
LEMMA AtEither ==
    ASSUME NEW one, NEW two, one # two
    PROVE  Cardinality(At(one) \cup At(two)) = Cardinality(At(one)) + Cardinality(At(two))
<1>1. At(one) \cap At(two) = {}
  BY DEF At
<1>2. Cardinality(At(one) \cap At(two)) = 0
  BY <1>1, FS_EmptySet
<1>3. Cardinality(At(one)) \in Nat /\ Cardinality(At(two)) \in Nat
  BY AtFinite
<1>4. Cardinality(At(one) \cup At(two))
         = Cardinality(At(one)) + Cardinality(At(two)) - Cardinality(At(one) \cap At(two))
  BY AtFinite, FS_Union
<1> QED
  BY <1>2, <1>3, <1>4

LEMMA PoolAccounts ==
    ASSUME PoolInv
    PROVE  PoolTypeOK
<1>1. /\ Cardinality(Blocked) = Cardinality(At("get")) + Cardinality(At("using"))
      /\ Cardinality(At("using") \cup At("returning"))
            = Cardinality(At("using")) + Cardinality(At("returning"))
  BY AtEither DEF Blocked
<1>2. /\ Cardinality(At("get")) \in Nat /\ Cardinality(At("using")) \in Nat
      /\ Cardinality(At("running")) \in Nat /\ Cardinality(At("returning")) \in Nat
  BY AtFinite
<1>3. MaxConns \in Nat
  BY ConnectionsAssumption DEF MaxConns
<1> QED
  BY <1>1, <1>2, <1>3 DEF PoolInv, PoolTypes, Labels, Counts, PermitsHeld, ConnectionsHeld,
     Running, PoolTypeOK

LEMMA PoolServes ==
    ASSUME PoolInv
    PROVE  GetsServed
BY AtFinite, ConnectionsAssumption DEF PoolInv, PoolTypes, Counts, PermitsHeld,
     ConnectionsHeld, GetsServed, MaxConns

LEMMA PoolOne ==
    ASSUME PoolInv
    PROVE  OneAtATime
<1> SUFFICES ASSUME NEW l \in Locks
             PROVE  Cardinality({t \in At("running") : kind[t] = l}) <= 1
  BY DEF OneAtATime
<1> DEFINE S == {t \in At("running") : kind[t] = l}
<1>1. S \subseteq {holder[l]}
  BY DEF PoolInv, Guarded, At
<1>2. S = {} \/ S = {holder[l]}
  BY <1>1
<1>3. Cardinality({}) = 0 /\ Cardinality({holder[l]}) = 1
  BY FS_EmptySet, FS_Singleton
<1> QED
  BY <1>2, <1>3

-----------------------------------------------------------------------------
\* A worker that takes a connection out of the pool waits for no transaction:
\* a permit stands for a connection that is there or about to be.
THEOREM ConnectionsServe == PoolSpec => []GetsServed
BY PoolInitInv, PoolNextInv, PoolServes, PTL DEF PoolSpec

\* No two requests have a transaction under the same mutex at once, but for transactions
\* that outlive a request the client dropped, whose guard goes with it.
THEOREM OneTransactionPerMutex == PoolSpec => []OneAtATime
BY PoolInitInv, PoolNextInv, PoolOne, PTL DEF PoolSpec

-----------------------------------------------------------------------------
(* Both, side by side: MCSpec for any constants.                            *)

\* Every variable of the middleware and of the pool keeps its type; in particular
\* LAST_POSTED_SNAPSHOT is initialised whenever requests are served, and every permit and
\* every connection is in the pool or with a request that gives it back.
THEOREM TypesCorrect == MCSpec => []TypesOK
<1>1. MCInit => Inv /\ PoolInv
  BY InitInv, PoolInitInv DEF MCInit
<1>2. Inv /\ PoolInv /\ [MCNext]_<<part, vars, connVars>> => Inv' /\ PoolInv'
  <2> SUFFICES ASSUME Inv, PoolInv, [MCNext]_<<part, vars, connVars>>
               PROVE  [Next]_vars /\ [PoolNext]_connVars
    BY NextInv, PoolNextInv
  <2> QED
    BY DEF MCNext
<1>3. Inv /\ PoolInv => TypesOK
  BY PoolAccounts DEF Inv, TypesOK
<1> QED
  BY <1>1, <1>2, <1>3, PTL DEF MCSpec
=============================================================================
