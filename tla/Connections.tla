---------------------------- MODULE Connections ----------------------------
(***************************************************************************)
(* How requests get at the database (db.rs, tagging_update and delete in   *)
(* api/post.rs).  Requests run on a few worker threads and wait there      *)
(* without blocking them: for an asynchronous mutex, when they tag posts   *)
(* or delete one with relations, then for one of as many permits as the    *)
(* pool has connections.  Taking a connection out of the pool blocks.      *)
(* What transaction is given runs on a thread of its own, and goes on when *)
(* the request times out or its client is gone, which is noticed only      *)
(* where a request waits.                                                  *)
(*                                                                         *)
(* tokio's semaphores and mutexes serve in the order of arrival: a waiter  *)
(* among the first in the queue, as many as are free, is served when it    *)
(* next runs, and if it is dropped before, the one behind it is.           *)
(***************************************************************************)
EXTENDS Naturals, FiniteSets, SequencesExt

CONSTANTS
    Tasks,     \* requests at a time; each is many of them one after the other
    Locks,     \* POST_TAG_MUTEX and ANTI_DEADLOCK_MUTEX
    Workers,   \* worker threads
    Nobody     \* not a task

ASSUME ConnectionsAssumption ==
    /\ IsFiniteSet(Tasks)
    /\ Workers \in Nat \ {0}
    /\ Nobody \notin Tasks
    /\ Locks \cap {"read", "write"} = {}

\* create_connection_pool, where the image threads are no more than the workers.
MaxConns == Workers + 1

Kinds == {"read", "write"} \cup Locks

VARIABLES
    at,        \* what each task does or waits for
    kind,      \* get, transaction, or transaction under a mutex
    waiting,   \* by mutex, the tasks that wait for it
    holder,    \* by mutex, the task that has its guard
    queue,     \* tasks that wait for a permit
    permits,   \* permits that no task has
    idle,      \* connections in the pool
    left,      \* transactions whose request is gone
    closing    \* connections of such transactions, without their permit

connVars == <<at, kind, waiting, holder, queue, permits, idle, left, closing>>

At(label) == {t \in Tasks : at[t] = label}

Blocked == At("get") \cup At("using")

\* Transactions that run, each with a permit and a connection.
Running == Cardinality(At("running")) + left

\* Every permit and every connection is somewhere.
PoolTypeOK ==
    /\ at \in [Tasks -> {"idle", "lock", "permit", "get", "using", "running", "returning"}]
    /\ kind \in [Tasks -> Kinds]
    /\ waiting \in [Locks -> Seq(Tasks)]
    /\ holder \in [Locks -> Tasks \cup {Nobody}]
    /\ queue \in Seq(Tasks)
    /\ {permits, idle, left, closing} \subseteq 0..MaxConns
    /\ permits + Cardinality(Blocked) + Running = MaxConns
    /\ idle + Cardinality(At("using") \cup At("returning")) + Running + closing = MaxConns

PoolInit ==
    /\ at = [t \in Tasks |-> "idle"]
    /\ kind = [t \in Tasks |-> "read"]
    /\ waiting = [l \in Locks |-> <<>>]
    /\ holder = [l \in Locks |-> Nobody]
    /\ queue = <<>>
    /\ permits = MaxConns /\ idle = MaxConns
    /\ left = 0 /\ closing = 0

\* A task runs only on a worker that none blocks.
OnWorker == Cardinality(Blocked) < Workers

Goto(t, label) == at' = [at EXCEPT ![t] = label]

Release(t) == holder' = [l \in Locks |-> IF holder[l] = t THEN Nobody ELSE holder[l]]

-----------------------------------------------------------------------------

AcquirePermit(t) ==
    /\ Goto(t, "permit")
    /\ queue' = Append(queue, t)
    /\ UNCHANGED <<permits, idle, left, closing>>

\* get and transaction; tagging_update and delete, where there is something to lock.
Arrive(t, k) ==
    /\ at[t] = "idle" /\ OnWorker
    /\ kind' = [kind EXCEPT ![t] = k]
    /\ UNCHANGED holder
    /\ IF k \in Locks
       THEN /\ Goto(t, "lock")
            /\ waiting' = [waiting EXCEPT ![k] = Append(@, t)]
            /\ UNCHANGED <<queue, permits, idle, left, closing>>
       ELSE AcquirePermit(t) /\ UNCHANGED waiting

\* Mutant: the guard is dropped at once.
LockBriefly(t) ==
    LET l == kind[t] IN
    /\ at[t] = "lock" /\ OnWorker
    /\ holder[l] = Nobody /\ Head(waiting[l]) = t
    /\ waiting' = [waiting EXCEPT ![l] = Tail(@)]
    /\ AcquirePermit(t)
    /\ UNCHANGED <<kind, holder>>

Lock(t) ==
    LET l == kind[t] IN
    /\ at[t] = "lock" /\ OnWorker
    /\ holder[l] = Nobody /\ Head(waiting[l]) = t
    /\ waiting' = [waiting EXCEPT ![l] = Tail(@)]
    /\ holder' = [holder EXCEPT ![l] = t]
    /\ AcquirePermit(t)
    /\ UNCHANGED kind

Permit(t) ==
    /\ at[t] = "permit" /\ OnWorker
    /\ \E i \in 1..permits : i <= Len(queue) /\ queue[i] = t
    /\ permits' = permits - 1
    /\ queue' = RemoveFirst(queue, t)
    /\ Goto(t, "get")
    /\ UNCHANGED <<kind, waiting, holder, idle, left, closing>>

\* pool.get() has the connection: the handler uses it, or a blocking task does.
Connect(t) ==
    /\ at[t] = "get" /\ idle > 0
    /\ idle' = idle - 1
    /\ Goto(t, IF kind[t] = "read" THEN "using" ELSE "running")
    /\ UNCHANGED <<kind, waiting, holder, queue, permits, left, closing>>

\* pool.get() fails: the database is not there, or it has waited too long.
GetFails(t) ==
    /\ at[t] = "get"
    /\ permits' = permits + 1
    /\ Release(t)
    /\ Goto(t, "idle")
    /\ UNCHANGED <<kind, waiting, queue, idle, left, closing>>

\* AsyncConnection is dropped: first its connection, then its permit.
Drop(t) ==
    /\ at[t] = "using"
    /\ idle' = idle + 1
    /\ permits' = permits + 1
    /\ Goto(t, "idle")
    /\ UNCHANGED <<kind, waiting, holder, queue, left, closing>>

\* The closure of transaction ends: _permit, its local, is dropped before conn.
EndTransaction(t) ==
    /\ at[t] = "running"
    /\ permits' = permits + 1
    /\ Goto(t, "returning")
    /\ UNCHANGED <<kind, waiting, holder, queue, idle, left, closing>>

Return(t) ==
    /\ at[t] = "returning"
    /\ idle' = idle + 1
    /\ Release(t)
    /\ Goto(t, "idle")
    /\ UNCHANGED <<kind, waiting, queue, permits, left, closing>>

\* The same of a transaction whose request is gone.
EndLeft ==
    /\ left > 0
    /\ left' = left - 1
    /\ permits' = permits + 1
    /\ closing' = closing + 1
    /\ UNCHANGED <<at, kind, waiting, holder, queue, idle>>

ReturnLeft ==
    /\ closing > 0
    /\ closing' = closing - 1
    /\ idle' = idle + 1
    /\ UNCHANGED <<at, kind, waiting, holder, queue, permits, left>>

\* Mutant: the request keeps the permit, and it goes with it.
CancelWithPermit(t) ==
    /\ at[t] \in {"lock", "permit", "running", "returning"}
    /\ waiting' = [l \in Locks |-> RemoveFirst(waiting[l], t)]
    /\ queue' = RemoveFirst(queue, t)
    /\ left' = IF at[t] = "running" THEN left + 1 ELSE left
    /\ closing' = IF at[t] = "returning" THEN closing + 1 ELSE closing
    /\ permits' = IF at[t] = "running" THEN permits + 1 ELSE permits
    /\ Release(t)
    /\ Goto(t, "idle")
    /\ UNCHANGED <<kind, idle>>

\* Mutant: the queue keeps a waiter that is gone.
CancelInQueue(t) ==
    /\ at[t] \in {"lock", "permit", "running", "returning"}
    /\ waiting' = [l \in Locks |-> RemoveFirst(waiting[l], t)]
    /\ left' = IF at[t] = "running" THEN left + 1 ELSE left
    /\ closing' = IF at[t] = "returning" THEN closing + 1 ELSE closing
    /\ Release(t)
    /\ Goto(t, "idle")
    /\ UNCHANGED <<kind, idle, permits, queue>>

\* The request times out, or its client is gone: it leaves the queues, and
\* gives up the mutex; the transaction it may be waiting for goes on.
Cancel(t) ==
    /\ at[t] \in {"lock", "permit", "running", "returning"}
    /\ waiting' = [l \in Locks |-> RemoveFirst(waiting[l], t)]
    /\ queue' = RemoveFirst(queue, t)
    /\ left' = IF at[t] = "running" THEN left + 1 ELSE left
    /\ closing' = IF at[t] = "returning" THEN closing + 1 ELSE closing
    /\ Release(t)
    /\ Goto(t, "idle")
    /\ UNCHANGED <<kind, idle, permits>>

PoolNext ==
    \/ \E t \in Tasks :
          \/ \E k \in Kinds : Arrive(t, k)
          \/ Lock(t)
          \/ Permit(t)
          \/ Connect(t)
          \/ GetFails(t)
          \/ Drop(t)
          \/ EndTransaction(t)
          \/ Return(t)
          \/ Cancel(t)
    \/ EndLeft
    \/ ReturnLeft

\* Transactions end, threads go on, and a task that may run is not passed over
\* for ever, however often others block all workers or take the connection.
PoolFairness ==
    /\ \A t \in Tasks :
          /\ SF_connVars(Lock(t) \/ Permit(t) \/ Connect(t))
          /\ WF_connVars(Drop(t) \/ EndTransaction(t) \/ Return(t))
    /\ WF_connVars(EndLeft) /\ WF_connVars(ReturnLeft)

PoolSpec == PoolInit /\ [][PoolNext]_connVars /\ PoolFairness

-----------------------------------------------------------------------------
(* Properties.                                                              *)

\* A worker that is blocked in pool.get() waits for no transaction: for each
\* there is a connection in the pool or one whose transaction has ended.  This
\* is what the permits are for, and why a closure keeps its own.
GetsServed ==
    Cardinality(At("get")) <= idle + closing + Cardinality(At("returning"))

\* Only one request at a time has a transaction under each mutex, so that two
\* posts are not tagged at once, but for transactions whose request was dropped.
OneAtATime ==
    \A l \in Locks : Cardinality({t \in At("running") : kind[t] = l}) <= 1

\* A request that waits for a mutex, a permit or a connection gets a connection
\* or gives up, whatever is cancelled meanwhile.
Served ==
    \A t \in Tasks :
        at[t] \in {"lock", "permit", "get"} ~> at[t] \notin {"lock", "permit", "get"}
=============================================================================
