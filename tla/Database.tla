----------------------------- MODULE Database -----------------------------
(***************************************************************************)
(* The rows the handlers work on, as PostgreSQL keeps them for READ        *)
(* COMMITTED transactions, which db.rs and every handler use.  A row is a  *)
(* record.  A transaction sees the committed rows and its own changes.     *)
(*                                                                         *)
(* A statement that would have to wait for another transaction is not      *)
(* enabled until that one ends.  A statement that would be rejected is     *)
(* never enabled: what follows is the transaction's abort, as is what      *)
(* follows a deadlock, and Abort is always possible.                       *)
(***************************************************************************)
EXTENDS Naturals

CONSTANTS
    Reqs,            \* requests, each with at most one open transaction
    SameKey(_, _),   \* two rows agree on a primary key or a UNIQUE column
    Parents(_)       \* rows a row refers to by a foreign key

VARIABLES
    db,     \* committed rows
    ins,    \* rows each open transaction has inserted
    del     \* committed rows each open transaction has deleted

NothingPending ==
    /\ ins = [r \in Reqs |-> {}]
    /\ del = [r \in Reqs |-> {}]

View(r) == (db \ del[r]) \cup ins[r]

\* Rows that refer to one of rows, which ON DELETE CASCADE deletes with them.
Cascade(r, rows) == rows \cup {row \in View(r) : Parents(row) \cap rows # {}}

\* No other transaction has deleted one of rows or inserted a row that refers to one.
Deletable(r, rows) ==
    \A s \in Reqs \ {r} :
        /\ rows \cap del[s] = {}
        /\ \A row \in ins[s] : Parents(row) \cap rows = {}

\* No other transaction has touched a key of new or deleted a row new refers to.
Insertable(r, new) ==
    \A s \in Reqs \ {r}, row \in new :
        /\ \A other \in ins[s] \cup del[s] : ~SameKey(row, other)
        /\ Parents(row) \cap del[s] = {}

\* The constraints accept new among rows.
Accepted(rows, new) ==
    \A row \in new :
        /\ \A other \in rows : ~SameKey(row, other)
        /\ Parents(row) \subseteq rows \cup new

\* Delete gone, of which those still there are rows, and insert new.
Replace(r, gone, new) ==
    LET rows == gone \cap View(r) IN
    /\ Deletable(r, rows)
    /\ Insertable(r, new)
    /\ Accepted(View(r) \ rows, new)
    /\ ins' = [ins EXCEPT ![r] = (@ \ rows) \cup new]
    /\ del' = [del EXCEPT ![r] = @ \cup (rows \cap db)]
    /\ UNCHANGED db

Insert(r, new) == Replace(r, {}, new)

Forget(r) ==
    /\ ins' = [ins EXCEPT ![r] = {}]
    /\ del' = [del EXCEPT ![r] = {}]

\* Delete gone as the last statement, and commit.
Publish(r, gone) ==
    LET rows == Cascade(r, gone \cap View(r)) IN
    /\ Deletable(r, rows)
    /\ db' = View(r) \ rows
    /\ Forget(r)

Rollback(r) == Forget(r) /\ UNCHANGED db
=============================================================================
