---------------------------- MODULE Statistics ----------------------------
(***************************************************************************)
(* Row counts, scores, sizes and last times that the database keeps beside *)
(* its tables: the triggers of migration 013, which bring them up to date  *)
(* as a transaction commits, and the administrator's task that recomputes  *)
(* them while the server runs (admin/database.rs).                         *)
(*                                                                         *)
(* A column that is updated and counted is a row of its own: the category  *)
(* of a tag or pool, the size of a post.  A transaction's statistics rows  *)
(* are locked together, when its deferred triggers run; the locks of its   *)
(* other rows are those of Database.  Thumbnails and avatars go through    *)
(* the statements that sizes go through.                                   *)
(***************************************************************************)
EXTENDS Integers, Sequences, FiniteSetsExt

CONSTANTS
    Reqs,       \* concurrent requests
    MaxReqs,    \* bound: the transactions of a behaviour
    Rows,       \* the rows a behaviour starts with
    Changes,    \* rows a transaction may delete and insert
    Keys,       \* by statistics table, the keys of the rows looked at
    FileSize,   \* by post, the size of its file
    Resets,     \* whether the administrator's task is started
    None        \* not read

-----------------------------------------------------------------------------
(* Rows, and what each counts for.                                          *)

\* The statistics tables and their columns, in the order the reset task reads them.
Columns ==
    [database      |-> <<"comment_count", "pool_count", "post_count", "tag_count", "user_count",
                         "disk_usage">>,
     comment       |-> <<"score">>,
     pool_category |-> <<"usage_count">>,
     pool          |-> <<"post_count">>,
     tag_category  |-> <<"usage_count">>,
     tag           |-> <<"usage_count", "implication_count", "suggestion_count">>,
     user          |-> <<"comment_count", "favorite_count", "upload_count">>,
     post          |-> <<"tag_count", "pool_count", "note_count", "comment_count",
                         "relation_count", "score", "favorite_count", "feature_count",
                         "last_comment_time", "last_favorite_time", "last_feature_time">>]

StatTables == DOMAIN Columns

\* A statistic: its table, its column and its key.
Stats ==
    UNION {{<<t, Columns[t][i], k>> : i \in DOMAIN Columns[t], k \in Keys[t]} : t \in StatTables}

Db(column) == <<"database", column, 0>>

\* The update_..._statistics functions: what a row adds to which statistics.
Adds(row) ==
    CASE row.table = "comment" ->
            {<<Db("comment_count"), 1>>, <<<<"post", "comment_count", row.post>>, 1>>,
             <<<<"user", "comment_count", row.user>>, 1>>}
      [] row.table = "comment_score" -> {<<<<"comment", "score", row.comment>>, row.score>>}
      [] row.table = "pool"          -> {<<Db("pool_count"), 1>>}
      [] row.table = "pool_filed"    -> {<<<<"pool_category", "usage_count", row.category>>, 1>>}
      [] row.table = "pool_post"     -> {<<<<"pool", "post_count", row.pool>>, 1>>,
                                         <<<<"post", "pool_count", row.post>>, 1>>}
      [] row.table = "post"          -> {<<Db("post_count"), 1>>,
                                         <<<<"user", "upload_count", row.user>>, 1>>}
      [] row.table = "size"          -> {<<Db("disk_usage"), row.size>>}
      [] row.table = "post_relation" -> {<<<<"post", "relation_count", row.parent>>, 1>>}
      [] row.table = "post_tag"      -> {<<<<"post", "tag_count", row.post>>, 1>>,
                                         <<<<"tag", "usage_count", row.tag>>, 1>>}
      [] row.table = "post_favorite" -> {<<<<"post", "favorite_count", row.post>>, 1>>,
                                         <<<<"user", "favorite_count", row.user>>, 1>>}
      [] row.table = "post_feature"  -> {<<<<"post", "feature_count", row.post>>, 1>>}
      [] row.table = "post_note"     -> {<<<<"post", "note_count", row.post>>, 1>>}
      [] row.table = "post_score"    -> {<<<<"post", "score", row.post>>, row.score>>}
      [] row.table = "tag"           -> {<<Db("tag_count"), 1>>}
      [] row.table = "tag_filed"     -> {<<<<"tag_category", "usage_count", row.category>>, 1>>}
      [] row.table = "tag_implication" -> {<<<<"tag", "implication_count", row.parent>>, 1>>}
      [] row.table = "tag_suggestion"  -> {<<<<"tag", "suggestion_count", row.parent>>, 1>>}
      [] row.table = "user"          -> {<<Db("user_count"), 1>>}
      [] OTHER -> {}

\* Times are kept as a maximum.
TimeColumn(row) ==
    CASE row.table = "comment"       -> {<<"post", "last_comment_time", row.post>>}
      [] row.table = "post_favorite" -> {<<"post", "last_favorite_time", row.post>>}
      [] row.table = "post_feature"  -> {<<"post", "last_feature_time", row.post>>}
      [] OTHER -> {}

IsTime(c) == c[2] \in {"last_comment_time", "last_favorite_time", "last_feature_time"}

\* What the reset task counts: relations, implications and suggestions by the child.
CountedByReset(row) ==
    CASE row.table = "tag_implication" -> {<<<<"tag", "implication_count", row.child>>, 1>>}
      [] row.table = "tag_suggestion"  -> {<<<<"tag", "suggestion_count", row.child>>, 1>>}
      [] row.table = "post_relation"   -> {<<<<"post", "relation_count", row.child>>, 1>>}
      [] OTHER -> Adds(row)

Sum(counted, c) ==
    MapThenSumSet(LAMBDA row : MapThenSumSet(LAMBDA x : x[2], {x \in counted[row] : x[1] = c}),
                  DOMAIN counted)

AddedBy(rows) == [row \in rows |-> Adds(row)]

Last(rows, c) == Max({0} \cup {row.time : row \in {w \in rows : c \in TimeColumn(w)}})

\* The statistic as the tables have it, and as the reset task counts it.
Exact(rows, c)   == IF IsTime(c) THEN Last(rows, c) ELSE Sum(AddedBy(rows), c)
Recount(rows, c) == IF IsTime(c) THEN Last(rows, c) ELSE Sum([row \in rows |-> CountedByReset(row)], c)

\* The statistics rows that rows of the tables are counted in.
StatRows(rows) ==
    UNION {{<<x[1][1], x[1][3]>> : x \in Adds(row)} : row \in rows}

Tag(t)       == [table |-> "tag", id |-> t]
Category(c)  == [table |-> "tag_category", id |-> c]
Filed(t, c)  == [table |-> "tag_filed", tag |-> t, category |-> c]
Post(p)      == [table |-> "post", id |-> p, user |-> "none"]
Size(p, n)   == [table |-> "size", post |-> p, size |-> n]

SameKey(row, other) ==
    \/ row = other
    \/ row.table = "tag_filed" /\ other.table = "tag_filed" /\ row.tag = other.tag
    \/ row.table = "size" /\ other.table = "size" /\ row.post = other.post

\* Of the foreign keys, those the changes here go along.
Parents(row) ==
    CASE row.table = "tag_filed"       -> {Tag(row.tag), Category(row.category)}
      [] row.table = "tag_implication" -> {Tag(row.parent), Tag(row.child)}
      [] row.table = "post_tag"        -> {Post(row.post), Tag(row.tag)}
      [] row.table \in {"post_favorite", "comment", "size"} -> {Post(row.post)}
      [] OTHER -> {}

-----------------------------------------------------------------------------

VARIABLES
    db, ins, del,  \* see Database
    stats,         \* the statistics; 0 of a row that is not there
    pc,            \* where each transaction is
    times,         \* what its triggers have computed of the times
    begun,         \* transactions that have begun
    task,          \* the step of the reset task; 0 before it
    todo,          \* statistics the step has still to write
    read,          \* what it has read of them
    stale,         \* history: statistics changed since it has read them
    skewed         \* history: statistics a known fault has touched

DB == INSTANCE Database

statVars == <<db, ins, del, stats, pc, times, begun, task, todo, read, stale, skewed>>

reqVars  == <<pc, times, begun>>
taskVars == <<task, todo, read>>

\* The steps of reset_statistics_impl and reset_relation_stats; the last is the end.
Steps == <<"disk", "sizes", "database", "comment", "pool_category", "pool", "tag_category",
           "tag", "user", "post", "done">>

TypeOK ==
    /\ stats \in [Stats -> Int]
    /\ pc \in [Reqs -> {"idle", "open", "waiting", "locked"}]
    /\ times \in [Reqs -> [{c \in Stats : IsTime(c)} -> Nat]]
    /\ begun \in 0..MaxReqs
    /\ task \in 0..Len(Steps)
    /\ todo \subseteq Stats /\ stale \subseteq Stats /\ skewed \subseteq Stats
    /\ read \in [Stats -> Int \cup {None}]

NoTimes == [c \in {d \in Stats : IsTime(d)} |-> 0]

Start ==
    /\ db = Rows
    /\ DB!NothingPending
    /\ stats = [c \in Stats |-> Exact(Rows, c)]
    /\ pc = [r \in Reqs |-> "idle"]
    /\ times = [r \in Reqs |-> NoTimes]
    /\ begun = 0
    /\ task = 0
    /\ todo = {}
    /\ read = [c \in Stats |-> None]
    /\ stale = {} /\ skewed = {}

-----------------------------------------------------------------------------
(* Transactions.                                                            *)

Goto(r, label) == pc' = [pc EXCEPT ![r] = label]

Changed(r) == ins[r] \cup del[r]

Begin(r) ==
    /\ pc[r] = "idle" /\ begun < MaxReqs
    /\ begun' = begun + 1
    /\ Goto(r, "open")
    /\ UNCHANGED <<stats, times, taskVars, stale, skewed>>

\* Its statements: rows go, with those that refer to them, and rows come.
Change(r, change) ==
    /\ Begin(r)
    /\ change.del \subseteq db
    /\ DB!Replace(r, DB!Cascade(r, change.del), change.ins)

\* The tags of a category that goes get the default category.
DeleteCategory(r, c) ==
    LET filed == {row \in db : row.table = "tag_filed" /\ row.category = c}
    IN  /\ Begin(r)
        /\ Category(c) \in db /\ c # 0
        /\ DB!Replace(r, {Category(c)} \cup filed, {Filed(row.tag, 0) : row \in filed})

\* Another transaction has the lock of a statistics row that this one writes.
Contended(r) ==
    \E s \in Reqs \ {r} : pc[s] = "locked" /\ StatRows(Changed(s)) \cap StatRows(Changed(r)) # {}

LastTimes(r) == [c \in DOMAIN NoTimes |-> Last(DB!View(r), c)]

TimesOf(r) == UNION {TimeColumn(row) : row \in Changed(r)} \cap Stats

\* COMMIT: the deferred triggers run.
Lock(r) ==
    /\ pc[r] = "open"
    /\ ~Contended(r)
    /\ times' = [times EXCEPT ![r] = LastTimes(r)]
    /\ Goto(r, "locked")
    /\ UNCHANGED <<db, ins, del, stats, begun, taskVars, stale, skewed>>

\* A statement that waits for a lock has read the times already.  Those of
\* comments wait for the row of database_statistics before they read.
Wait(r) ==
    /\ pc[r] = "open" /\ TimesOf(r) # {}
    /\ <<"database", 0>> \notin StatRows(Changed(r))
    /\ Contended(r)
    /\ times' = [times EXCEPT ![r] = LastTimes(r)]
    /\ Goto(r, "waiting")
    /\ UNCHANGED <<db, ins, del, stats, begun, taskVars, stale, skewed>>

Resume(r) ==
    /\ pc[r] = "waiting"
    /\ ~Contended(r)
    /\ Goto(r, "locked")
    /\ skewed' = skewed \cup TimesOf(r)
    /\ UNCHANGED <<db, ins, del, stats, times, begun, taskVars, stale>>

\* The categories it deletes: default_category_update_trigger moves their count,
\* and so does the update trigger of each of their tags.
Deleted(r) == {row.id : row \in {w \in del[r] : w.table = "tag_category"}}

MovedCount(r, c) ==
    IF c = <<"tag_category", "usage_count", 0>>
    THEN MapThenSumSet(LAMBDA k : stats[<<"tag_category", "usage_count", k>>], Deleted(r))
    ELSE 0

\* The rows statistics are kept for.
Kept(rows, c) ==
    c[1] = "database" \/ (\E row \in rows : row.table = c[1] /\ row.id = c[3])

\* Mutant: the trigger of tags leaves their category's count alone.
AfterUncounted(r) ==
    LET Amount(c) == Sum(AddedBy(ins[r]), c) - Sum(AddedBy(del[r]), c)
    IN  [c \in Stats |->
            IF ~Kept(DB!View(r), c) THEN 0
            ELSE IF IsTime(c) THEN (IF c \in TimesOf(r) THEN times[r][c] ELSE stats[c])
            ELSE IF c[1] = "tag_category" THEN stats[c]
            ELSE stats[c] + MovedCount(r, c) + Amount(c)]

\* The statistics after the triggers of what a transaction has inserted and deleted.
After(r) ==
    LET Amount(c) == Sum(AddedBy(ins[r]), c) - Sum(AddedBy(del[r]), c)
    IN  [c \in Stats |->
            IF ~Kept(DB!View(r), c) THEN 0
            ELSE IF IsTime(c) THEN (IF c \in TimesOf(r) THEN times[r][c] ELSE stats[c])
            ELSE stats[c] + MovedCount(r, c) + Amount(c)]

Commit(r) ==
    LET touched == {c \in Stats : Exact(DB!View(r), c) # Exact(db, c)}
    IN  /\ pc[r] = "locked"
        /\ stats' = After(r)
        /\ db' = DB!View(r)
        /\ DB!Forget(r)
        /\ Goto(r, "idle")
        /\ times' = [times EXCEPT ![r] = NoTimes]
        /\ stale' = stale \cup {c \in touched : read[c] # None}
        /\ skewed' = skewed \cup
              {c \in Stats : MovedCount(r, c) # 0 \/ \E k \in Deleted(r) :
                  c = <<"tag_category", "usage_count", k>>}
        /\ UNCHANGED <<begun, taskVars>>

Abort(r) ==
    /\ pc[r] # "idle"
    /\ DB!Rollback(r)
    /\ Goto(r, "idle")
    /\ times' = [times EXCEPT ![r] = NoTimes]
    /\ UNCHANGED <<stats, begun, taskVars, stale, skewed>>

-----------------------------------------------------------------------------
(* The reset task: each statement is a transaction of its own.              *)

At(step) == task > 0 /\ Steps[task] = step

\* No transaction has the lock of a statistics row.
StatRowFree(t, k) == \A r \in Reqs : pc[r] = "locked" => <<t, k>> \notin StatRows(Changed(r))

\* The next step, which writes these statistics.
Enter(n) ==
    /\ task' = n
    /\ todo' = {c \in Stats : c[1] = Steps[n] /\ c # Db("disk_usage")}
    /\ read' = [c \in Stats |-> None]
    /\ stale' = {}

ResetDiskUsage ==
    /\ Resets /\ task = 0
    /\ StatRowFree("database", 0)
    /\ stats' = [stats EXCEPT ![Db("disk_usage")] = 0]
    /\ skewed' = skewed \cup {Db("disk_usage")}
    /\ Enter(2)
    /\ UNCHANGED <<db, ins, del, reqVars>>

\* The size of a post's file, if there is such a post.
ResetSize(p) ==
    LET old == {row \in db : row.table = "size" /\ row.post = p}
    IN  /\ At("sizes")
        /\ \A r \in Reqs : Changed(r) \cap old = {}
        /\ StatRowFree("database", 0)
        /\ old # {Size(p, FileSize[p])} /\ old # {}
        /\ db' = (db \ old) \cup {Size(p, FileSize[p])}
        /\ stats' = [stats EXCEPT ![Db("disk_usage")] =
                        @ + FileSize[p] - Sum(AddedBy(old), Db("disk_usage"))]
        /\ UNCHANGED <<ins, del, reqVars, taskVars, stale, skewed>>

\* All files have been looked at.
EndSizes ==
    /\ At("sizes")
    /\ \A row \in db : row.table = "size" => row.size = FileSize[row.post]
    /\ Enter(task + 1)
    /\ UNCHANGED <<db, ins, del, stats, reqVars, skewed>>

\* One query per statistic of the database, tags, users and posts ...
Read(k) ==
    LET columns == Columns[Steps[task]]
        unread  == {i \in DOMAIN columns : /\ <<Steps[task], columns[i], k>> \in todo
                                           /\ read[<<Steps[task], columns[i], k>>] = None}
        c       == <<Steps[task], columns[Min(unread)], k>>
    IN
    /\ At("database") \/ At("tag") \/ At("user") \/ At("post")
    /\ unread # {}
    /\ \A d \in todo : read[d] # None => d[3] = k
    /\ read' = [read EXCEPT ![c] = Recount(db, c)]
    /\ stale' = stale \ {c}
    /\ UNCHANGED <<db, ins, del, stats, reqVars, task, todo, skewed>>

\* ... and one for all comments, pools and categories.
Load ==
    /\ At("comment") \/ At("pool_category") \/ At("pool") \/ At("tag_category")
    /\ \A c \in Stats : read[c] = None
    /\ todo # {}
    /\ read' = [c \in Stats |-> IF c \in todo THEN Recount(db, c) ELSE None]
    /\ stale' = {}
    /\ UNCHANGED <<db, ins, del, stats, reqVars, task, todo, skewed>>

\* One UPDATE for the statistics of a key.
Write(k) ==
    LET these == {c \in todo : c[3] = k}
    IN  /\ these # {} /\ \A c \in these : read[c] # None
        /\ StatRowFree(Steps[task], k)
        /\ stats' = [c \in Stats |-> IF c \in these /\ Kept(db, c) THEN read[c] ELSE stats[c]]
        /\ todo' = todo \ these
        /\ read' = [c \in Stats |-> IF c \in these THEN None ELSE read[c]]
        /\ stale' = stale \ these
        /\ skewed' = (skewed \ these) \cup (stale \cap these)
              \cup {c \in these : c[2] \in {"implication_count", "suggestion_count", "relation_count"}}
        /\ UNCHANGED <<db, ins, del, reqVars, task>>

EndStep ==
    /\ task > 2 /\ task < Len(Steps) /\ todo = {}
    /\ Enter(task + 1)
    /\ UNCHANGED <<db, ins, del, stats, reqVars, skewed>>

Next ==
    \/ \E r \in Reqs :
          \/ \E change \in Changes : Change(r, change)
          \/ \E c \in Keys["tag_category"] : DeleteCategory(r, c)
          \/ Lock(r)
          \/ Wait(r)
          \/ Resume(r)
          \/ Commit(r)
          \/ Abort(r)
    \/ ResetDiskUsage
    \/ \E p \in Keys["post"] : ResetSize(p)
    \/ EndSizes
    \/ \E k \in UNION {Keys[t] : t \in StatTables} : Read(k) \/ Write(k)
    \/ Load
    \/ EndStep

-----------------------------------------------------------------------------
(* Properties.                                                              *)

\* Statistics are those of the committed rows, whatever transactions commit,
\* roll back or wait, and while the reset task runs, except where it has
\* overwritten a change it had not read, reset disk usage, or counted
\* implications, suggestions and relations; where a category has been deleted with tags in
\* it; and a last time computed by a trigger that had to wait.
StatisticsExact ==
    \A c \in Stats \ skewed : stats[c] = Exact(db, c)

\* When the reset task ends and nothing else has happened, the statistics are
\* those of the tables.
StatisticsReset ==
    At("done") /\ begun = 0 => \A c \in Stats : stats[c] = Exact(db, c)
=============================================================================
