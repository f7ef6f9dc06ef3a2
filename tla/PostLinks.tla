----------------------------- MODULE PostLinks -----------------------------
(***************************************************************************)
(* What hangs on a post: its relations, its places in pools, what is there *)
(* once per user or tag (marks: favorites, scores, tags) and what is there *)
(* any number of times (remarks: comments, features); and the requests of  *)
(* api/post.rs, api/pool.rs and api/comment.rs that change it.             *)
(*                                                                         *)
(* A request works on one table after the other: it reads what it needs,   *)
(* finds the rows it deletes, and replaces what is left of them, three     *)
(* steps with those of other requests between them.  A client does not see *)
(* the posts its preferences hide.  Names and categories of pools go       *)
(* through the statements of TagGraph and Categories and are left out.     *)
(***************************************************************************)
EXTENDS Integers, FiniteSets, Sequences

CONSTANTS
    Calls,     \* concurrent requests
    PostIds, PoolIds, \* of which a behaviour draws each once at most
    Owners,    \* users and tags that mark posts
    Texts,     \* remarks, each made once at most
    PostSets,  \* sets of posts a client may relate a post to
    PostLists, \* lists of posts a client may ask a pool to have, each post once
    Unseen,    \* the posts the preferences of a client may hide
    MaxCalls,  \* bound: the requests of a behaviour
    CallKinds, \* kinds of requests that come
    FirstLinks \* the committed rows a behaviour may start with

PostRow(p)         == [table |-> "post", post |-> p]
PoolRow(k)         == [table |-> "pool", pool |-> k]
Related(p, c)      == [table |-> "post_relation", parent |-> p, child |-> c]
Member(k, p, o)    == [table |-> "pool_post", pool |-> k, post |-> p, order |-> o]
Mark(p, by)        == [table |-> "mark", post |-> p, by |-> by]
Remark(p, text)    == [table |-> "remark", post |-> p, text |-> text]

\* pool_post has the key (pool_id, post_id): its order is free.
SameLink(row, other) ==
    \/ row = other
    \/ /\ row.table = "pool_post" /\ other.table = "pool_post"
       /\ row.pool = other.pool /\ row.post = other.post

LinkParents(row) ==
    CASE row.table = "post_relation" -> {PostRow(row.parent), PostRow(row.child)}
      [] row.table = "pool_post" -> {PoolRow(row.pool), PostRow(row.post)}
      [] row.table \in {"mark", "remark"} -> {PostRow(row.post)}
      [] OTHER -> {}

VARIABLES
    links, put, cut, \* db, ins and del of Database
    drawn,           \* IDs and remarks used so far
    came,            \* requests that have come
    at,              \* the statement each request is at
    asks,            \* what it asks for
    todo,            \* tables it has yet to change, the first being the current one
    adds, drops,     \* rows it is about to insert, rows its DELETE found
    stale,           \* history: tables others changed since the request read them
    uneven           \* history: pools that lost a post, or in which edits met

LinkDB == INSTANCE Database WITH
    Reqs <- Calls, db <- links, ins <- put, del <- cut,
    SameKey <- SameLink, Parents <- LinkParents

linkRows == <<links, put, cut>>
linkVars == <<linkRows, drawn, came, at, asks, todo, adds, drops, stale, uneven>>

-----------------------------------------------------------------------------
(* Reading the rows.                                                        *)

Of(rows, table)     == {row \in rows : row.table = table}
RelatedTo(rows, p)  == {c \in PostIds : Related(p, c) \in rows}
Members(rows, k)    == {row \in Of(rows, "pool_post") : row.pool = k}
PostsOf(rows, k)    == {row.post : row \in Members(rows, k)}
MarksOf(rows, p)    == {row.by : row \in {m \in Of(rows, "mark") : m.post = p}}
RemarksOf(rows, p)  == {row.text : row \in {m \in Of(rows, "remark") : m.post = p}}

\* Pool k shows p before q.
Before(rows, k, p, q) ==
    \E x, y \in Members(rows, k) : x.post = p /\ y.post = q /\ x.order < y.order

Lists(S) == {s \in [1..Cardinality(S) -> S] : \A i, j \in DOMAIN s : s[i] = s[j] => i = j}

\* The ways to list S in the order of pool k: posts of equal order come either way.
Listed(rows, k, S) ==
    {s \in Lists(S) : \A i, j \in DOMAIN s : Before(rows, k, s[i], s[j]) => i < j}

\* add_relations inserts both directions.
Pairs(p, S) == {Related(p, c) : c \in S \ {p}} \cup {Related(c, p) : c \in S \ {p}}

\* add_posts of a list to a pool that has count posts.
AddedPosts(k, count, list) == {Member(k, list[i], count + i - 1) : i \in DOMAIN list}

Contents(s) == {s[i] : i \in DOMAIN s}

-----------------------------------------------------------------------------
Tables == {"post_relation", "pool_post", "mark", "remark"}

LinkRow ==
    [table : {"post"}, post : PostIds] \cup [table : {"pool"}, pool : PoolIds]
    \cup [table : {"post_relation"}, parent : PostIds, child : PostIds]
    \cup [table : {"pool_post"}, pool : PoolIds, post : PostIds, order : Nat]
    \cup [table : {"mark"}, post : PostIds, by : Owners]
    \cup [table : {"remark"}, post : PostIds, text : Texts]

\* What the constraints of the schema say of rows.
Sound(rows) ==
    /\ rows \subseteq LinkRow
    /\ \A row \in rows : LinkParents(row) \subseteq rows
    /\ \A row, other \in rows : SameLink(row, other) => row = other

\* And what they do not say: relations are there both ways and lead to other posts, a
\* pool's posts are numbered 0, 1, ...
Symmetric(rows) ==
    \A p, c \in PostIds : Related(p, c) \in rows => p # c /\ Related(c, p) \in rows

Numbered(rows, k) ==
    {row.order : row \in Members(rows, k)} = 0..Cardinality(Members(rows, k)) - 1

LinkTypeOK ==
    /\ came \in 0..MaxCalls
    /\ drawn \subseteq PostIds \cup PoolIds \cup Texts
    /\ at \in [Calls -> {"idle", "load", "find", "write", "commit"}]
    /\ stale \in [Calls -> SUBSET Tables]
    /\ uneven \subseteq PoolIds
    /\ Sound(links)

NoCall == [kind |-> "none"]

ASSUME LinksAssumption ==
    /\ IsFiniteSet(PostIds) /\ MaxCalls \in Nat
    /\ \A S \in PostSets : S \subseteq PostIds
    /\ \A list \in PostLists : \E S \in SUBSET PostIds : list \in Lists(S)
    /\ \A rows \in FirstLinks :
          Sound(rows) /\ Symmetric(rows) /\ \A k \in PoolIds : Numbered(rows, k)

\* The database holds some rows.
LinkStart ==
    /\ links \in FirstLinks
    /\ LinkDB!NothingPending
    /\ drawn = {row.post : row \in Of(links, "post")} \cup {row.pool : row \in Of(links, "pool")}
                  \cup {row.text : row \in Of(links, "remark")}
    /\ came = 0
    /\ at = [r \in Calls |-> "idle"]
    /\ asks = [r \in Calls |-> NoCall]
    /\ todo = [r \in Calls |-> <<>>]
    /\ adds = [r \in Calls |-> {}]
    /\ drops = [r \in Calls |-> {}]
    /\ stale = [r \in Calls |-> {}]
    /\ uneven = {}

MoveTo(r, label) == at' = [at EXCEPT ![r] = label]

-----------------------------------------------------------------------------
(* Requests begin.  Those that read first go to "load", those that delete   *)
(* first to "find", those that only insert to "write".                      *)

Ask(r, label, asked, tables, new) ==
    /\ at[r] = "idle" /\ asked.kind \in CallKinds
    /\ came < MaxCalls /\ came' = came + 1
    /\ MoveTo(r, label)
    /\ asks' = [asks EXCEPT ![r] = asked]
    /\ todo' = [todo EXCEPT ![r] = tables]
    /\ adds' = [adds EXCEPT ![r] = new]
    /\ UNCHANGED <<linkRows, drops, stale, uneven>>

Draw(id) == id \notin drawn /\ drawn' = drawn \cup {id}

\* verify_visibility, and a pool that is there.
Visible(r, p, hidden) == PostRow(p) \in LinkDB!View(r) /\ p \notin hidden
PoolThere(r, k) == PoolRow(k) \in LinkDB!View(r)

\* create of api/post.rs; update with relations.
Upload(r, p, S) ==
    /\ Draw(p)
    /\ Ask(r, "write", [kind |-> "upload"], <<"post_relation">>,
             {PostRow(p)} \cup Pairs(p, S))

Relate(r, p, S, hidden) ==
    /\ Visible(r, p, hidden)
    /\ Ask(r, "load", [kind |-> "relate", post |-> p, asked |-> S, hidden |-> hidden],
             <<"post_relation">>, {})
    /\ UNCHANGED drawn

MergePosts(r, absorbed, to) ==
    /\ Visible(r, absorbed, {}) /\ Visible(r, to, {}) /\ absorbed # to
    /\ Ask(r, "load", [kind |-> "merge posts", absorbed |-> absorbed, to |-> to],
             <<"post_relation", "mark", "pool_post", "remark">>, {})
    /\ UNCHANGED drawn

DeletePost(r, p) ==
    /\ Visible(r, p, {})
    /\ Ask(r, "commit", [kind |-> "delete", gone |-> PostRow(p)], <<>>, {})
    /\ UNCHANGED drawn

\* favorite and rate replace the user's row; unfavorite, and a rating of 0, delete it.
SetMark(r, p, by) ==
    /\ Visible(r, p, {})
    /\ Ask(r, "find", [kind |-> "mark", post |-> p, by |-> by], <<"mark">>, {Mark(p, by)})
    /\ UNCHANGED drawn

DropMark(r, p, by) ==
    /\ Visible(r, p, {})
    /\ Ask(r, "commit", [kind |-> "delete", gone |-> Mark(p, by)], <<>>, {})
    /\ UNCHANGED drawn

\* create of api/comment.rs, and feature.
AddRemark(r, p, text) ==
    /\ Draw(text)
    /\ Ask(r, "write", [kind |-> "remark"], <<"remark">>, {Remark(p, text)})

DropRemark(r, p, text) ==
    /\ Remark(p, text) \in LinkDB!View(r)
    /\ Ask(r, "commit", [kind |-> "delete", gone |-> Remark(p, text)], <<>>, {})
    /\ UNCHANGED drawn

CreatePool(r, k, list) ==
    /\ Draw(k)
    /\ Ask(r, "write", [kind |-> "create pool"], <<"pool_post">>,
             {PoolRow(k)} \cup AddedPosts(k, 0, list))

EditPool(r, k, list, hidden) ==
    /\ PoolThere(r, k)
    /\ Ask(r, "load", [kind |-> "edit pool", pool |-> k, list |-> list, hidden |-> hidden],
             <<"pool_post">>, {})
    /\ UNCHANGED drawn

MergePools(r, absorbed, to) ==
    /\ PoolThere(r, absorbed) /\ PoolThere(r, to) /\ absorbed # to
    /\ Ask(r, "load", [kind |-> "merge pools", absorbed |-> absorbed, to |-> to],
             <<"pool_post">>, {})
    /\ UNCHANGED drawn

DeletePool(r, k) ==
    /\ PoolThere(r, k)
    /\ Ask(r, "commit", [kind |-> "delete", gone |-> PoolRow(k)], <<>>, {})
    /\ UNCHANGED drawn

-----------------------------------------------------------------------------
(* Reads.                                                                   *)

\* Mutant: the request loads what its client does not see after the DELETE.
HiddenAfterDelete(S, hidden) == {}

\* The posts of S the client does not know about.
HiddenOf(S, hidden) == S \cap hidden

\* set_relations: a hidden post the client names as well is inserted twice and rejected.
LoadRelated(r) ==
    LET hidden == HiddenOf(RelatedTo(LinkDB!View(r), asks[r].post), asks[r].hidden) IN
    /\ asks[r].asked \cap hidden = {}
    /\ adds' = [adds EXCEPT ![r] = Pairs(asks[r].post, asks[r].asked \cup hidden)]

\* set_posts appends the hidden posts, in no order.
LoadList(r) ==
    LET hidden == HiddenOf(PostsOf(LinkDB!View(r), asks[r].pool), asks[r].hidden) IN
    /\ Contents(asks[r].list) \cap hidden = {}
    /\ \E rest \in Lists(hidden) :
          adds' = [adds EXCEPT ![r] = AddedPosts(asks[r].pool, 0, asks[r].list \o rest)]

\* merge of update/pool.rs: the posts of the absorbed pool the other one lacks, in order.
LoadNewPosts(r) ==
    LET rows == LinkDB!View(r)
        new  == PostsOf(rows, asks[r].absorbed) \ PostsOf(rows, asks[r].to)
    IN  \E list \in Listed(rows, asks[r].absorbed, new) :
            adds' = [adds EXCEPT ![r] = AddedPosts(asks[r].to, 0, list)]

\* A relation of the absorbed post becomes one of the other.
Redirected(from, to, row) ==
    IF row.parent = from THEN Related(to, row.child)
    ELSE IF row.child = from THEN Related(row.parent, to) ELSE row

Touching(rows, S) == {row \in Of(rows, "post_relation") : {row.parent, row.child} \cap S # {}}

\* merge of update/post.rs: what the other post is to get, by table.
MergedRows(rows, from, to, table) ==
    CASE table = "post_relation" ->
            {row \in {Redirected(from, to, m) : m \in Touching(rows, {from, to})} :
                row.parent # row.child}
      [] table = "mark" -> {Mark(to, by) : by \in MarksOf(rows, from) \ MarksOf(rows, to)}
      [] table = "pool_post" ->
            {Member(row.pool, to, row.order) : row \in
                {m \in Of(rows, "pool_post") : m.post = from /\ to \notin PostsOf(rows, m.pool)}}

LoadMerged(r) ==
    adds' = [adds EXCEPT ![r] =
        MergedRows(LinkDB!View(r), asks[r].absorbed, asks[r].to, Head(todo[r]))]

\* A DELETE comes before the INSERT.
Deletes(r, table) ==
    /\ asks[r].kind # "merge pools"
    /\ asks[r].kind = "merge posts" => table = "post_relation"

Load(r) ==
    /\ at[r] = "load"
    /\ CASE asks[r].kind = "relate" -> LoadRelated(r)
         [] asks[r].kind = "edit pool" -> LoadList(r)
         [] asks[r].kind = "merge pools" -> LoadNewPosts(r)
         [] asks[r].kind = "merge posts" -> LoadMerged(r)
    /\ stale' = [stale EXCEPT ![r] = @ \ {Head(todo[r])}]
    /\ MoveTo(r, IF Deletes(r, Head(todo[r])) THEN "find" ELSE "write")
    /\ UNCHANGED <<linkRows, drawn, came, asks, todo, drops, uneven>>

-----------------------------------------------------------------------------
(* Changes.                                                                 *)

\* The rows a request's DELETE asks for.
RowsToDrop(r) ==
    LET rows == LinkDB!View(r) IN
    CASE asks[r].kind = "relate" -> Touching(rows, {asks[r].post})
      [] asks[r].kind = "edit pool" -> Members(rows, asks[r].pool)
      [] asks[r].kind = "mark" -> {Mark(asks[r].post, asks[r].by)} \cap rows
      [] asks[r].kind = "merge posts" /\ Head(todo[r]) = "post_relation" ->
            Touching(rows, {asks[r].to})
      [] OTHER -> {row \in Of(rows, "remark") : row.post = asks[r].absorbed}

Find(r) ==
    /\ at[r] = "find"
    /\ drops' = [drops EXCEPT ![r] = RowsToDrop(r)]
    /\ stale' = IF Head(todo[r]) = "remark"
                THEN [stale EXCEPT ![r] = @ \ {"remark"}] ELSE stale
    /\ MoveTo(r, "write")
    /\ UNCHANGED <<linkRows, drawn, came, asks, todo, adds, uneven>>

\* Mutant: the posts of a merged pool are numbered from 0.
NewRowsFromZero(r) ==
    IF asks[r].kind = "merge posts" /\ Head(todo[r]) = "remark"
    THEN {Remark(asks[r].to, row.text) : row \in drops[r] \cap LinkDB!View(r)}
    ELSE adds[r]

\* What is inserted: what was read; for a pool merge, after the posts that are
\* there, by their number; of the remarks, those the DELETE returned.
NewRows(r) ==
    CASE asks[r].kind = "merge pools" ->
            {[row EXCEPT !.order = @ + Cardinality(Members(LinkDB!View(r), asks[r].to))] :
                row \in adds[r]}
      [] asks[r].kind = "merge posts" /\ Head(todo[r]) = "remark" ->
            {Remark(asks[r].to, row.text) : row \in drops[r] \cap LinkDB!View(r)}
      [] OTHER -> adds[r]

\* Mutant: a merge leaves the remarks to the cascade.
NextLabelNoRemarks(tables) ==
    IF tables = <<>> \/ Head(tables) = "remark" THEN "commit" ELSE "load"

\* The statement a request goes to for the next of its tables.
NextLabel(tables) ==
    IF tables = <<>> THEN "commit" ELSE IF Head(tables) = "remark" THEN "find" ELSE "load"

Write(r) ==
    /\ at[r] = "write"
    /\ LinkDB!Replace(r, drops[r], NewRows(r))
    /\ todo' = [todo EXCEPT ![r] = Tail(@)]
    /\ MoveTo(r, NextLabel(Tail(todo[r])))
    /\ adds' = [adds EXCEPT ![r] = {}]
    /\ drops' = [drops EXCEPT ![r] = {}]
    /\ UNCHANGED <<drawn, came, asks, stale, uneven>>

-----------------------------------------------------------------------------
(* Ends.                                                                    *)

Finish(r) ==
    /\ MoveTo(r, "idle")
    /\ asks' = [asks EXCEPT ![r] = NoCall]
    /\ todo' = [todo EXCEPT ![r] = <<>>]
    /\ adds' = [adds EXCEPT ![r] = {}]
    /\ UNCHANGED <<drawn, came>>

\* The row a request deletes last.
Doomed(r) ==
    CASE asks[r].kind = "merge posts" -> {PostRow(asks[r].absorbed)}
      [] asks[r].kind = "merge pools" -> {PoolRow(asks[r].absorbed)}
      [] asks[r].kind = "delete" -> {asks[r].gone}
      [] OTHER -> {}

\* save_changes fails if its row is gone, as do the names a merged pool gets.
Savable(r) ==
    CASE asks[r].kind = "relate" -> PostRow(asks[r].post) \in LinkDB!View(r)
      [] asks[r].kind = "edit pool" -> PoolRow(asks[r].pool) \in LinkDB!View(r)
      [] asks[r].kind = "merge pools" -> PoolRow(asks[r].to) \in LinkDB!View(r)
      [] OTHER -> TRUE

\* Pools that have fewer posts than before this commit.
Shortened == {k \in PoolIds : Cardinality(Members(links', k)) < Cardinality(Members(links, k))}

Changed(k) == Members(links', k) # Members(links, k)

\* The last statement and the commit.  What others found and r deleted is not
\* theirs to delete, even if r put it back.
CommitLinks(r) ==
    LET touched == put[r] \cup cut[r] \cup LinkDB!Cascade(r, Doomed(r))
        met     == "pool_post" \in stale[r]
    IN
    /\ at[r] = "commit" /\ Savable(r)
    /\ LinkDB!Publish(r, Doomed(r))
    /\ drops' = [s \in Calls |-> IF s = r THEN {} ELSE drops[s] \ touched]
    /\ stale' = [s \in Calls |->
          IF s = r THEN {} ELSE IF at[s] = "idle" THEN stale[s]
          ELSE stale[s] \cup ({row.table : row \in touched} \cap Tables)]
    /\ uneven' = {k \in PoolIds :
          IF asks[r].kind = "edit pool" /\ asks[r].pool = k THEN met
          ELSE k \in uneven \cup Shortened \/ (met /\ Changed(k))}
    /\ Finish(r)

\* A statement fails, the client's version is stale, or the server stops.
AbortLinks(r) ==
    /\ at[r] # "idle"
    /\ LinkDB!Rollback(r)
    /\ drops' = [drops EXCEPT ![r] = {}]
    /\ stale' = [stale EXCEPT ![r] = {}]
    /\ Finish(r)
    /\ UNCHANGED uneven

LinkNext ==
    \E r \in Calls :
        \/ \E p \in PostIds :
              \/ DeletePost(r, p)
              \/ \E S \in PostSets : Upload(r, p, S)
              \/ \E S \in PostSets, hidden \in {{}, Unseen} : Relate(r, p, S, hidden)
              \/ \E to \in PostIds : MergePosts(r, p, to)
              \/ \E by \in Owners : SetMark(r, p, by) \/ DropMark(r, p, by)
              \/ \E text \in Texts : AddRemark(r, p, text) \/ DropRemark(r, p, text)
        \/ \E k \in PoolIds :
              \/ DeletePool(r, k)
              \/ \E to \in PoolIds : MergePools(r, k, to)
              \/ \E list \in PostLists : CreatePool(r, k, list)
              \/ \E list \in PostLists, hidden \in {{}, Unseen} : EditPool(r, k, list, hidden)
        \/ Load(r)
        \/ Find(r)
        \/ Write(r)
        \/ CommitLinks(r)
        \/ AbortLinks(r)

LinkSpec == LinkStart /\ [][LinkNext]_linkVars

-----------------------------------------------------------------------------
(* Properties.                                                              *)

\* What the code relies on and no constraint of the schema states.  "Post relations
\* are bi-directional" (update/post.rs), which set_relations relies on when it takes
\* the children for all related posts; a merge relies on no post being related to
\* itself, which it would turn into a relation one way.  And a pool's posts are numbered 0, 1, ... so
\* that its order is one, whatever is created, edited and merged: all but pools that
\* have lost a post since their list was last set, and pools two requests changed at
\* once.
RowsRegular == Symmetric(links) /\ \A k \in PoolIds \ uneven : Numbered(links, k)

Ended(r) == at[r] = "commit" /\ at'[r] = "idle" /\ asks'[r] = NoCall /\ links' # links

\* "Appends posts onto the current list" (add_posts of update/pool.rs): a merge
\* keeps the order of both pools and puts the new posts last, unless the target
\* has lost a post, whose number the count of posts then repeats.
PoolMergeAppends ==
    [][\A r \in Calls :
          Ended(r) /\ asks[r].kind = "merge pools" /\ "pool_post" \notin stale[r]
             /\ asks[r].to \notin uneven =>
             LET from == asks[r].absorbed
                 to   == asks[r].to
                 old  == PostsOf(links, to)
             IN  /\ PostsOf(links', to) = old \cup PostsOf(links, from)
                 /\ \A p \in PostsOf(links', to), q \in PostsOf(links, from) \ old :
                       p \in old \/ Before(links, from, p, q) => Before(links', to, p, q)
                 /\ \A p, q \in old : Before(links, to, p, q) => Before(links', to, p, q)]_linkVars

\* "Add posts client doesn't know about" (update/pool.rs, update/post.rs): an
\* edit leaves what the client asked for and, still there, what it cannot see.
EditsKeepHidden ==
    [][\A r \in Calls :
          Ended(r) =>
          /\ asks[r].kind = "relate" /\ "post_relation" \notin stale[r] =>
                RelatedTo(links', asks[r].post) =
                   (asks[r].asked \ {asks[r].post}) \cup (RelatedTo(links, asks[r].post) \cap asks[r].hidden)
          /\ asks[r].kind = "edit pool" /\ "pool_post" \notin stale[r] =>
                PostsOf(links', asks[r].pool) =
                   Contents(asks[r].list) \cup (PostsOf(links, asks[r].pool) \cap asks[r].hidden)]_linkVars

\* A request that writes a list keeps what it was not about: a pool merge both
\* orders, an edit what its client cannot see.
ListsKept == PoolMergeAppends /\ EditsKeepHidden

\* "Merges all ... relations, scores, favorites and comments from the source to
\* the target post" (api/post.rs), and its places in pools: the target has what
\* either had, but for what another request changed after the merge had read it.
PostMergeKeepsLinks ==
    [][\A r \in Calls :
          Ended(r) /\ asks[r].kind = "merge posts" =>
          LET from == asks[r].absorbed
              to   == asks[r].to
              pools(rows, p) == {k \in PoolIds : p \in PostsOf(rows, k)}
              kept(table, old, new) == table \in stale[r] \/ old = new
          IN  /\ kept("post_relation", (RelatedTo(links, from) \cup RelatedTo(links, to)) \ {from, to},
                     RelatedTo(links', to))
              /\ kept("mark", MarksOf(links, from) \cup MarksOf(links, to), MarksOf(links', to))
              /\ kept("pool_post", pools(links, from) \cup pools(links, to), pools(links', to))
              /\ kept("remark", RemarksOf(links, from) \cup RemarksOf(links, to),
                     RemarksOf(links', to))]_linkVars
=============================================================================
