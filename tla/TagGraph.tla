----------------------------- MODULE TagGraph -----------------------------
(***************************************************************************)
(* Tags, their names, their implications and their usages by posts         *)
(* (api/tag.rs, update/tag.rs, set_tags of update/post.rs).  An            *)
(* implication may not close a cycle; a post gets the tags its tags imply. *)
(* Requests are transactions that interleave statement by statement.       *)
(*                                                                         *)
(* A DELETE finds its rows when it starts and deletes what is left of them *)
(* when it gets their locks, so it is two steps.  A transaction's last     *)
(* UPDATE of a tag row and its commit are one.  Suggestions go through the *)
(* same statements as implications and are left out, as are versions: a    *)
(* stale one only aborts a transaction.                                    *)
(***************************************************************************)
EXTENDS Naturals, FiniteSets, Sequences

CONSTANTS
    Reqs,      \* concurrent requests
    MaxTag,    \* bound: the tag IDs a behaviour may draw
    MaxReqs,   \* bound: the requests of a behaviour
    Names,     \* tag names, distinct as CITEXT
    NameLists, \* lists of names a request may give a tag
    NameSets,  \* sets of names a request may ask to be implied or used
    Posts,     \* posts, which stay
    Ops,       \* kinds of requests that come
    StartRows  \* the committed rows a behaviour may start with

Tags == 1..MaxTag

TagRow(t)        == [table |-> "tag", id |-> t]
NameRow(t, o, n) == [table |-> "tag_name", tag |-> t, order |-> o, name |-> n]
Implies(p, c)    == [table |-> "tag_implication", parent |-> p, child |-> c]
Usage(p, t)      == [table |-> "post_tag", post |-> p, tag |-> t]

\* tag_name has the keys (tag_id, order) and name.
SameKey(row, other) ==
    \/ row = other
    \/ /\ row.table = "tag_name" /\ other.table = "tag_name"
       /\ \/ row.name = other.name
          \/ row.tag = other.tag /\ row.order = other.order

Parents(row) ==
    CASE row.table \in {"tag_name", "post_tag"} -> {TagRow(row.tag)}
      [] row.table = "tag_implication" -> {TagRow(row.parent), TagRow(row.child)}
      [] OTHER -> {}

VARIABLES
    db, ins, del,   \* see Database
    next,           \* next tag ID of the sequence
    begun,          \* requests that have come
    pc,             \* the statement each request is at
    op,             \* what it asks for
    fresh,          \* rows it is about to insert
    found,          \* rows its DELETE found
    graph,          \* the implications it has collected, and what it looks for
    raced,          \* history: tables others changed since the request read them
    unchecked       \* history: implications no cycle check has seen

DB == INSTANCE Database

dbVars == <<db, ins, del>>
vars   == <<dbVars, next, begun, pc, op, fresh, found, graph, raced, unchecked>>

-----------------------------------------------------------------------------
(* The graph.                                                               *)

Edges(rows) == {e \in Tags \X Tags : Implies(e[1], e[2]) \in rows}

Closed(E, S) == \A e \in E : e[1] \in S => e[2] \in S

Acyclic(E) ==
    \A S \in SUBSET Tags \ {{}} : \E t \in S : \A u \in S : <<t, u>> \notin E

NoGraph == [nodes |-> {}, links |-> {}, ahead |-> {}, missing |-> {}]

\* DependencyGraph::insert of implications that are loaded.  Their children
\* come next, but for those some implication led to before.
Grown(g, loaded) ==
    [g EXCEPT !.nodes = @ \cup {e[2] : e \in loaded},
              !.links = @ \cup loaded,
              !.ahead = {e[2] : e \in loaded} \ {e[2] : e \in g.links}]

\* Tags that have one of these names.
Named(rows, names) ==
    {t \in Tags : \E n \in names, o \in 0..Cardinality(Names) : NameRow(t, o, n) \in rows}

TagNames(rows, t) ==
    {NameRow(t, o, n) : o \in 0..Cardinality(Names), n \in Names} \cap rows

\* add_names: the rows for names, numbered from a given order.
Added(t, from, names) ==
    {NameRow(t, from + i - 1, names[i]) : i \in DOMAIN names}

-----------------------------------------------------------------------------

Labels == {"idle", "close", "load", "missing", "make", "involved", "find", "replace", "usages",
           "find names", "names", "commit"}

\* Graphs of tags the sequence has given.
Graphs ==
    LET drawn == 1..next - 1
    IN  [nodes : SUBSET drawn, links : SUBSET (drawn \X drawn), ahead : SUBSET drawn,
         missing : SUBSET Names]

TypeOK ==
    /\ next \in 1..MaxTag + 1
    /\ begun \in 0..MaxReqs
    /\ pc \in [Reqs -> Labels]
    /\ graph \in [Reqs -> Graphs]
    /\ raced \in [Reqs -> SUBSET {"tag_implication", "post_tag"}]
    /\ unchecked \subseteq Tags \X Tags
    /\ \A r \in Reqs : Edges(ins[r] \cup del[r] \cup fresh[r] \cup found[r] \cup db)
                          \subseteq (1..next - 1) \X (1..next - 1)

NoOp == [kind |-> "none"]

\* Rows the constraints accept, with the IDs the sequence has given, a primary
\* name for every tag and no cycle: what edits that do not overlap leave.
Possible(rows) ==
    /\ \E n \in 0..MaxTag : {row \in rows : row.table = "tag"} = {TagRow(t) : t \in 1..n}
    /\ \A row \in rows : Parents(row) \subseteq rows
    /\ \A t \in Tags : TagRow(t) \in rows => \E n \in Names : NameRow(t, 0, n) \in rows
    /\ Acyclic(Edges(rows))

ASSUME BoundAssumption == MaxTag \in Nat /\ MaxReqs \in Nat
ASSUME NamesAssumption ==
    /\ IsFiniteSet(Names)
    /\ NameLists \subseteq Seq(Names) \ {<<>>}   \* NoNamesGiven
    /\ \A names \in NameSets : names \subseteq Names
ASSUME StartAssumption == \A rows \in StartRows : Possible(rows)

Init ==
    /\ db \in StartRows
    /\ DB!NothingPending
    /\ next = 1 + Cardinality({t \in Tags : TagRow(t) \in db})
    /\ begun = 0
    /\ pc = [r \in Reqs |-> "idle"]
    /\ op = [r \in Reqs |-> NoOp]
    /\ fresh = [r \in Reqs |-> {}]
    /\ found = [r \in Reqs |-> {}]
    /\ graph = [r \in Reqs |-> NoGraph]
    /\ raced = [r \in Reqs |-> {}]
    /\ unchecked = {}

Goto(r, label) == pc' = [pc EXCEPT ![r] = label]

\* The transaction reads a table: races before this do not matter to it.
Reads(r, table) == raced' = [raced EXCEPT ![r] = @ \ {table}]

-----------------------------------------------------------------------------
(* Requests begin: they look their tags up by name.                         *)

Begin(r, label, asked) ==
    /\ pc[r] = "idle" /\ asked.kind \in Ops
    /\ begun < MaxReqs /\ begun' = begun + 1
    /\ Goto(r, label)
    /\ op' = [op EXCEPT ![r] = asked]
    /\ UNCHANGED <<fresh, found, graph, raced, unchecked>>

Live(r) == {t \in Tags : TagRow(t) \in DB!View(r)}

\* create inserts the tag and its names before it looks at the implications.
Create(r, names, implied) ==
    /\ Begin(r, "close", [kind |-> "create", tag |-> next, implied |-> implied])
    /\ next <= MaxTag
    /\ DB!Insert(r, {TagRow(next)} \cup Added(next, 0, names))
    /\ next' = next + 1

\* update: of the names, of the implications, or of both in this order.
Rename(r, t, names) ==
    /\ pc[r] = "idle" /\ t \in Live(r)
    /\ Begin(r, "find names", [kind |-> "rename", tag |-> t, names |-> names])
    /\ UNCHANGED <<dbVars, next>>

Imply(r, t, implied) ==
    /\ pc[r] = "idle" /\ t \in Live(r)
    /\ Begin(r, "close", [kind |-> "update", tag |-> t, implied |-> implied])
    /\ UNCHANGED <<dbVars, next>>

RenameAndImply(r, t, names, implied) ==
    /\ pc[r] = "idle" /\ t \in Live(r)
    /\ Begin(r, "find names",
             [kind |-> "update", tag |-> t, names |-> names, implied |-> implied])
    /\ UNCHANGED <<dbVars, next>>

\* The tags of a post are edited (create and update of api/post.rs).
TagPost(r, p, names) ==
    /\ Begin(r, "close", [kind |-> "tag", post |-> p, implied |-> names])
    /\ UNCHANGED <<dbVars, next>>

Merge(r, absorbed, to) ==
    /\ pc[r] = "idle" /\ {absorbed, to} \subseteq Live(r) /\ absorbed # to
    /\ Begin(r, "involved", [kind |-> "merge", tag |-> to, absorbed |-> absorbed])
    /\ UNCHANGED <<dbVars, next>>

Delete(r, t) ==
    /\ pc[r] = "idle" /\ t \in Live(r)
    /\ Begin(r, "commit", [kind |-> "delete", tag |-> t])
    /\ UNCHANGED <<dbVars, next>>

-----------------------------------------------------------------------------
(* Statements before the changes.                                           *)

\* Mutant: one ID too many.
DrawnOneMore(n) == next..next + n

\* The next n tag IDs.
Drawn(n) == next..next + n - 1

\* get_or_create_tags: the tags asked for by name.
FindNamed(r) ==
    LET named == Named(DB!View(r), op[r].implied) IN
    /\ pc[r] = "close"
    /\ graph' = [graph EXCEPT ![r] = [NoGraph EXCEPT !.nodes = named, !.ahead = named]]
    /\ Goto(r, "load")
    /\ UNCHANGED <<dbVars, next, begun, op, fresh, found, raced, unchecked>>

\* Mutant: implications are loaded once.
LoadImplicationsOnce(r) ==
    LET loaded == {e \in Edges(DB!View(r)) : e[1] \in graph[r].ahead} IN
    /\ pc[r] = "load"
    /\ graph' = [graph EXCEPT ![r] = Grown(@, loaded)]
    /\ Reads(r, "tag_implication")
    /\ op[r].kind # "tag" => Acyclic(graph'[r].links)
    /\ Goto(r, "missing")
    /\ UNCHANGED <<dbVars, next, begun, op, fresh, found, unchecked>>

\* One turn of its loop, which ends when the graph has no new tag; then
\* FetchMode::Acyclic looks for cycles.
LoadImplications(r) ==
    LET loaded == {e \in Edges(DB!View(r)) : e[1] \in graph[r].ahead} IN
    /\ pc[r] = "load"
    /\ graph' = [graph EXCEPT ![r] = Grown(@, loaded)]
    /\ IF graph[r].links = {} THEN Reads(r, "tag_implication") ELSE UNCHANGED raced
    /\ \/ graph'[r].nodes # graph[r].nodes /\ UNCHANGED pc
       \/ /\ graph'[r].nodes = graph[r].nodes
          /\ op[r].kind # "tag" => Acyclic(graph'[r].links)
          /\ Goto(r, "missing")
    /\ UNCHANGED <<dbVars, next, begun, op, fresh, found, unchecked>>

\* It returns these tags: they are what the tag is to imply, or the post to have.
Return(r, tags) ==
    /\ fresh' = [fresh EXCEPT ![r] =
          IF op[r].kind = "tag" THEN {Usage(op[r].post, t) : t \in tags}
                                ELSE {Implies(op[r].tag, t) : t \in tags}]
    /\ graph' = [graph EXCEPT ![r] = NoGraph]
    /\ Goto(r, "find")

\* The names that no tag has by now.
FindMissing(r) ==
    LET missing == {n \in op[r].implied : Named(DB!View(r), {n}) = {}} IN
    /\ pc[r] = "missing"
    /\ \/ missing = {} /\ Return(r, graph[r].nodes)
       \/ /\ missing # {}
          /\ graph' = [graph EXCEPT ![r].missing = missing]
          /\ Goto(r, "make")
          /\ UNCHANGED fresh
    /\ UNCHANGED <<dbVars, next, begun, op, found, raced, unchecked>>

\* They become tags, which imply nothing.
CreateMissing(r) ==
    LET missing == graph[r].missing
        new     == Drawn(Cardinality(missing))
    IN
    /\ pc[r] = "make"
    /\ next + Cardinality(missing) <= MaxTag + 1
    /\ \E id \in [missing -> new] :
          /\ \A n, m \in missing : id[n] = id[m] => n = m
          /\ DB!Insert(r, UNION {{TagRow(id[n]), NameRow(id[n], 0, n)} : n \in missing})
    /\ next' = next + Cardinality(missing)
    /\ Return(r, graph[r].nodes \cup new)
    /\ UNCHANGED <<begun, op, found, raced, unchecked>>

\* An implication of the absorbed tag becomes one of the other tag.
Redirect(from, to, e) ==
    IF e[1] = from THEN Implies(to, e[2])
                   ELSE Implies(e[1], IF e[2] = from THEN to ELSE e[2])

\* merge loads the implications of both tags and redirects them, with no cycle check.
RedirectImplications(r) ==
    LET both     == {op[r].tag, op[r].absorbed}
        involved == {e \in Edges(DB!View(r)) : {e[1], e[2]} \cap both # {}}
        moved    == {Redirect(op[r].absorbed, op[r].tag, e) : e \in involved}
    IN
    /\ pc[r] = "involved"
    /\ fresh' = [fresh EXCEPT ![r] = {row \in moved : row.parent # row.child}]
    /\ Reads(r, "tag_implication")
    /\ Goto(r, "find")
    /\ UNCHANGED <<dbVars, next, begun, op, found, graph, unchecked>>

-----------------------------------------------------------------------------
(* set_implications, set_tags, and the first DELETE and INSERT of merge.   *)

OldRows(r) ==
    {row \in DB!View(r) :
        CASE op[r].kind = "tag" -> row.table = "post_tag" /\ row.post = op[r].post
          [] op[r].kind = "merge" -> row.table = "tag_implication"
                                     /\ op[r].tag \in {row.parent, row.child}
          [] OTHER -> row.table = "tag_implication" /\ row.parent = op[r].tag}

\* Mutant: set_implications does not check for the tag itself.
FindOldRowsUnchecked(r) ==
    /\ pc[r] = "find"
    /\ found' = [found EXCEPT ![r] = OldRows(r)]
    /\ IF op[r].kind = "tag" THEN Reads(r, "post_tag") ELSE UNCHANGED raced
    /\ Goto(r, "replace")
    /\ UNCHANGED <<dbVars, next, begun, op, fresh, graph, unchecked>>

\* set_implications rejects a tag that implies itself; the DELETE starts.
FindOldRows(r) ==
    /\ pc[r] = "find"
    /\ \A t \in Tags : Implies(t, t) \notin fresh[r]
    /\ found' = [found EXCEPT ![r] = OldRows(r)]
    /\ IF op[r].kind = "tag" THEN Reads(r, "post_tag") ELSE UNCHANGED raced
    /\ Goto(r, "replace")
    /\ UNCHANGED <<dbVars, next, begun, op, fresh, graph, unchecked>>

ReplaceRows(r) ==
    /\ pc[r] = "replace"
    /\ DB!Replace(r, found[r], fresh[r])
    /\ Goto(r, IF op[r].kind = "merge" THEN "usages" ELSE "commit")
    /\ UNCHANGED <<next, begun, op, fresh, found, graph, raced, unchecked>>

-----------------------------------------------------------------------------
(* The rest of merge, and set_names.                                        *)

UsedBy(rows, t) == {p \in Posts : Usage(p, t) \in rows}

\* Mutant: posts are compared by whether the other tag is used at all.
MergeUsagesOnce(r) ==
    /\ pc[r] = "usages"
    /\ DB!Insert(r, {Usage(p, op[r].tag) : p \in
           IF UsedBy(DB!View(r), op[r].tag) = {} THEN UsedBy(DB!View(r), op[r].absorbed) ELSE {}})
    /\ Reads(r, "post_tag")
    /\ Goto(r, "find names")
    /\ UNCHANGED <<next, begun, op, fresh, found, graph, unchecked>>

\* Posts of the absorbed tag that lack the other one get it.
MergeUsages(r) ==
    /\ pc[r] = "usages"
    /\ DB!Insert(r, {Usage(p, op[r].tag) : p \in
           UsedBy(DB!View(r), op[r].absorbed) \ UsedBy(DB!View(r), op[r].tag)})
    /\ Reads(r, "post_tag")
    /\ Goto(r, "find names")
    /\ UNCHANGED <<next, begun, op, fresh, found, graph, unchecked>>

\* The order after the last name of a tag.
NextOrder(rows, t) ==
    CHOOSE o \in 0..2 * Cardinality(Names) :
        /\ \A row \in TagNames(rows, t) : row.order < o
        /\ o = 0 \/ \E row \in TagNames(rows, t) : row.order = o - 1

\* merge reads max(order); the DELETE of names starts.
FindNames(r) ==
    LET rows == DB!View(r)
        gone == TagNames(rows, IF op[r].kind = "merge" THEN op[r].absorbed ELSE op[r].tag)
    IN
    /\ pc[r] = "find names"
    /\ found' = [found EXCEPT ![r] = gone]
    /\ \E names \in IF op[r].kind = "merge"
                    THEN {list \in [1..Cardinality(gone) -> Names] :
                             {list[i] : i \in DOMAIN list} = {row.name : row \in gone}}
                    ELSE {op[r].names} :
          fresh' = [fresh EXCEPT ![r] = Added(op[r].tag,
             IF op[r].kind = "merge" THEN NextOrder(rows, op[r].tag) ELSE 0, names)]
    /\ Goto(r, "names")
    /\ UNCHANGED <<dbVars, next, begun, op, graph, raced, unchecked>>

\* A merge inserts the names its DELETE returned.
ReplaceNames(r) ==
    LET gone == found[r] \cap DB!View(r) IN
    /\ pc[r] = "names"
    /\ DB!Replace(r, found[r], IF op[r].kind = "merge"
           THEN {row \in fresh[r] : \E old \in gone : old.name = row.name}
           ELSE fresh[r])
    /\ Goto(r, IF op[r].kind = "update" THEN "close" ELSE "commit")
    /\ UNCHANGED <<next, begun, op, fresh, found, graph, raced, unchecked>>

-----------------------------------------------------------------------------
(* Ends.                                                                    *)

End(r) ==
    /\ Goto(r, "idle")
    /\ op' = [op EXCEPT ![r] = NoOp]
    /\ fresh' = [fresh EXCEPT ![r] = {}]
    /\ graph' = [graph EXCEPT ![r] = NoGraph]
    /\ UNCHANGED <<next, begun>>

\* Implications a commit adds without a cycle check that still holds.
Unchecked(r) ==
    IF op[r].kind = "merge" \/ "tag_implication" \in raced[r]
    THEN Edges(ins[r]) ELSE {}

\* Mutant: merge leaves the absorbed tag.
GoneByDelete(r) == IF op[r].kind = "delete" THEN {TagRow(op[r].tag)} ELSE {}

\* The row a request deletes last.
Gone(r) ==
    CASE op[r].kind = "merge"  -> {TagRow(op[r].absorbed)}
      [] op[r].kind = "delete" -> {TagRow(op[r].tag)}
      [] OTHER -> {}

\* The last statement and the commit.  save_changes fails if its tag is gone.
\* What others found and r deleted is not theirs to delete, even if r put it back.
Commit(r) ==
    LET touched == ins[r] \cup del[r] \cup DB!Cascade(r, Gone(r)) IN
    /\ pc[r] = "commit"
    /\ op[r].kind \in {"update", "rename"} => op[r].tag \in Live(r)
    /\ DB!Publish(r, Gone(r))
    /\ found' = [s \in Reqs |-> IF s = r THEN {} ELSE found[s] \ touched]
    /\ raced' = [s \in Reqs |->
          IF s = r THEN {}
          ELSE IF pc[s] = "idle" THEN raced[s]
          ELSE raced[s] \cup
               ({row.table : row \in touched} \cap {"tag_implication", "post_tag"})]
    /\ unchecked' = (unchecked \cap Edges(db')) \cup Unchecked(r)
    /\ End(r)

\* A statement fails, the client's version is stale, or the server stops.
Abort(r) ==
    /\ pc[r] # "idle"
    /\ DB!Rollback(r)
    /\ found' = [found EXCEPT ![r] = {}]
    /\ raced' = [raced EXCEPT ![r] = {}]
    /\ End(r)
    /\ UNCHANGED unchecked

Next ==
    \E r \in Reqs :
        \/ \E names \in NameLists, implied \in NameSets : Create(r, names, implied)
        \/ \E t \in Tags :
              \/ Delete(r, t)
              \/ \E names \in NameLists : Rename(r, t, names)
              \/ \E implied \in NameSets : Imply(r, t, implied)
              \/ \E names \in NameLists, implied \in NameSets :
                    RenameAndImply(r, t, names, implied)
              \/ \E to \in Tags : Merge(r, t, to)
        \/ \E p \in Posts, names \in NameSets : TagPost(r, p, names)
        \/ FindNamed(r)
        \/ LoadImplications(r)
        \/ FindMissing(r)
        \/ CreateMissing(r)
        \/ RedirectImplications(r)
        \/ FindOldRows(r)
        \/ ReplaceRows(r)
        \/ MergeUsages(r)
        \/ FindNames(r)
        \/ ReplaceNames(r)
        \/ Commit(r)
        \/ Abort(r)

Spec == Init /\ [][Next]_vars

-----------------------------------------------------------------------------
(* Properties.                                                              *)

\* The implications every edit checked against form no cycle: the only ones
\* that may are those a merge moved, and those of an edit during which another
\* transaction changed the implications (has_cycle sees committed rows only).
CheckedAcyclic == Acyclic(Edges(db) \ unchecked)

\* Whatever edits and merges interleave, every tag keeps a primary name, by
\* which the API addresses it.
TagsHavePrimaryName ==
    \A t \in Tags : TagRow(t) \in db => \E n \in Names : NameRow(t, 0, n) \in db

\* What set_implications and set_tags left is complete when it is committed: a
\* tag implies all that its implications imply, a post has all that its tags
\* imply, unless another transaction changed these tables after they were read.
EditsComplete ==
    [][\A r \in Reqs :
          pc[r] = "commit" /\ pc'[r] = "idle" /\ db' # db /\ raced[r] = {} =>
             LET E == Edges(db') IN
             CASE op[r].kind \in {"create", "update"} ->
                     Closed(E, {t \in Tags : <<op[r].tag, t>> \in E})
               [] op[r].kind = "tag" ->
                     Closed(E, {t \in Tags : Usage(op[r].post, t) \in db'})
               [] OTHER -> TRUE]_vars

\* "Merges all usages ... from the source to the target tag" (api/tag.rs): no
\* post loses the absorbed tag without getting the other one, but for posts
\* whose tags another transaction changed after merge had read them.
MergeKeepsUsages ==
    [][\A r \in Reqs :
          pc[r] = "commit" /\ pc'[r] = "idle" /\ op[r].kind = "merge" /\ db' # db
             /\ "post_tag" \notin raced[r] =>
             UsedBy(db, op[r].absorbed) \cup UsedBy(db, op[r].tag)
                = UsedBy(db', op[r].tag)]_vars
=============================================================================
