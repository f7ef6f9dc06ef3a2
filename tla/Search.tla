------------------------------- MODULE Search -------------------------------
(* Lists and neighbors: a search becomes statements of one transaction,     *)
(* each of which sees what other requests have committed by then.  Filters  *)
(* on relations go to two temporary tables first, one statement each: the   *)
(* rows that match so far (intersected) and those that do not (united).     *)
(* The query that counts and the one that loads use both tables and filter  *)
(* on the columns themselves (search/*.rs, and list and get_neighbors of    *)
(* api/post.rs).                                                            *)
(*                                                                          *)
(* A kind of resource has attributes: data[kind][attribute] is a set of     *)
(* pairs of a row's ID and a value.  A column has one pair or, if it is     *)
(* NULL, none; a relation may have many.  Aliases of tokens are left out,   *)
(* and the token of a snapshot's resource-id is id.                         *)
EXTENDS SearchTerms, FiniteSets, TLC

CONSTANTS
    Reqs,         \* requests
    Asks,         \* what they may ask: a sequence of records, see Read
    Start,        \* the data at first: [kind -> [attribute -> pairs]]
    Edits,        \* what other requests may commit: a sequence of records, see Edit
    MaxEdits,     \* bound: how many of them
    Shuffles,     \* the order random() gives all rows, for each seed
    Prefs,        \* the preferences of each client
    Guest,        \* the client that is not logged in
    InitialLimit, LimitGrowth  \* of get_neighbors

VARIABLES
    data, edits,  \* committed rows, and how often they were changed
    seed, own,    \* each client's search seed, and the one a request drew (or -1)
    pc, ask,      \* step of each request, and what it asks
    todo,         \* statements of the filter cache yet to come
    match, miss,  \* the temporary tables: has rows?, which
    total, ids,   \* results of the count and the last load
    offset, limit,\* of the next load
    calm          \* history: nothing has changed since the request began

sVars == <<data, edits, seed, own, pc, ask, todo, match, miss, total, ids, offset, limit, calm>>

-----------------------------------------------------------------------------
(* Filters.                                                                 *)

Rows(kind)    == {x[1] : x \in data[kind]["id"]}
Of(kind, a)   == data[kind][a]
Vals(kind, a, i) == {x[2] : x \in {y \in Of(kind, a) : y[1] = i}}

IsNumber(kind, attribute) ==
    \/ attribute \in Tokens[kind].time \cup Tokens[kind].num \cup {"pool-id", "flag"}
    \/ IsTime(attribute)

\* Whether a value meets a filter; see StrMeets.
Meets(kind, f, v, lowered) ==
    IF IsNumber(kind, f.on) THEN NumMeets(f.wants, v) ELSE StrMeets(f.wants, v, lowered)

\* The posts a special token is about, for a client.
Special(word, client) ==
    LET posts(a, vals) == {x[1] : x \in {y \in Of("post", a) : y[2] \in vals}} IN
    CASE word = "liked"      -> posts("rating", {<<client, 1>>})
      [] word = "disliked"   -> posts("rating", {<<client, -1>>})
      [] word = "fav"        -> posts("fav", {client})
      [] word = "tumbleweed" ->
            {i \in Rows("post") : /\ Vals("post", "fav-count", i) = {0}
                                  /\ Vals("post", "comment-count", i) = {0}
                                  /\ Vals("post", "rating", i) = {}}

\* The pairs of an attribute that meet a filter on a relation: the names of
\* an implication or suggestion are those of the child.
Matched(kind, f) ==
    LET Child(x) == f.token \in {"implies", "suggests"}
        Texts(x) == IF Child(x) THEN Vals(kind, "name", x[2]) ELSE {x[2]}
    IN  {<<x, v>> \in UNION {{x} \X Texts(x) : x \in Of(kind, f.on)} : Meets(kind, f, v, TRUE)}

\* What it selects: pairs of the ID that goes into the table when it is new and
\* the ID that is compared with the table's rows when it is not, which is the
\* child's for an implication.
Hits(kind, f, client) ==
    IF kind = "post" /\ f.token = "special" THEN {<<i, i>> : i \in Special(f.wants.tag, client)}
    ELSE LET child == IF f.token \in {"implies", "suggests"} THEN 2 ELSE 1
         IN  {<<m[1][1], m[1][child]>> : m \in Matched(kind, f)}

\* Whether a row is inserted twice, which the table does not allow.
Conflict(kind, f) ==
    /\ f.token # "special" /\ ~f.distinct
    /\ \E m, n \in Matched(kind, f) : m # n /\ m[1][1] = n[1][1]

\* Tags to be left out are united into one statement, whose patterns the
\* database does not lower.
MissedTags(kind, fs) ==
    {x[1] : x \in {y \in Of(kind, "tag") :
                  \E n \in DOMAIN fs : Meets(kind, fs[n], y[2], FALSE)}}

IsMissedTag(kind, f) == kind = "post" /\ f.token = "tag" /\ f.negated

\* The statements that fill the tables, in the order of the filters; the tags
\* come last.
Statements(kind, filters) ==
    LET single == SelectSeq(filters, LAMBDA f : f.token \in Tokens[kind].rel
                                                  /\ ~IsMissedTag(kind, f))
        tags   == SelectSeq(filters, LAMBDA f : IsMissedTag(kind, f))
    IN  [i \in DOMAIN single |-> <<single[i]>>] \o IF tags = <<>> THEN <<>> ELSE <<tags>>

\* Posts alike to a post, by the bits of their hashes that differ.
Alike(f, i) ==
    LET hashes == Vals("post", "similar", f.wants.post)
        most   == ((100 - f.wants.least) * 64) \div 100
        mine   == Vals("post", "similar", i)
        differ == {CHOOSE x \in hashes : TRUE, CHOOSE x \in mine : TRUE}
        bits   == Cardinality((UNION differ) \ {b \in UNION differ : \A d \in differ : b \in d})
    IN  hashes # {} /\ mine # {} /\ (bits <= most) # f.negated

\* Whether row i passes a filter on a column of its own.  A negated one keeps
\* rows where the column is NULL.
Passes(kind, f, i) ==
    CASE f.token = "similar" -> Alike(f, i)
      [] OTHER -> (\E v \in Vals(kind, f.token, i) : Meets(kind, f, v, TRUE)) # f.negated

\* Posts that a client prefers not to see.
HiddenPosts(client) ==
    LET prefs == Prefs[client] IN
    {i \in Rows("post") :
        \/ Vals("post", "safety", i) \cap prefs.safeties # {}
        \/ prefs.untagged /\ Vals("post", "tag-count", i) = {0}
        \/ Vals("post", "tag", i) \cap prefs.tags # {}
        \/ Vals("post", "tag-category", i) \cap prefs.categories # {}}

NoPrefs == [safeties |-> {}, untagged |-> FALSE, tags |-> {}, categories |-> {}]

Hides(kind, client, i) ==
    CASE kind = "post"    -> i \in HiddenPosts(client)
      [] kind = "comment" -> Vals("comment", "post", i) \cap HiddenPosts(client) # {}
      [] OTHER            -> FALSE

\* A guest has no likes or favorites.
Wrong(q) ==
    \/ q.plan = Error
    \/ /\ q.client = Guest
       /\ \E n \in DOMAIN q.plan.filters :
             LET f == q.plan.filters[n] IN f.token = "special" /\ f.wants.tag # "tumbleweed"

\* The rows the query finds, given the tables.
Found(q, m, n) ==
    {i \in Rows(q.kind) :
        /\ \A k \in DOMAIN q.plan.filters :
              LET f == q.plan.filters[k]
              IN  f.token \notin Tokens[q.kind].rel => Passes(q.kind, f, i)
        /\ ~Hides(q.kind, q.client, i)
        /\ m.has => i \in m.ids
        /\ n.has => i \notin n.ids}

-----------------------------------------------------------------------------
(* Sorts.                                                                   *)

\* Row i comes before row j by a column: a NULL is last either way.
Before(kind, sort, i, j) ==
    LET mine   == Vals(kind, SortKey(kind, sort.token), i)
        theirs == Vals(kind, SortKey(kind, sort.token), j)
        Less(v, w) == IF IsText(kind, sort.token) THEN v # w /\ TextLeq(v, w) ELSE v < w
    IN  \/ mine # {} /\ theirs = {}
        \/ \E v \in mine, w \in theirs : IF sort.desc THEN Less(w, v) ELSE Less(v, w)

Sorts(q) == Append(q.plan.sorts, [token |-> LastSort[q.kind], desc |-> TRUE])

\* Mutant: without the sort that is added.
PrecedesAsAsked(q, i, j) ==
    \E n \in DOMAIN q.plan.sorts :
        /\ Before(q.kind, q.plan.sorts[n], i, j)
        /\ \A m \in 1..(n - 1) : ~Before(q.kind, q.plan.sorts[m], j, i)

\* By the first sort that tells two rows apart; the database may put rows that
\* none does in either order.
Precedes(q, i, j) ==
    \E n \in DOMAIN Sorts(q) :
        /\ Before(q.kind, Sorts(q)[n], i, j)
        /\ \A m \in 1..(n - 1) : ~Before(q.kind, Sorts(q)[m], j, i)

\* The orders the database may give some rows.
Orders(q, rows, s) ==
    IF q.plan.random
    THEN {SelectSeq(Shuffles[s], LAMBDA i : i \in rows)}
    ELSE {o \in SetToSeqs(rows) : \A m, n \in DOMAIN o : Precedes(q, o[m], o[n]) => m < n}

-----------------------------------------------------------------------------
(* Requests.                                                                *)

Nothing == [has |-> FALSE, ids |-> {}]

Running(r) == pc[r] \notin {"idle", "done", "failed", "conflict"}

TypeOK ==
    /\ edits \in 0..MaxEdits
    /\ pc \in [Reqs -> {"idle", "look", "seed", "cache", "count", "load", "after", "fetch",
                        "done", "failed", "conflict"}]
    /\ \A r \in Reqs : ask[r].what \in {"none", "list", "around"}
    /\ \A r \in Reqs : match[r].ids \cup miss[r].ids \subseteq 1..Len(Shuffles[0])
    /\ \A r \in Reqs : total[r] \in Nat /\ Range(ids[r]) \subseteq 0..Len(Shuffles[0])

InitSearch ==
    /\ data = Start /\ edits = 0
    /\ seed = [c \in DOMAIN Prefs |-> 0] /\ own = [r \in Reqs |-> -1]
    /\ pc = [r \in Reqs |-> "idle"] /\ ask = [r \in Reqs |-> [what |-> "none"]]
    /\ todo = [r \in Reqs |-> <<>>]
    /\ match = [r \in Reqs |-> Nothing] /\ miss = [r \in Reqs |-> Nothing]
    /\ total = [r \in Reqs |-> 0] /\ ids = [r \in Reqs |-> <<>>]
    /\ offset = [r \in Reqs |-> 0] /\ limit = [r \in Reqs |-> 0]
    /\ calm = [r \in Reqs |-> TRUE]

Goto(r, step) == pc' = [pc EXCEPT ![r] = step]

AtRandom(q) == q.plan # Error /\ q.plan.random

Sorted(q) == q.plan.sorts # <<>> \/ q.plan.random

\* After the statements of the cache a list is counted; neighbors are loaded,
\* in batches if the search has a sort.
AfterCache(r, left) ==
    CASE left # <<>> -> "cache"
      [] left = <<>> /\ ask[r].what = "list" -> "count"
      [] left = <<>> /\ ask[r].what = "around" -> IF Sorted(ask[r]) THEN "load" ELSE "after"

\* A search is read and its statements planned.  Neighbors are looked for
\* around a post the client may see.
Begin(r, q) ==
    /\ pc[r] = "idle"
    /\ ask' = [ask EXCEPT ![r] = q]
    /\ todo' = [todo EXCEPT ![r] = IF Wrong(q) THEN <<>> ELSE Statements(q.kind, q.plan.filters)]
    /\ offset' = [offset EXCEPT ![r] = IF q.what = "list" THEN q.offset ELSE 0]
    /\ limit' = [limit EXCEPT ![r] = IF q.what = "list" THEN q.limit ELSE InitialLimit]
    /\ Goto(r, CASE Wrong(q) -> "failed"
                 [] ~Wrong(q) /\ q.what = "around" -> "look"
                 [] OTHER -> IF q.plan.random /\ q.offset = 0 /\ q.client # Guest
                             THEN "seed" ELSE "cache")
    /\ UNCHANGED <<data, edits, seed, own, match, miss, total, ids, calm>>

Look(r) ==
    /\ pc[r] = "look"
    /\ Goto(r, IF ask[r].post \in Rows("post") \ HiddenPosts(ask[r].client)
               THEN "cache" ELSE "failed")
    /\ UNCHANGED <<data, edits, seed, own, ask, todo, match, miss, total, ids, offset, limit, calm>>

\* The first page of a random list draws the client's seed anew, which locks
\* the client's row until the end.
Reseed(r) ==
    /\ pc[r] = "seed"
    /\ \A x \in Reqs \ {r} : Running(x) /\ own[x] >= 0 => ask[x].client # ask[r].client
    /\ \E s \in DOMAIN Shuffles : own' = [own EXCEPT ![r] = s]
    /\ Goto(r, "cache")
    /\ UNCHANGED <<data, edits, seed, ask, todo, match, miss, total, ids, offset, limit, calm>>

\* One statement of the cache.
Cache(r) ==
    LET q == ask[r]
        fs == Head(todo[r])
        f == fs[1]
        hits == Hits(q.kind, f, q.client)
        inserted == IF f.negated THEN ~miss[r].has ELSE ~match[r].has
        selected == IF IsMissedTag(q.kind, f) THEN MissedTags(q.kind, fs) ELSE {x[1] : x \in hits}
    IN  /\ pc[r] = "cache"
        /\ IF todo[r] = <<>>
           THEN UNCHANGED <<match, miss, todo>>
           ELSE /\ todo' = [todo EXCEPT ![r] = Tail(@)]
                /\ match' = IF f.negated THEN match
                            ELSE [match EXCEPT ![r] =
                                    [has |-> TRUE,
                                     ids |-> IF @.has THEN @.ids \cap {x[2] : x \in hits}
                                             ELSE selected]]
                /\ miss' = IF ~f.negated THEN miss
                           ELSE [miss EXCEPT ![r] = [has |-> TRUE, ids |-> @.ids \cup selected]]
        /\ Goto(r, CASE todo[r] = <<>> -> AfterCache(r, <<>>)
                     [] todo[r] # <<>> /\ inserted /\ ~IsMissedTag(q.kind, f) /\ Conflict(q.kind, f)
                          -> "conflict"
                     [] OTHER -> AfterCache(r, Tail(todo[r])))
        /\ UNCHANGED <<data, edits, seed, own, ask, total, ids, offset, limit, calm>>

\* Without a filter the total is the one the triggers keep.
Count(r) ==
    LET q == ask[r] IN
    /\ pc[r] = "count"
    /\ total' = [total EXCEPT ![r] =
          IF /\ q.plan.filters = <<>> /\ q.kind # "snapshot"
             /\ q.kind \in {"post", "comment"} => Prefs[q.client] = NoPrefs
          THEN Cardinality(Rows(q.kind))
          ELSE Cardinality(Found(q, match[r], miss[r]))]
    /\ Goto(r, "load")
    /\ UNCHANGED <<data, edits, seed, own, ask, todo, match, miss, ids, offset, limit, calm>>

Page(o, r) == SubSeq(o, offset[r] + 1, Min({offset[r] + limit[r], Len(o)}))

SeedOf(r) == IF own[r] >= 0 THEN own[r] ELSE seed[ask[r].client]

\* The page of a list, or a batch around a post.  A list then commits; if it
\* drew a seed, the client's other random lists are of an older one.
Load(r) ==
    LET q == ask[r]
        drew == q.what = "list" /\ own[r] >= 0
        older == {x \in Reqs \ {r} : pc[x] # "idle" /\ ask[x].client = q.client}
    IN  /\ pc[r] = "load"
        /\ \E o \in Orders(q, Found(q, match[r], miss[r]), SeedOf(r)) :
              ids' = [ids EXCEPT ![r] = Page(o, r)]
        /\ Goto(r, IF q.what = "list" THEN "done" ELSE "fetch")
        /\ seed' = IF drew THEN [seed EXCEPT ![q.client] = own[r]] ELSE seed
        /\ calm' = [x \in Reqs |-> calm[x] /\ (drew => x \notin older)]
        /\ UNCHANGED <<data, edits, own, ask, todo, match, miss, total, offset, limit>>

\* The neighbors in a sequence, of the post at a position of it.
Around(s, at) ==
    (IF at > 1 THEN <<s[at - 1]>> ELSE <<0>>)
        \o (IF at # 0 /\ at < Len(s) THEN <<s[at + 1]>> ELSE <<0>>)

\* Mutant: batches do not overlap.
NextOffsetApart(o, n) == o + n

\* Where the batch after one of n rows at o begins: with its last two.
NextOffset(o, n) == o + n - 2

\* A batch that ends at the post, or does not have it, is followed by another.
Fetch(r) ==
    LET batch == ids[r]
        at == SelectInSeq(batch, LAMBDA i : i = ask[r].post)
        enough == Len(batch) < limit[r] \/ (at # 0 /\ at # Len(batch))
    IN  /\ pc[r] = "fetch"
        /\ IF enough
           THEN /\ ids' = [ids EXCEPT ![r] = Around(batch, at)]
                /\ Goto(r, "done") /\ UNCHANGED <<offset, limit>>
           ELSE /\ offset' = [offset EXCEPT ![r] = NextOffset(@, limit[r])]
                /\ limit' = [limit EXCEPT ![r] = @ * LimitGrowth]
                /\ Goto(r, "load") /\ UNCHANGED ids
        /\ UNCHANGED <<data, edits, seed, own, ask, todo, match, miss, total, calm>>

\* Without a sort the neighbors are the next IDs up and then, in a statement
\* of its own, down.
NextIds(r) ==
    LET rows == Found(ask[r], match[r], miss[r])
        up   == {i \in rows : i > ask[r].post}
        down == {i \in rows : i < ask[r].post}
    IN  /\ pc[r] = "after"
        /\ IF ids[r] = <<>>
           THEN ids' = [ids EXCEPT ![r] = <<IF up = {} THEN 0 ELSE Min(up)>>] /\ UNCHANGED pc
           ELSE ids' = [ids EXCEPT ![r] = Append(@, IF down = {} THEN 0 ELSE Max(down))]
                /\ Goto(r, "done")
        /\ UNCHANGED <<data, edits, seed, own, ask, todo, match, miss, total, offset, limit, calm>>

\* Another request commits.
Edit(e) ==
    /\ edits < MaxEdits /\ edits' = edits + 1
    /\ data' = [data EXCEPT ![e.kind] =
                  [a \in DOMAIN @ |-> IF a \in DOMAIN e.changes
                                      THEN (@[a] \ e.changes[a].del) \cup e.changes[a].ins
                                      ELSE @[a]]]
    /\ data' # data
    /\ calm' = [r \in Reqs |-> pc[r] = "idle"]
    /\ UNCHANGED <<seed, own, pc, ask, todo, match, miss, total, ids, offset, limit>>

Step(r) == Look(r) \/ Reseed(r) \/ Cache(r) \/ Count(r) \/ Load(r) \/ Fetch(r) \/ NextIds(r)

NextSearch ==
    \/ \E r \in Reqs, n \in DOMAIN Asks : Begin(r, Asks[n])
    \/ \E r \in Reqs : Step(r)
    \/ \E n \in DOMAIN Edits : Edit(Edits[n])

-----------------------------------------------------------------------------
(* What searches promise.  A query says what it means besides its text:     *)
(* means, a sequence of conditions, each an attribute, values, and whether it is *)
(* one that no such value may meet; and order, the sorts it asks for.       *)

Wanted(q) ==
    {i \in Rows(q.kind) :
        \A n \in DOMAIN q.means :
            (Vals(q.kind, q.means[n].attribute, i) \cap q.means[n].vals # {}) # q.means[n].negated}

\* Row i comes first, as the query means it, or at random for a seed.
First(q, i, j) ==
    LET keys == Append(q.order, [token |-> LastSort[q.kind], desc |-> TRUE])
        V(n, x) == Vals(q.kind, SortKey(q.kind, keys[n].token), x)
        Less(n, v, w) == IF IsText(q.kind, keys[n].token) THEN v # w /\ TextLeq(v, w) ELSE v < w
        Ahead(n) == \/ V(n, i) # {} /\ V(n, j) = {}
                    \/ \E v \in V(n, i), w \in V(n, j) :
                          IF keys[n].desc THEN Less(n, w, v) ELSE Less(n, v, w)
        place == Shuffles[seed[q.client]]
        Place(x) == SelectInSeq(place, LAMBDA y : y = x)
    IN  IF q.plan.random THEN Place(i) < Place(j)
        ELSE \E n \in DOMAIN keys : Ahead(n) /\ \A m \in 1..(n - 1) : V(m, i) = V(m, j)

\* Searches that mean something else to the code: a filter by an implication or
\* suggestion after another on a relation is compared with the ID of the wrong
\* tag; a pattern of tags to leave out is not lowered; posts without a hash are
\* neither alike nor not; and the instant at which a year ends belongs to it in
\* a bound.
Misread(q) ==
    LET fs == q.plan.filters
        Positive(n) == fs[n].token \in Tokens[q.kind].rel /\ ~fs[n].negated
        AtEnd(f) == /\ f.token \in Tokens[q.kind].time \/ IsTime(f.token)
                    /\ f.wants.tag \in {"le", "between"}
                    /\ \E x \in Of(q.kind, f.token) : x[2] = f.wants.to
    IN  \/ \E m, n \in DOMAIN fs :
              m < n /\ Positive(m) /\ Positive(n) /\ fs[n].token \in {"implies", "suggests"}
        \/ \E n \in DOMAIN fs :
              \/ /\ IsMissedTag(q.kind, fs[n]) /\ fs[n].wants.tag = "like"
                 /\ Contains(fs[n].wants.pattern, "A")
              \/ fs[n].token = "similar" /\ fs[n].negated
              \/ AtEnd(fs[n])

Exact(r, what) == pc[r] = "done" /\ calm[r] /\ ask[r].what = what /\ ~Misread(ask[r])

\* A search that was understood is never refused because a row matches it in
\* several ways: a filter that several values may meet selects rows once.
SearchesAnswered == \A r \in Reqs : pc[r] # "conflict"

\* While nothing is changed, a list has the rows that are meant, counts them,
\* and its page has those of its places in the order that is meant: so the
\* pages of a list have each row once, unless its last sort has ties.
ListsExact ==
    \A r \in Reqs : Exact(r, "list") =>
        LET q == ask[r]
            wanted == Wanted(q)
            All == Cardinality(wanted)
        IN  /\ total[r] = All
            /\ Len(ids[r]) = Max({0, Min({q.limit, All - q.offset})})
            /\ IsInjective(ids[r])
            /\ \A n \in DOMAIN ids[r] :
                  /\ ids[r][n] \in wanted
                  /\ Cardinality({i \in wanted : First(q, i, ids[r][n])}) < q.offset + n
                  /\ Cardinality({i \in wanted : First(q, ids[r][n], i)}) <= All - q.offset - n

\* While nothing is changed, the neighbors of a post in a list that has it are
\* the rows before and after it, and none is left out between.
NeighborsAdjacent ==
    \A r \in Reqs : Exact(r, "around") =>
        LET q == ask[r]
            before == {i \in Wanted(q) : First(q, i, q.post)}
            after  == {i \in Wanted(q) : First(q, q.post, i)}
        IN  q.post \in Wanted(q) =>
              /\ IF before = {} THEN ids[r][1] = 0
                 ELSE ids[r][1] \in before /\ ~\E i \in before : First(q, ids[r][1], i)
              /\ IF after = {} THEN ids[r][2] = 0
                 ELSE ids[r][2] \in after /\ ~\E i \in after : First(q, i, ids[r][2])
=============================================================================
