------------------------------ MODULE Resources ------------------------------
(***************************************************************************)
(* Responses as they are put together (resource/): the rows a request is   *)
(* for are loaded, then every field that was asked for, each by statements *)
(* of its own for all the rows at once.  A READ COMMITTED statement sees   *)
(* what was committed when it began, so other requests may change the      *)
(* database between any two of them.                                       *)
(*                                                                         *)
(* An assertion or an index that fails is a panic.                         *)
(***************************************************************************)
EXTENDS Records

CONSTANTS
    Rows,       \* what a behaviour starts with
    Swaps,      \* [out, in]: rows other requests replace
    Doomed,     \* rows other requests delete
    Asks,       \* [kind, ids, fields, client, reload, full]: what is requested
    Hidden,     \* posts the preferences of every client hide
    MaxEdits,   \* bound: changes by other requests
    Panic       \* what an assertion that fails returns

-----------------------------------------------------------------------------
(* resource/mod.rs. *)

\* Rows without an ORDER BY.
InAnyOrder(S) == SetToSeqs(S)
Ordered(S, Before(_, _)) == {SetToSortSeq(S, Before)}

Ids(rows) == [k \in DOMAIN rows |-> rows[k].id]
Position(order, id) == SelectInSeq(order, LAMBDA x : x = id)

\* Where each value belongs is where it is swapped to.
order_transformed_as(values, order) ==
    LET step(walk, n) ==
            IF walk.values = Panic \/ walk.index > Len(order) THEN walk
            ELSE LET i == walk.index
                     correct == Position(order, walk.values[i].id)
                 IN  CASE correct < i -> [walk EXCEPT !.values = Panic]
                       [] correct = i -> [walk EXCEPT !.index = @ + 1]
                       [] OTHER -> [walk EXCEPT !.values[i] = walk.values[correct],
                                                !.values[correct] = walk.values[i]]
    IN  IF Len(values) # Len(order) THEN Panic
        ELSE FoldLeft(step, [values |-> values, index |-> 1], [n \in 1..2 * Len(order) |-> n]).values

order_as(values, order) == order_transformed_as(values, order)

\* Values are put where their resources are, in the places that are left over None.
order_as_padded(values, order) ==
    IF Len(values) > Len(order) THEN Panic
    ELSE FoldLeft(LAMBDA results, v : [results EXCEPT ![Position(order, v.id)] = v.value],
                  [k \in DOMAIN order |-> None], values)

\* Names are cut where one id ends and another begins.
collect_names(ordered) ==
    LET starts == {k \in DOMAIN ordered : k = 1 \/ ordered[k - 1].id # ordered[k].id}
        end(k) == Min({n \in starts : n > k} \cup {Len(ordered) + 1})
    IN  [id \in {ordered[k].id : k \in starts} |->
            LET k == Max({n \in starts : ordered[n].id = id})
            IN  [n \in 1..end(k) - k |-> ordered[k + n - 1].name]]

\* diesel's grouped_by: the children of each parent, in the order they came in.
grouped_by(children, ids) ==
    [k \in DOMAIN ids |-> SelectSeq(children, LAMBDA child : child.of = ids[k])]

Values(grouped) == [k \in DOMAIN grouped |-> [n \in DOMAIN grouped[k] |-> grouped[k][n].value]]

\* The value of a statistic for each row; a row without one is a panic.
Exact(values, ids) ==
    LET sorted == order_transformed_as(values, ids)
    IN  IF sorted = Panic THEN Panic ELSE [k \in DOMAIN sorted |-> sorted[k].value]

Padded(values, ids, default) ==
    LET padded == order_as_padded(values, ids)
    IN  IF padded = Panic THEN Panic
        ELSE [k \in DOMAIN padded |-> IF padded[k] = None THEN default ELSE padded[k]]

-----------------------------------------------------------------------------
(* Statements, each with the results it may have. *)

\* Rows of a table with the names of their users; a row without one is not there.
WithUser(d, t, ids) ==
    InAnyOrder({[id |-> row.id, value |-> The(d, "user", row.user).name] :
                   row \in {row \in Among(d, t, ids) : row.user # None}})

\* resource/post.rs.
PostOwners(d, ids) == WithUser(d, "post", ids)

PostStats(d, ids, field) ==
    LET stat(id) ==
            CASE field = "tagCount"      -> Count(d, "post_tag", LAMBDA row : row.post = id)
              [] field = "favoriteCount" -> Count(d, "post_favorite", LAMBDA row : row.post = id)
    IN  InAnyOrder({[id |-> id, value |-> stat(id)] : id \in {row.id : row \in Among(d, "post", ids)}})

PostTags(d, ids) ==
    Ordered({[of |-> row.post, id |-> row.tag, category |-> The(d, "tag", row.tag).category,
              order |-> The(d, "tag_category", The(d, "tag", row.tag).category).order,
              name |-> PrimaryName(d, row.tag), usages |-> Usages(d, row.tag)] :
                row \in {row \in Table(d, "post_tag") : row.post \in ids}},
            LAMBDA x, y : x.order < y.order \/ (x.order = y.order /\ x.name < y.name))

PostComments(d, ids) ==
    Ordered({[of |-> row.post, id |-> row.id, score |-> Score(d, row.id),
              user |-> IF row.user = None THEN None ELSE The(d, "user", row.user).name] :
                row \in {row \in Table(d, "comment") : row.post \in ids}},
            LAMBDA x, y : x.id < y.id)

PostRelations(d, ids) ==
    Ordered({[of |-> row.parent, value |-> row.child] :
                row \in {row \in Table(d, "post_relation") : row.parent \in ids /\ row.child \notin Hidden}},
            LAMBDA x, y : x.value < y.value)

PostPools(d, ids) ==
    Ordered({[of |-> row.post, id |-> row.pool, category |-> The(d, "pool", row.pool).category,
              usages |-> PostCount(d, row.pool)] :
                row \in {row \in Table(d, "pool_post") : row.post \in ids}},
            LAMBDA x, y : x.category < y.category \/ (x.category = y.category /\ x.id < y.id))

PostNotes(d, ids) ==
    Ordered({[of |-> row.post, value |-> row.id] : row \in {row \in Table(d, "post_note") : row.post \in ids}},
            LAMBDA x, y : x.value < y.value)

\* What the client gave, in a table of posts and users.
OwnPostScores(d, ids, client) ==
    InAnyOrder({[id |-> row.post, value |-> row.score] :
                   row \in {row \in Table(d, "post_score") : row.post \in ids /\ row.user = client}})

OwnPostFavorites(d, ids, client) ==
    InAnyOrder({[id |-> row.post, value |-> TRUE] :
                   row \in {row \in Table(d, "post_favorite") : row.post \in ids /\ row.user = client}})

PostFavoritedBy(d, ids) ==
    Ordered({[of |-> row.post, value |-> The(d, "user", row.user).name] :
                row \in {row \in Table(d, "post_favorite") : row.post \in ids}},
            LAMBDA x, y : x.value < y.value)

\* resource/tag.rs, resource/pool.rs.
Categories(d, t, ids) ==
    {[id \in {row.id : row \in Among(d, t, ids)} |-> The(d, t, id).name]}

OwnNames(d, t, ids) ==
    Ordered({[of |-> row.of, order |-> row.order, value |-> row.name] :
                row \in {row \in Table(d, t) : row.of \in ids}},
            LAMBDA x, y : x.order < y.order)

Children(d, t, ids) ==
    Ordered({[of |-> row.parent, id |-> row.child, category |-> The(d, "tag", row.child).category,
              name |-> PrimaryName(d, row.child), usages |-> Usages(d, row.child)] :
                row \in {row \in Table(d, t) : row.parent \in ids}},
            LAMBDA x, y : x.name < y.name)

TagImplications(d, ids) == Children(d, "tag_implication", ids)
TagSuggestions(d, ids)  == Children(d, "tag_suggestion", ids)

TagUsages(d, ids) ==
    InAnyOrder({[id |-> row.id, value |-> Usages(d, row.id)] : row \in Among(d, "tag", ids)})

PoolPosts(d, ids) ==
    Ordered({[of |-> row.pool, order |-> row.order, value |-> row.post] :
                row \in {row \in Table(d, "pool_post") : row.pool \in ids /\ row.post \notin Hidden}},
            LAMBDA x, y : x.order < y.order)

PoolPostCounts(d, ids) ==
    InAnyOrder({[id |-> row.id, value |-> PostCount(d, row.id)] : row \in Among(d, "pool", ids)})

\* resource/comment.rs.
CommentOwners(d, ids) == WithUser(d, "comment", ids)

CommentScores(d, ids) ==
    InAnyOrder({[id |-> row.id, value |-> Score(d, row.id)] : row \in Among(d, "comment", ids)})

OwnCommentScores(d, ids, client) ==
    InAnyOrder({[id |-> row.comment, value |-> row.score] :
                   row \in {row \in Table(d, "comment_score") : row.comment \in ids /\ row.user = client}})

\* resource/user.rs, resource/snapshot.rs.
UserAvatars(d, ids) ==
    InAnyOrder({[id |-> row.id, value |-> row.name] : row \in Among(d, "user", ids)})

UserStats(d, ids) ==
    InAnyOrder({[id |-> row.id, value |-> Count(d, "post_favorite", LAMBDA x : x.user = row.id)] :
                   row \in Among(d, "user", ids)})

\* Users are grouped by, so who has rated nothing is not there.
UserRatings(d, ids) ==
    LET liked(id) == Count(d, "post_score", LAMBDA x : x.user = id /\ x.score = 1)
    IN  InAnyOrder({[id |-> id, value |-> liked(id)] : id \in {i \in ids : liked(i) > 0}})

SnapshotUsers(d, ids) == WithUser(d, "snapshot", ids)

-----------------------------------------------------------------------------
(* Fields.                                                                  *)

\* In the order they are asked for.
FieldOrder(kind) ==
    CASE kind = "post"     -> <<"user", "tags", "comments", "relations", "pools", "notes", "ownScore",
                                "ownFavorite", "tagCount", "favoriteCount", "favoritedBy">>
      [] kind = "tag"      -> <<"category", "names", "implications", "suggestions", "usages">>
      [] kind = "pool"     -> <<"category", "names", "posts", "postCount">>
      [] kind = "comment"  -> <<"user", "score", "ownScore">>
      [] kind = "user"     -> <<"avatarUrl", "likedPostCount", "favoritePostCount">>
      [] kind = "snapshot" -> <<"user">>

MicroTagFields == {"tags", "implications", "suggestions"}

Statements(f) ==
    CASE f \in MicroTagFields -> 3
      [] f = "pools"          -> 4
      [] f = "comments"       -> 2
      [] OTHER                -> 1

Queries(kind, fields) ==
    LET asked == SelectSeq(FieldOrder(kind), LAMBDA f : f \in fields)
    IN  FlattenSeq([k \in DOMAIN asked |-> [n \in 1..Statements(asked[k]) |-> <<asked[k], n>>]])

\* Mutant: the names are not kept together by tag.
NamesUngrouped(d, t, ids) ==
    Ordered({[id |-> row.of, order |-> row.order, name |-> row.name] :
                row \in {row \in Table(d, NameTable(t)) : row.of \in ids}},
            LAMBDA x, y : x.order < y.order \/ (x.order = y.order /\ x.id < y.id))

\* The names of tags or pools, all categories, and the texts of pools.
NamesInOrder(d, t, ids) ==
    Ordered({[id |-> row.of, order |-> row.order, name |-> row.name] :
                row \in {row \in Table(d, NameTable(t)) : row.of \in ids}},
            LAMBDA x, y : x.id < y.id \/ (x.id = y.id /\ x.order < y.order))

AllCategories(d, t) == Categories(d, t, {row.id : row \in Table(d, t)})

Descriptions(d, ids) == {[id \in ids \cap {row.id : row \in Table(d, "pool")} |-> The(d, "pool", id).text]}

\* What the first statement of a field may load, for rows of these ids.  What only
\* a client sees, or a full view shows, is not loaded for others.
FirstLoaded(d, kind, f, rows, client, full) ==
    LET ids == ToSet(Ids(rows)) IN
    CASE kind = "post" /\ f = "user"      -> PostOwners(d, ids)
      [] f = "tags"                       -> PostTags(d, ids)
      [] f = "comments"                   -> PostComments(d, ids)
      [] f = "relations"                  -> PostRelations(d, ids)
      [] f = "pools"                      -> PostPools(d, ids)
      [] f = "notes"                      -> PostNotes(d, ids)
      [] kind = "post" /\ f = "ownScore"  -> IF client = None THEN {<< >>} ELSE OwnPostScores(d, ids, client)
      [] f = "ownFavorite"                -> IF client = None THEN {<< >>} ELSE OwnPostFavorites(d, ids, client)
      [] f \in {"tagCount", "favoriteCount"} -> PostStats(d, ids, f)
      [] f = "favoritedBy"                -> PostFavoritedBy(d, ids)
      [] f = "category"                   ->
            Categories(d, CategoryTable(kind), {rows[k].category : k \in DOMAIN rows})
      [] f = "names"                      -> OwnNames(d, NameTable(kind), ids)
      [] f = "implications"               -> TagImplications(d, ids)
      [] f = "suggestions"                -> TagSuggestions(d, ids)
      [] f = "usages"                     -> TagUsages(d, ids)
      [] f = "posts"                      -> PoolPosts(d, ids)
      [] f = "postCount"                  -> PoolPostCounts(d, ids)
      [] kind = "comment" /\ f = "user"   -> CommentOwners(d, ids)
      [] f = "score"                      -> CommentScores(d, ids)
      [] kind = "comment" /\ f = "ownScore" ->
            IF client = None THEN {<< >>} ELSE OwnCommentScores(d, ids, client)
      [] f = "avatarUrl"                  -> UserAvatars(d, ids)
      [] f = "likedPostCount"             -> IF full THEN UserRatings(d, ids) ELSE {<< >>}
      [] f = "favoritePostCount"          -> UserStats(d, ids)
      [] kind = "snapshot" /\ f = "user"  -> SnapshotUsers(d, ids)

\* And a later one, for what the first has found.
LaterLoaded(d, f, n, found, client) ==
    LET ids == {found[k].id : k \in DOMAIN found}
        t   == IF f = "pools" THEN "pool" ELSE "tag"
    IN  CASE f = "comments" -> IF client = None THEN {<< >>} ELSE OwnCommentScores(d, ids, client)
          [] f # "comments" /\ n = 2 -> NamesInOrder(d, t, ids)
          [] f # "comments" /\ n = 3 -> AllCategories(d, CategoryTable(t))
          [] n = 4 -> Descriptions(d, ids)

\* Tags or pools with their names and categories, which must be there.
MicroTags(found, names, categories, ids) ==
    IF \E k \in DOMAIN found : found[k].id \notin DOMAIN names \/ found[k].category \notin DOMAIN categories
    THEN Panic
    ELSE Values(grouped_by([k \in DOMAIN found |->
            [of |-> found[k].of,
             value |-> [names |-> names[found[k].id], category |-> categories[found[k].category],
                        usages |-> found[k].usages]]], ids))

MicroPools(found, names, categories, texts, ids) ==
    IF \E k \in DOMAIN found : \/ found[k].id \notin DOMAIN names \cap DOMAIN texts
                               \/ found[k].category \notin DOMAIN categories
    THEN Panic
    ELSE Values(grouped_by([k \in DOMAIN found |->
            [of |-> found[k].of,
             value |-> [id |-> found[k].id, names |-> names[found[k].id],
                        category |-> categories[found[k].category], text |-> texts[found[k].id],
                        usages |-> found[k].usages]]], ids))

CommentInfos(found, own, ids) ==
    LET score(id) ==
            LET given == {k \in DOMAIN own : own[k].id = id}
            IN  IF given = {} THEN 0 ELSE own[CHOOSE k \in given : TRUE].value
    IN  Values(grouped_by([k \in DOMAIN found |->
            [of |-> found[k].of,
             value |-> [id |-> found[k].id, user |-> found[k].user, score |-> found[k].score,
                        own |-> score(found[k].id)]]], ids))

\* A field of all rows, from what its statements have loaded.
Assembled(f, rows, parts, full) ==
    LET ids == Ids(rows) IN
    CASE f = "user" -> Padded(parts[1], ids, None)
      [] f = "ownScore" -> Padded(parts[1], ids, 0)
      [] f = "ownFavorite" -> Padded(parts[1], ids, FALSE)
      [] f = "likedPostCount" -> IF full THEN Padded(parts[1], ids, 0) ELSE [k \in DOMAIN ids |-> None]
      [] f \in {"tagCount", "favoriteCount", "usages", "postCount", "score", "avatarUrl",
                "favoritePostCount"} -> Exact(parts[1], ids)
      [] f \in {"relations", "notes", "favoritedBy", "names", "posts"} -> Values(grouped_by(parts[1], ids))
      [] f \in MicroTagFields -> MicroTags(parts[1], collect_names(parts[2]), parts[3], ids)
      [] f = "pools" -> MicroPools(parts[1], collect_names(parts[2]), parts[3], parts[4], ids)
      [] f = "comments" -> CommentInfos(parts[1], parts[2], ids)
      [] f = "category" ->
            IF \E k \in DOMAIN rows : rows[k].category \notin DOMAIN parts[1] THEN Panic
            ELSE [k \in DOMAIN rows |-> parts[1][rows[k].category]]

-----------------------------------------------------------------------------
VARIABLES
    db,        \* what is committed
    moments,   \* what was, since the request began
    ask,       \* the request
    stage,     \* how far it is
    rows,      \* what it is for, in the order it was asked for
    todo,      \* statements to come
    parts,     \* results of the current field's statements
    fields     \* fields that are complete

resourceVars == <<db, moments, ask, stage, rows, todo, parts, fields>>

\* The IDs have just been found; without reload, the transaction that wrote the row has ended.
ResourceInit ==
    /\ db = Rows /\ moments = <<Rows>>
    /\ ask \in Asks
    /\ stage = IF ask.reload THEN "found" ELSE "loaded"
    /\ rows = IF ask.reload THEN << >> ELSE [k \in DOMAIN ask.ids |-> The(Rows, ask.kind, ask.ids[k])]
    /\ todo = Queries(ask.kind, ask.fields)
    /\ parts = << >> /\ fields = [f \in {} |-> << >>]

\* new_batch_from_ids
LoadRows ==
    /\ stage = "found"
    /\ \E unordered \in InAnyOrder(Among(db, ask.kind, ToSet(ask.ids))) :
        /\ rows' = order_as(unordered, ask.ids)
        /\ stage' = IF rows' = Panic THEN "panicked" ELSE "loaded"
    /\ UNCHANGED <<db, moments, ask, todo, parts, fields>>

\* A statement of new_batch; after its last, the field has a value for every row.
Query ==
    /\ stage = "loaded" /\ todo # << >>
    /\ LET f   == Head(todo)[1]
           nth == Head(todo)[2]
       IN  \E loaded \in IF nth = 1 THEN FirstLoaded(db, ask.kind, f, rows, ask.client, ask.full)
                          ELSE LaterLoaded(db, f, nth, parts[1], ask.client) :
            LET all   == Append(parts, loaded)
                value == Assembled(f, rows, all, ask.full)
            IN  IF nth < Statements(f)
                THEN parts' = all /\ UNCHANGED <<stage, fields>>
                ELSE /\ parts' = << >>
                     /\ IF value = Panic \/ Len(value) # Len(rows)
                        THEN stage' = "panicked" /\ UNCHANGED fields
                        ELSE fields' = (f :> value) @@ fields /\ UNCHANGED stage
    /\ todo' = Tail(todo)
    /\ UNCHANGED <<db, moments, ask, rows>>

Answer ==
    /\ stage = "loaded" /\ todo = << >>
    /\ stage' = "answered"
    /\ UNCHANGED <<db, moments, ask, rows, todo, parts, fields>>

\* Another request commits.
Commit(new) ==
    /\ stage \in {"found", "loaded"}
    /\ Len(moments) <= MaxEdits
    /\ db' = new /\ moments' = Append(moments, new)
    /\ UNCHANGED <<ask, stage, rows, todo, parts, fields>>

Change ==
    \E x \in Swaps :
        /\ x.out \subseteq db /\ x.in \cap db = {}
        /\ \A row \in x.in : \A r \in Refers(row) \cup Owner(row) : Among(db, r[1], {r[2]}) # {}
        /\ Commit((db \ x.out) \cup x.in)

Delete == \E row \in Doomed : row \in db /\ Commit(Without(db, row))

ResourceNext == LoadRows \/ Query \/ Answer \/ Change \/ Delete

ResourceSpec == ResourceInit /\ [][ResourceNext]_resourceVars

-----------------------------------------------------------------------------
(* Properties.                                                              *)

During == ToSet(moments)

\* A field of one resource at one moment, whatever else was asked for.
At(d, kind, f, id, client) ==
    LET here == Among(d, kind, {id})
        mine(t, key(_)) == {row \in Table(d, t) : key(row) = id}
    IN  CASE f = "user" ->
                IF here = {} \/ The(d, kind, id).user = None THEN None
                ELSE The(d, "user", The(d, kind, id).user).name
          [] f = "ownScore" ->
                Total({row \in d : \/ kind = "post" /\ row.table = "post_score" /\ row.post = id /\ row.user = client
                                   \/ kind = "comment" /\ row.table = "comment_score" /\ row.comment = id
                                      /\ row.user = client})
          [] f = "ownFavorite" -> \E row \in Table(d, "post_favorite") : row.post = id /\ row.user = client
          [] f = "tagCount" -> Cardinality(mine("post_tag", LAMBDA row : row.post))
          [] f = "favoriteCount" -> Cardinality(mine("post_favorite", LAMBDA row : row.post))
          [] f \in {"usages", "postCount"} -> IF kind = "tag" THEN Usages(d, id) ELSE PostCount(d, id)
          [] f = "score" -> Score(d, id)
          [] f = "avatarUrl" -> IF here = {} THEN None ELSE The(d, "user", id).name
          [] f = "favoritePostCount" -> Cardinality(mine("post_favorite", LAMBDA row : row.user))
          [] f = "likedPostCount" ->
                IF ask.full THEN Cardinality({row \in mine("post_score", LAMBDA row : row.user) : row.score = 1})
                ELSE None
          [] f = "relations" -> {row.child : row \in mine("post_relation", LAMBDA row : row.parent)} \ Hidden
          [] f = "notes" -> {row.id : row \in mine("post_note", LAMBDA row : row.post)}
          [] f = "favoritedBy" ->
                {The(d, "user", row.user).name : row \in mine("post_favorite", LAMBDA row : row.post)}
          [] f = "names" -> NamesOf(d, kind, id)
          [] f = "posts" ->
                LET numbered == {row \in mine("pool_post", LAMBDA row : row.pool) : row.post \notin Hidden}
                IN  [k \in 1..Cardinality(numbered) |->
                        (CHOOSE row \in numbered :
                            Cardinality({x \in numbered : x.order < row.order}) = k - 1).post]

\* Tags or pools of a resource, each from the moment it was found at, with names and a
\* category it had at some moment.
ShownOf(f, id, value) ==
    \E d \in During :
        LET links(t, key) == {row \in Table(d, t) : row[key] = id}
            of == CASE f = "tags"         -> {row.tag : row \in links("post_tag", "post")}
                    [] f = "implications" -> {row.child : row \in links("tag_implication", "parent")}
                    [] f = "suggestions"  -> {row.child : row \in links("tag_suggestion", "parent")}
                    [] f = "pools"        -> {row.pool : row \in links("pool_post", "post")}
            t == IF f = "pools" THEN "pool" ELSE "tag"
            category(x) == {The(d, t, x).category}
        IN  \E s \in SetToSeqs(of) :
            /\ Len(value) = Len(s)
            /\ \A k \in DOMAIN s :
                /\ value[k].usages = IF t = "pool" THEN PostCount(d, s[k]) ELSE Usages(d, s[k])
                /\ \E e \in During : value[k].names = NamesOf(e, t, s[k])
                /\ \E e \in During : \E row \in Among(e, CategoryTable(t), category(s[k])) :
                      value[k].category = row.name
                /\ t = "pool" =>
                      /\ value[k].id = s[k]
                      /\ \E e \in During : \E row \in Among(e, t, {s[k]}) : value[k].text = row.text

\* Comments of a post, each with its owner and score and what the client gave it.
CommentsOf(id, value) ==
    \E d \in During :
        /\ {value[k].id : k \in DOMAIN value} = {row.id : row \in {x \in Table(d, "comment") : x.post = id}}
        /\ \A k \in DOMAIN value :
            /\ \A l \in DOMAIN value : k < l => value[k].id < value[l].id
            /\ value[k].user = At(d, "comment", "user", value[k].id, ask.client)
            /\ value[k].score = Score(d, value[k].id)
            /\ \E e \in During : value[k].own = At(e, "comment", "ownScore", value[k].id, ask.client)

IsSet(f) == f \in {"relations", "notes", "favoritedBy"}

OwnField(kind, f, id, value) ==
    CASE f \in MicroTagFields \cup {"pools"} -> ShownOf(f, id, value)
      [] f = "comments" -> CommentsOf(id, value)
      [] f = "category" ->
            \E d, e \in During : \E row \in Among(d, kind, {id}) :
                value \in {c.name : c \in Among(e, CategoryTable(kind), {row.category})}
      [] IsSet(f) ->
            /\ \E d \in During : ToSet(value) = At(d, kind, f, id, ask.client)
            /\ \A k, l \in DOMAIN value : k < l => value[k] < value[l]
      [] OTHER -> \E d \in During : value = At(d, kind, f, id, ask.client)

\* Every resource of a response has the ID that was asked for in its place, and every field is
\* its own, as it was while the request ran, whatever happened between the statements.
FieldsOwn ==
    stage = "answered" =>
        /\ Ids(rows) = ask.ids
        /\ DOMAIN fields = ask.fields
        /\ \A f \in ask.fields, k \in DOMAIN rows : OwnField(ask.kind, f, ask.ids[k], fields[f][k])

\* A response is given up only if something it was about was deleted while it was put
\* together: additions, renames and moves never make a panic.
PanicsOnDeletion ==
    stage = "panicked" =>
        \E k, l \in DOMAIN moments : k < l /\
            \E row \in moments[k] :
                /\ row.table \in {"post", "tag", "pool", "comment", "user", "snapshot",
                                  "tag_category", "pool_category"}
                /\ Among(moments[l], row.table, {row.id}) = {}

ResponsesOwn == FieldsOwn /\ PanicsOnDeletion
=============================================================================
