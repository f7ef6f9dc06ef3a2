----------------------------- MODULE MCResponses -----------------------------
(* Resources on a few rows of every table; posts, tags, pools and users are *)
(* created in an order other than that of their names, orders and places.   *)
EXTENDS Integers, Sequences, TLC

CONSTANTS Panic, None, MaxEdits

VARIABLES db, moments, ask, phase, loaded, todo, results, answers

-----------------------------------------------------------------------------
(* Rows.                                                                    *)

Post(p, who)         == [table |-> "post", id |-> p, user |-> who]
Tag(k, c)            == [table |-> "tag", id |-> k, category |-> c]
Pool(k, c, text)     == [table |-> "pool", id |-> k, category |-> c, text |-> text]
User(i, name)        == [table |-> "user", id |-> i, name |-> name]
Comment(c, p, who)   == [table |-> "comment", id |-> c, post |-> p, user |-> who]
Note(k, p)           == [table |-> "post_note", id |-> k, post |-> p]
Snapshot(s, who)     == [table |-> "snapshot", id |-> s, user |-> who]
Category(t, c, place, name) == [table |-> t, id |-> c, order |-> place, name |-> name]
Name(t, k, place, name)     == [table |-> t, of |-> k, order |-> place, name |-> name]
Link(t, above, below)       == [table |-> t, parent |-> above, child |-> below]
Tagged(p, k)         == [table |-> "post_tag", post |-> p, tag |-> k]
Pooled(k, place, p)  == [table |-> "pool_post", pool |-> k, order |-> place, post |-> p]
Favorite(p, who)     == [table |-> "post_favorite", post |-> p, user |-> who]
Rated(p, who, v)     == [table |-> "post_score", post |-> p, user |-> who, score |-> v]
Liked(c, who, v)     == [table |-> "comment_score", comment |-> c, user |-> who, score |-> v]

Related(p, q) == {Link("post_relation", p, q), Link("post_relation", q, p)}

\* Post 3 is hidden from everyone's lists.
MCRows ==
    {User(1, 12), User(2, 11), Post(1, 1), Post(2, None), Post(3, 2),
     Category("tag_category", 0, 2, 31), Category("tag_category", 1, 1, 32), Tag(1, 1), Tag(2, 0),
     Name("tag_name", 1, 0, 22), Name("tag_name", 1, 1, 21), Name("tag_name", 2, 0, 23),
     Tagged(1, 1), Tagged(1, 2), Tagged(2, 2),
     Link("tag_implication", 1, 2), Link("tag_suggestion", 2, 1),
     Category("pool_category", 0, 0, 33), Category("pool_category", 1, 0, 34),
     Pool(1, 1, 41), Pool(2, 0, 42),
     Name("pool_name", 1, 0, 51), Name("pool_name", 2, 0, 53), Name("pool_name", 2, 1, 52),
     Pooled(1, 0, 2), Pooled(1, 1, 1), Pooled(2, 0, 1), Pooled(2, 1, 3),
     Comment(1, 1, 2), Comment(2, 2, None), Comment(3, 1, 1),
     Liked(1, 1, 1), Liked(3, 1, -1), Liked(3, 2, 1),
     Favorite(2, 1), Favorite(1, 2), Favorite(2, 2), Rated(2, 1, 1), Rated(1, 1, -1), Rated(2, 2, 1),
     Note(1, 2), Note(2, 2), Snapshot(1, 2), Snapshot(2, None), Snapshot(3, 1)}
    \cup Related(1, 2) \cup Related(1, 3)

-----------------------------------------------------------------------------
(* What other requests do: marks, renames, moves, lists, merges.            *)

Swap(out, in) == [out |-> out, in |-> in]

MCSwaps ==
    {Swap({}, {Favorite(1, 1)}), Swap({Favorite(2, 1)}, {}),
     Swap({Rated(1, 1, -1)}, {Rated(1, 1, 1)}), Swap({}, {Liked(2, 1, 1)}), Swap({Liked(1, 1, 1)}, {}),
     Swap({Name("tag_name", 1, 0, 22), Name("tag_name", 1, 1, 21)}, {Name("tag_name", 1, 0, 24)}),
     Swap({Tag(1, 1)}, {Tag(1, 0)}), Swap({User(1, 12)}, {User(1, 10)}),
     Swap({Category("tag_category", 1, 1, 32)}, {Category("tag_category", 1, 3, 35)}),
     Swap({}, {Comment(4, 2, 1)}), Swap({}, {Tagged(2, 1)}),
     Swap({Pooled(1, 0, 2), Pooled(1, 1, 1)}, {Pooled(1, 0, 1)}),
     \* Tag 2 is merged into tag 1.
     Swap({Tag(2, 0), Name("tag_name", 2, 0, 23), Tagged(1, 2), Tagged(2, 2),
           Link("tag_implication", 1, 2), Link("tag_suggestion", 2, 1)},
          {Name("tag_name", 1, 2, 23), Tagged(2, 1)})}

MCDoomed ==
    {Post(1, 1), Post(2, None), Tag(2, 0), User(1, 12), User(2, 11), Pool(2, 0, 42), Comment(1, 1, 2),
     Category("tag_category", 1, 1, 32), Category("pool_category", 1, 0, 34), Snapshot(1, 2)}

-----------------------------------------------------------------------------
(* What is asked for: lists, not in the order of the rows.                  *)

FieldsOf ==
    [post     |-> {"user", "tags", "comments", "relations", "pools", "notes", "ownScore",
                   "ownFavorite", "tagCount", "favoriteCount", "favoritedBy"},
     tag      |-> {"category", "names", "implications", "suggestions", "usages"},
     pool     |-> {"category", "names", "posts", "postCount"},
     comment  |-> {"user", "score", "ownScore"},
     user     |-> {"avatarUrl", "likedPostCount", "favoritePostCount"},
     snapshot |-> {"user"}]

Lists ==
    [post |-> <<2, 3, 1>>, tag |-> <<2, 1>>, pool |-> <<2, 1>>, comment |-> <<3, 1, 2>>,
     user |-> <<2, 1>>, snapshot |-> <<3, 2, 1>>]

Asked(kind, ids, masks, reload, full) ==
    [kind : {kind}, ids : {ids}, fields : masks, client : {1}, reload : {reload}, full : full]

\* One field at a time, and two; one row a transaction has just written; own marks of nobody.
MCAsks ==
    UNION {Asked(kind, Lists[kind], {{f} : f \in FieldsOf[kind]}, TRUE,
                 IF kind = "user" THEN BOOLEAN ELSE {FALSE}) : kind \in DOMAIN FieldsOf}
    \cup Asked("comment", Lists.comment, {{"user", "score"}}, TRUE, {FALSE})
    \cup UNION {Asked(kind, <<1>>, {{f} : f \in FieldsOf[kind]}, FALSE, {FALSE}) : kind \in {"post", "tag"}}
    \cup {[x EXCEPT !.client = None] : x \in Asked("post", Lists.post, {{"ownScore"}, {"ownFavorite"}, {"comments"}},
                                                   TRUE, {FALSE})}

Res == INSTANCE Resources WITH
    stage <- phase, rows <- loaded, parts <- results, fields <- answers,
    Rows <- MCRows, Swaps <- MCSwaps, Doomed <- MCDoomed, Asks <- MCAsks, Hidden <- {3}
=============================================================================
