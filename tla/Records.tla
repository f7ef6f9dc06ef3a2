------------------------------- MODULE Records -------------------------------
(***************************************************************************)
(* The rows that responses and snapshots are read from: the tables, what   *)
(* their foreign keys do when a row is deleted, and the counts kept with   *)
(* them, which module Statistics shows to be exact.  Names are numbers,    *)
(* for their order.                                                        *)
(***************************************************************************)
EXTENDS Integers, SequencesExt

CONSTANT None   \* no user

Table(d, t) == {row \in d : row.table = t}
Among(d, t, ids) == {row \in d : row.table = t /\ row.id \in ids}
The(d, t, id) == CHOOSE row \in d : row.table = t /\ row.id = id
Count(d, t, Test(_)) == Cardinality({row \in Table(d, t) : Test(row)})
Total(rows) == MapThenSumSet(LAMBDA row : row.score, rows)

Usages(d, tag)     == Count(d, "post_tag", LAMBDA row : row.tag = tag)
PostCount(d, pool) == Count(d, "pool_post", LAMBDA row : row.pool = pool)
Score(d, comment)  == Total({row \in Table(d, "comment_score") : row.comment = comment})

\* The tables of the names and categories of tags or pools.
NameTable(t)     == IF t = "pool" THEN "pool_name" ELSE "tag_name"
CategoryTable(t) == IF t = "pool" THEN "pool_category" ELSE "tag_category"
PrimaryName(d, tag) ==
    (CHOOSE row \in d : row.table = "tag_name" /\ row.of = tag /\ row.order = 0).name
NamesOf(d, t, id) ==
    LET rows == {row \in Table(d, NameTable(t)) : row.of = id}
    IN  [k \in 1..Cardinality(rows) |->
            (CHOOSE row \in rows : Cardinality({x \in rows : x.order < row.order}) = k - 1).name]

\* What a row refers to, as <<table, id>>: rows that are deleted with it.
Refers(row) ==
    CASE row.table \in {"tag_name", "pool_name"} ->
            {<<IF row.table = "tag_name" THEN "tag" ELSE "pool", row.of>>}
      [] row.table = "post_tag" -> {<<"post", row.post>>, <<"tag", row.tag>>}
      [] row.table \in {"tag_implication", "tag_suggestion"} ->
            {<<"tag", row.parent>>, <<"tag", row.child>>}
      [] row.table = "post_relation" -> {<<"post", row.parent>>, <<"post", row.child>>}
      [] row.table = "pool_post" -> {<<"pool", row.pool>>, <<"post", row.post>>}
      [] row.table \in {"comment", "post_note"} -> {<<"post", row.post>>}
      [] row.table \in {"post_favorite", "post_score"} -> {<<"post", row.post>>, <<"user", row.user>>}
      [] row.table = "comment_score" -> {<<"comment", row.comment>>, <<"user", row.user>>}
      [] OTHER -> {}

\* And the user it is forgotten without.
Owner(row) ==
    IF row.table \in {"post", "comment", "snapshot"} /\ row.user # None THEN {<<"user", row.user>>} ELSE {}

Deleted(d, rows) == {row \in d : Refers(row) \cap {<<x.table, x.id>> : x \in rows} # {}}

\* A row and what refers to it are deleted; owners are forgotten, and tags and pools
\* go to the default category.
Without(d, row) ==
    LET first  == Deleted(d, {row})
        second == Deleted(d, {x \in first : x.table = "comment"})
        orphan(x) ==
            IF <<row.table, row.id>> \in Owner(x)
            THEN [x EXCEPT !.user = None]
            ELSE IF <<row.table, x.table>> \in {<<"tag_category", "tag">>, <<"pool_category", "pool">>}
                    /\ x.category = row.id
            THEN [x EXCEPT !.category = 0] ELSE x
    IN  {orphan(x) : x \in (d \ {row}) \ (first \cup second)}
=============================================================================
