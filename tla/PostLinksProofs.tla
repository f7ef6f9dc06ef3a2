-------------------------- MODULE PostLinksProofs --------------------------
(***************************************************************************)
(* Proofs about what hangs on a post, for any number of requests, posts    *)
(* and pools.  A request changes one table after the other; what it is     *)
(* about to write is known from the committed rows as long as no other     *)
(* commit has touched the table since it read it.                          *)
(***************************************************************************)
EXTENDS PostLinks, FiniteSetTheorems, TLAPS

-----------------------------------------------------------------------------
(* The inductive invariant: shapes, and what requests are at.               *)

Labels == {"idle", "load", "find", "write", "commit"}

Bounds ==
    /\ came \in 0..MaxCalls
    /\ drawn \subseteq PostIds \cup PoolIds \cup Texts
    /\ at \in [Calls -> Labels]
    /\ stale \in [Calls -> SUBSET Tables]
    /\ uneven \subseteq PoolIds

Shapes ==
    /\ DOMAIN put = Calls /\ DOMAIN cut = Calls
    /\ DOMAIN asks = Calls /\ DOMAIN todo = Calls
    /\ DOMAIN adds = Calls /\ DOMAIN drops = Calls

\* The tables a merge of posts goes through.
AllTables == <<"post_relation", "mark", "pool_post", "remark">>
Later     == <<"mark", "pool_post", "remark">>
Last      == <<"pool_post", "remark">>
Remarks   == <<"remark">>

\* Which tables a kind of request is about, and which of them it has yet to change.
Plan(kind) ==
    CASE kind \in {"upload", "relate"} -> {<<"post_relation">>}
      [] kind = "mark" -> {<<"mark">>}
      [] kind = "remark" -> {Remarks}
      [] kind \in {"create pool", "edit pool", "merge pools"} -> {<<"pool_post">>}
      [] kind = "merge posts" -> {AllTables, Later, Last, Remarks}
      [] OTHER -> {}

KindTables(kind) ==
    CASE kind = "upload" -> {"post", "post_relation"}
      [] kind = "relate" -> {"post_relation"}
      [] kind = "mark" -> {"mark"}
      [] kind = "remark" -> {"remark"}
      [] kind = "create pool" -> {"pool", "pool_post"}
      [] kind \in {"edit pool", "merge pools"} -> {"pool_post"}
      [] kind = "merge posts" -> Tables
      [] OTHER -> {}

AskOK(r) ==
    /\ at[r] = "idle" <=> asks[r].kind = "none"
    /\ asks[r].kind = "delete" => at[r] = "commit"
    /\ at[r] \in {"idle", "commit"} => todo[r] = <<>>
    /\ at[r] \in {"load", "find", "write"} => todo[r] \in Plan(asks[r].kind)
    /\ at[r] = "load" =>
          /\ asks[r].kind \in {"relate", "edit pool", "merge pools", "merge posts"}
          /\ todo[r] # Remarks
    /\ at[r] = "find" =>
          /\ asks[r].kind \in {"relate", "edit pool", "mark", "merge posts"}
          /\ asks[r].kind = "merge posts" => todo[r] \in {AllTables, Remarks}
    /\ asks[r].kind = "relate" =>
          asks[r].post \in PostIds \ asks[r].hidden /\ asks[r].asked \subseteq PostIds
    /\ asks[r].kind = "mark" => asks[r].post \in PostIds /\ asks[r].by \in Owners
    /\ asks[r].kind = "edit pool" =>
          asks[r].pool \in PoolIds /\ \E S \in SUBSET PostIds : asks[r].list \in Lists(S)
    /\ asks[r].kind = "merge pools" =>
          /\ asks[r].absorbed \in PoolIds /\ asks[r].to \in PoolIds
          /\ asks[r].absorbed # asks[r].to
    /\ asks[r].kind = "merge posts" =>
          /\ asks[r].absorbed \in PostIds /\ asks[r].to \in PostIds
          /\ asks[r].absorbed # asks[r].to
    /\ asks[r].kind = "delete" => asks[r].gone.table \in {"post", "pool", "mark", "remark"}

-----------------------------------------------------------------------------
(* Rows: what the schema's constraints make of them.                        *)

\* What a request has written, and is about to write, is of its tables.
Placed(r) ==
    /\ put[r] \cup cut[r] \cup adds[r] \cup drops[r] \subseteq LinkRow
    /\ \A row \in put[r] \cup cut[r] :
          /\ at[r] = "commit" \/ asks[r].kind = "merge posts"
          /\ row.table \in KindTables(asks[r].kind) \ Contents(todo[r])
    /\ \A row \in adds[r] :
          /\ at[r] \in {"find", "write"}
          /\ row.table = Head(todo[r])
                \/ row.table \in KindTables(asks[r].kind) \cap {"post", "pool"}
    /\ \A row \in drops[r] :
          /\ at[r] = "write" /\ row.table = Head(todo[r])
          /\ asks[r].kind \in {"relate", "edit pool", "mark", "merge posts"}
          /\ asks[r].kind = "merge posts" => todo[r] \in {AllTables, Remarks}
    /\ \A row \in cut[r] : row.table \in Tables

\* Keys are unique among the rows a transaction sees, and among those it is about to insert.
KeysOK(r) ==
    /\ \A row \in put[r], other \in links \ cut[r] : ~SameLink(row, other)
    /\ \A row, other \in put[r] : SameLink(row, other) => row = other
    /\ \A row, other \in adds[r] : SameLink(row, other) => row = other

\* So are the rows it refers to.
ParentsOK(r) == \A row \in put[r] : LinkParents(row) \subseteq LinkDB!View(r)

\* Nobody touches the key of a row another has inserted.
Apart ==
    \A r, s \in Calls : r # s =>
        \A row \in put[r], other \in put[s] \cup cut[s] : ~SameLink(row, other)

SymmetricOK(r) ==
    Symmetric(put[r]) /\ Symmetric(cut[r]) /\ Symmetric(adds[r]) /\ Symmetric(drops[r])

RowsOK(r) == Placed(r) /\ KeysOK(r) /\ ParentsOK(r) /\ SymmetricOK(r)

-----------------------------------------------------------------------------
(* Contents: what requests write, if nobody changed what they read.         *)

RelateOK(r) ==
    asks[r].kind = "relate" /\ "post_relation" \notin stale[r] =>
        LET p   == asks[r].post
            new == Pairs(p, asks[r].asked \cup (RelatedTo(links, p) \cap asks[r].hidden))
        IN  /\ at[r] \in {"find", "write"} => adds[r] = new
            /\ at[r] = "write" => drops[r] = Touching(links, {p})
            /\ at[r] = "commit" => put[r] = new /\ cut[r] = Touching(links, {p})

\* The posts of an edited pool.
Edited(r) == Contents(asks[r].list) \cup (PostsOf(links, asks[r].pool) \cap asks[r].hidden)

EditOK(r) ==
    asks[r].kind = "edit pool" =>
        LET k == asks[r].pool IN
        /\ at[r] \in {"find", "write"} =>
              \E S \in SUBSET PostIds : \E list \in Lists(S) :
                  /\ adds[r] = AddedPosts(k, 0, list)
                  /\ "pool_post" \notin stale[r] => S = Edited(r)
        /\ at[r] = "write" /\ "pool_post" \notin stale[r] => drops[r] = Members(links, k)
        /\ at[r] = "commit" /\ "pool_post" \notin stale[r] =>
              /\ cut[r] = Members(links, k)
              /\ \E list \in Lists(Edited(r)) : put[r] = AddedPosts(k, 0, list)

CreateOK(r) ==
    asks[r].kind = "create pool" =>
        \E k \in PoolIds, S \in SUBSET PostIds : \E list \in Lists(S) :
            /\ at[r] = "write" => adds[r] = {PoolRow(k)} \cup AddedPosts(k, 0, list)
            /\ at[r] = "commit" => cut[r] = {} /\ put[r] = {PoolRow(k)} \cup AddedPosts(k, 0, list)

\* The posts a merged pool is to get, and the ways to list them.
NewPosts(r) == PostsOf(links, asks[r].absorbed) \ PostsOf(links, asks[r].to)

MergePoolsOK(r) ==
    asks[r].kind = "merge pools" =>
        LET k == asks[r].to IN
        /\ at[r] = "write" =>
              \E S \in SUBSET PostIds : \E list \in Lists(S) :
                  /\ adds[r] = AddedPosts(k, 0, list)
                  /\ "pool_post" \notin stale[r] =>
                        S = NewPosts(r) /\ list \in Listed(links, asks[r].absorbed, S)
        /\ at[r] = "commit" /\ "pool_post" \notin stale[r] =>
              /\ cut[r] = {}
              /\ \E list \in Listed(links, asks[r].absorbed, NewPosts(r)) :
                    put[r] = AddedPosts(k, Cardinality(Members(links, k)), list)

\* Of each table, in the order in which a merge of posts changes them.
Merged(r, table) == MergedRows(links, asks[r].absorbed, asks[r].to, table)

OldRemarks(r) == {row \in Of(links, "remark") : row.post = asks[r].absorbed}

MergeRelations(r) ==
    "post_relation" \notin stale[r] =>
        /\ at[r] \in {"find", "write"} /\ todo[r] = AllTables => adds[r] = Merged(r, "post_relation")
        /\ at[r] = "write" /\ todo[r] = AllTables => drops[r] = Touching(links, {asks[r].to})
        /\ todo[r] # AllTables =>
              /\ Of(put[r], "post_relation") = Merged(r, "post_relation")
              /\ Of(cut[r], "post_relation") = Touching(links, {asks[r].to})

MergeMarks(r) ==
    "mark" \notin stale[r] =>
        /\ at[r] = "write" /\ todo[r] = Later => adds[r] = Merged(r, "mark")
        /\ todo[r] \in {Last, Remarks, <<>>} =>
              Of(put[r], "mark") = Merged(r, "mark") /\ Of(cut[r], "mark") = {}

MergePlaces(r) ==
    "pool_post" \notin stale[r] =>
        /\ at[r] = "write" /\ todo[r] = Last => adds[r] = Merged(r, "pool_post")
        /\ todo[r] \in {Remarks, <<>>} =>
              Of(put[r], "pool_post") = Merged(r, "pool_post") /\ Of(cut[r], "pool_post") = {}

MergeRemarks(r) ==
    "remark" \notin stale[r] =>
        /\ at[r] = "write" /\ todo[r] = Remarks => drops[r] = OldRemarks(r)
        /\ todo[r] = <<>> =>
              /\ Of(put[r], "remark") = {Remark(asks[r].to, row.text) : row \in OldRemarks(r)}
              /\ Of(cut[r], "remark") = OldRemarks(r)

MergePostsOK(r) ==
    asks[r].kind = "merge posts" =>
        MergeRelations(r) /\ MergeMarks(r) /\ MergePlaces(r) /\ MergeRemarks(r)

ContentsOK(r) == RelateOK(r) /\ EditOK(r) /\ CreateOK(r) /\ MergePoolsOK(r) /\ MergePostsOK(r)

ReqOK(r) == AskOK(r) /\ RowsOK(r) /\ ContentsOK(r)

Inv == Bounds /\ Shapes /\ Sound(links) /\ RowsRegular /\ Apart /\ \A r \in Calls : ReqOK(r)

-----------------------------------------------------------------------------
(* Rows.                                                                    *)

LEMMA Rows ==
    ASSUME NEW x, NEW y, NEW o
    PROVE  /\ PostRow(x).table = "post" /\ PostRow(x).post = x
           /\ PoolRow(x).table = "pool" /\ PoolRow(x).pool = x
           /\ Related(x, y).table = "post_relation"
           /\ Related(x, y).parent = x /\ Related(x, y).child = y
           /\ Member(x, y, o).table = "pool_post"
           /\ Member(x, y, o).pool = x /\ Member(x, y, o).post = y /\ Member(x, y, o).order = o
           /\ Mark(x, y).table = "mark" /\ Mark(x, y).post = x /\ Mark(x, y).by = y
           /\ Remark(x, y).table = "remark" /\ Remark(x, y).post = x /\ Remark(x, y).text = y
BY DEF PostRow, PoolRow, Related, Member, Mark, Remark

\* What a row is, by its table.
LEMMA RowShapes ==
    ASSUME NEW row \in LinkRow
    PROVE  /\ row.table \in Tables \cup {"post", "pool"}
           /\ row.table = "post" => row = PostRow(row.post) /\ row.post \in PostIds
           /\ row.table = "pool" => row = PoolRow(row.pool) /\ row.pool \in PoolIds
           /\ row.table = "post_relation" =>
                 /\ row = Related(row.parent, row.child)
                 /\ row.parent \in PostIds /\ row.child \in PostIds
           /\ row.table = "pool_post" =>
                 /\ row = Member(row.pool, row.post, row.order)
                 /\ row.pool \in PoolIds /\ row.post \in PostIds /\ row.order \in Nat
           /\ row.table = "mark" =>
                 row = Mark(row.post, row.by) /\ row.post \in PostIds /\ row.by \in Owners
           /\ row.table = "remark" =>
                 row = Remark(row.post, row.text) /\ row.post \in PostIds /\ row.text \in Texts
<1>1. CASE row \in [table : {"post"}, post : PostIds]
  BY <1>1 DEF PostRow
<1>2. CASE row \in [table : {"pool"}, pool : PoolIds]
  BY <1>2 DEF PoolRow
<1>3. CASE row \in [table : {"post_relation"}, parent : PostIds, child : PostIds]
  BY <1>3 DEF Tables, Related
<1>4. CASE row \in [table : {"pool_post"}, pool : PoolIds, post : PostIds, order : Nat]
  BY <1>4 DEF Tables, Member
<1>5. CASE row \in [table : {"mark"}, post : PostIds, by : Owners]
  BY <1>5 DEF Tables, Mark
<1>6. CASE row \in [table : {"remark"}, post : PostIds, text : Texts]
  BY <1>6 DEF Tables, Remark
<1> QED
  BY <1>1, <1>2, <1>3, <1>4, <1>5, <1>6 DEF LinkRow

LEMMA RowTypes ==
    /\ \A p \in PostIds : PostRow(p) \in LinkRow
    /\ \A k \in PoolIds : PoolRow(k) \in LinkRow
    /\ \A p, c \in PostIds : Related(p, c) \in LinkRow
    /\ \A k \in PoolIds, p \in PostIds, o \in Nat : Member(k, p, o) \in LinkRow
    /\ \A p \in PostIds, by \in Owners : Mark(p, by) \in LinkRow
    /\ \A p \in PostIds, text \in Texts : Remark(p, text) \in LinkRow
BY DEF LinkRow, PostRow, PoolRow, Related, Member, Mark, Remark

\* Posts and pools refer to nothing, and nothing refers to other rows.
LEMMA ParentRows ==
    ASSUME NEW row
    PROVE  /\ \A parent \in LinkParents(row) : parent.table \in {"post", "pool"}
           /\ row.table \in {"post", "pool"} => LinkParents(row) = {}
           /\ row.table = "post_relation" =>
                 LinkParents(row) = {PostRow(row.parent), PostRow(row.child)}
           /\ row.table = "pool_post" => LinkParents(row) = {PoolRow(row.pool), PostRow(row.post)}
           /\ row.table \in {"mark", "remark"} => LinkParents(row) = {PostRow(row.post)}
BY Rows DEF LinkParents

LEMMA ParentsTell ==
    ASSUME NEW x, NEW y
    PROVE  /\ PostRow(x) = PostRow(y) => x = y
           /\ PoolRow(x) = PoolRow(y) => x = y
           /\ PostRow(x) # PoolRow(y)
BY DEF PostRow, PoolRow

\* Only rows of pool_post have keys smaller than themselves.
LEMMA Keys ==
    ASSUME NEW row, NEW other
    PROVE  /\ row.table # "pool_post" => (SameLink(row, other) <=> row = other)
           /\ SameLink(row, other) <=> SameLink(other, row)
           /\ SameLink(row, row)
           /\ SameLink(row, other) => row.table = other.table
BY DEF SameLink

-----------------------------------------------------------------------------
(* Requests no step is about.                                               *)

\* Nothing of request q and no committed row changes.
Same(q) ==
    /\ links' = links
    /\ at'[q] = at[q] /\ asks'[q] = asks[q] /\ todo'[q] = todo[q]
    /\ adds'[q] = adds[q] /\ drops'[q] = drops[q]
    /\ put'[q] = put[q] /\ cut'[q] = cut[q]
    /\ stale'[q] = stale[q]

LEMMA Untouched ==
    ASSUME NEW q \in Calls, ReqOK(q), Same(q)
    PROVE  ReqOK(q)'
<1>1. AskOK(q)'
  BY DEF ReqOK, AskOK, Same
<1>2. Placed(q)'
  BY DEF ReqOK, RowsOK, Placed, Same
<1>3. KeysOK(q)' /\ ParentsOK(q)' /\ SymmetricOK(q)'
  BY DEF ReqOK, RowsOK, KeysOK, ParentsOK, LinkDB!View, SymmetricOK, Same
<1>4. RelateOK(q)'
  BY DEF ReqOK, ContentsOK, RelateOK, Same
<1>5. EditOK(q)'
  BY DEF ReqOK, ContentsOK, EditOK, Edited, Same
<1>6. CreateOK(q)'
  BY DEF ReqOK, ContentsOK, CreateOK, Same
<1>7. MergePoolsOK(q)'
  BY DEF ReqOK, ContentsOK, MergePoolsOK, NewPosts, Same
<1>8. MergeRelations(q)' <=> MergeRelations(q)
  BY DEF MergeRelations, Merged, Same
<1>9. MergeMarks(q)' <=> MergeMarks(q)
  BY DEF MergeMarks, Merged, Same
<1>10. MergePlaces(q)' <=> MergePlaces(q)
  BY DEF MergePlaces, Merged, Same
<1>11. MergeRemarks(q)' <=> MergeRemarks(q)
  BY DEF MergeRemarks, OldRemarks, Same
<1>12. MergePostsOK(q)'
  BY <1>8, <1>9, <1>10, <1>11 DEF ReqOK, ContentsOK, MergePostsOK, Same
<1> QED
  BY <1>1, <1>2, <1>3, <1>4, <1>5, <1>6, <1>7, <1>12 DEF ReqOK, RowsOK, ContentsOK

-----------------------------------------------------------------------------
(* The lists of tables.                                                     *)

LEMMA ListsOfTables ==
    /\ Head(AllTables) = "post_relation" /\ Tail(AllTables) = Later
    /\ Head(Later) = "mark" /\ Tail(Later) = Last
    /\ Head(Last) = "pool_post" /\ Tail(Last) = Remarks
    /\ \A table : Head(<<table>>) = table /\ Tail(<<table>>) = <<>>
BY DEF AllTables, Later, Last, Remarks

LEMMA ListContents ==
    /\ Contents(<<>>) = {}
    /\ \A table : Contents(<<table>>) = {table}
    /\ Contents(Remarks) = {"remark"}
    /\ Contents(Last) = {"pool_post", "remark"}
    /\ Contents(Later) = {"mark", "pool_post", "remark"}
    /\ Contents(AllTables) = Tables
<1>1. Contents(<<>>) = {} /\ \A table : Contents(<<table>>) = {table}
  BY DEF Contents
<1>2. Contents(Remarks) = {"remark"}
  BY DEF Contents, Remarks
<1>3. Contents(Last) = {"pool_post", "remark"}
  <2>1. DOMAIN Last = {1, 2} /\ Last[1] = "pool_post" /\ Last[2] = "remark"
    BY DEF Last
  <2> QED
    BY <2>1 DEF Contents
<1>4. Contents(Later) = {"mark", "pool_post", "remark"}
  <2>1. DOMAIN Later = {1, 2, 3}
           /\ Later[1] = "mark" /\ Later[2] = "pool_post" /\ Later[3] = "remark"
    BY DEF Later
  <2> QED
    BY <2>1 DEF Contents
<1>5. Contents(AllTables) = Tables
  <2>1. /\ DOMAIN AllTables = {1, 2, 3, 4}
        /\ AllTables[1] = "post_relation" /\ AllTables[2] = "mark"
        /\ AllTables[3] = "pool_post" /\ AllTables[4] = "remark"
    BY DEF AllTables
  <2> QED
    BY <2>1 DEF Contents, Tables
<1> QED
  BY <1>1, <1>2, <1>3, <1>4, <1>5

LEMMA ListsDiffer ==
    /\ AllTables \notin {Later, Last, Remarks, <<>>}
    /\ Later \notin {Last, Remarks, <<>>} /\ Last \notin {Remarks, <<>>} /\ Remarks # <<>>
    /\ \A table \in Tables : <<table>> \notin {AllTables, Later, Last, <<>>}
    /\ \A table \in Tables : <<table>> = Remarks <=> table = "remark"
<1>1. Len(AllTables) = 4 /\ Len(Later) = 3 /\ Len(Last) = 2 /\ Len(Remarks) = 1 /\ Len(<<>>) = 0
  BY DEF AllTables, Later, Last, Remarks
<1>2. \A table : Len(<<table>>) = 1 /\ Head(<<table>>) = table
  OBVIOUS
<1>3. Remarks = <<"remark">>
  BY DEF Remarks
<1>4. AllTables \notin {Later, Last, Remarks, <<>>}
  BY <1>1
<1>5. Later \notin {Last, Remarks, <<>>} /\ Last \notin {Remarks, <<>>} /\ Remarks # <<>>
  BY <1>1
<1>6. \A table \in Tables : <<table>> \notin {AllTables, Later, Last, <<>>}
  BY <1>1, <1>2
<1>7. \A table \in Tables : <<table>> = Remarks <=> table = "remark"
  BY <1>2, <1>3
<1> QED
  BY <1>4, <1>5, <1>6, <1>7

\* What a merge of posts has yet to change, by the table it is at.
LEMMA MergeAt ==
    ASSUME NEW tables \in Plan("merge posts")
    PROVE  /\ tables \in {AllTables, Later, Last, Remarks} /\ Head(tables) \in Tables
           /\ Head(tables) = "post_relation" <=> tables = AllTables
           /\ Head(tables) = "mark" <=> tables = Later
           /\ Head(tables) = "pool_post" <=> tables = Last
           /\ Head(tables) = "remark" <=> tables = Remarks
           /\ Contents(Tail(tables)) = Contents(tables) \ {Head(tables)}
           /\ Head(tables) \in Contents(tables)
<1>1. tables \in {AllTables, Later, Last, Remarks}
  BY DEF Plan
<1>2. Head(Remarks) = "remark" /\ Tail(Remarks) = <<>>
  BY ListsOfTables DEF Remarks
<1> QED
  BY <1>1, <1>2, ListsOfTables, ListContents, ListsDiffer DEF Tables

\* What any request has yet to change.
LEMMA PlanAt ==
    ASSUME NEW kind, NEW tables \in Plan(kind)
    PROVE  /\ Head(tables) \in Contents(tables) /\ Contents(tables) \subseteq Tables
           /\ Contents(Tail(tables)) = Contents(tables) \ {Head(tables)}
           /\ Head(tables) \in KindTables(kind)
           /\ kind # "merge posts" =>
                 /\ Tail(tables) = <<>> /\ Contents(tables) = {Head(tables)}
                 /\ tables \notin {AllTables, Later, Last}
           /\ kind \in {"upload", "relate"} => Head(tables) = "post_relation"
           /\ kind = "mark" => Head(tables) = "mark"
           /\ kind = "remark" => Head(tables) = "remark"
           /\ kind \in {"create pool", "edit pool", "merge pools"} => Head(tables) = "pool_post"
           /\ kind = "none" => FALSE
           /\ kind = "delete" => FALSE
<1>1. CASE kind = "merge posts"
  BY <1>1, MergeAt, ListContents, ListsOfTables DEF KindTables, Plan, Tables
<1>2. CASE kind # "merge posts"
  <2>1. PICK table \in Tables : tables = <<table>>
    BY <1>2 DEF Plan, Tables, Remarks
  <2>2. Head(tables) = table /\ Tail(tables) = <<>> /\ Contents(tables) = {table}
    BY <2>1, ListsOfTables, ListContents
  <2>3. tables \notin {AllTables, Later, Last}
    BY <2>1, ListsDiffer
  <2>4. /\ kind \in {"upload", "relate"} => table = "post_relation"
        /\ kind = "mark" => table = "mark"
        /\ kind = "remark" => table = "remark"
        /\ kind \in {"create pool", "edit pool", "merge pools"} => table = "pool_post"
        /\ kind \in {"upload", "relate", "mark", "remark", "create pool", "edit pool", "merge pools"}
    BY <1>2, <2>1, <2>2, ListsOfTables DEF Plan, Remarks
  <2>5. Head(tables) \in KindTables(kind)
    BY <2>2, <2>4 DEF KindTables
  <2> QED
    BY <1>2, <2>1, <2>2, <2>3, <2>4, <2>5, ListContents
<1> QED
  BY <1>1, <1>2

-----------------------------------------------------------------------------
(* Requests begin.                                                          *)

\* A request that is not under way holds no rows.
LEMMA IdleHolds ==
    ASSUME NEW r \in Calls, ReqOK(r), at[r] = "idle"
    PROVE  put[r] = {} /\ cut[r] = {} /\ adds[r] = {} /\ drops[r] = {}
BY DEF ReqOK, AskOK, RowsOK, Placed

Fresh(kind, label, tables, new) ==
    /\ new \subseteq LinkRow
    /\ \A row \in new :
          /\ label \in {"find", "write"}
          /\ row.table = Head(tables) \/ row.table \in KindTables(kind) \cap {"post", "pool"}
    /\ \A row, other \in new : SameLink(row, other) => row = other
    /\ Symmetric(new)

Begun(r, label, asked, tables, new) ==
    /\ at'[r] = label /\ asks'[r] = asked /\ todo'[r] = tables /\ adds'[r] = new
    /\ put'[r] = {} /\ cut'[r] = {} /\ drops'[r] = {}

LEMMA Asked ==
    ASSUME Inv, NEW r \in Calls, NEW label \in Labels, NEW asked, NEW tables, NEW new,
           Ask(r, label, asked, tables, new), Fresh(asked.kind, label, tables, new)
    PROVE  /\ Begun(r, label, asked, tables, new) /\ RowsOK(r)'
           /\ \A q \in Calls \ {r} : Same(q)
           /\ Shapes' /\ came' \in 0..MaxCalls /\ at' \in [Calls -> Labels]
           /\ UNCHANGED <<links, put, cut, stale, uneven>>
<1>1. put[r] = {} /\ cut[r] = {} /\ adds[r] = {} /\ drops[r] = {}
  BY IdleHolds DEF Ask, Inv
<1>2. Begun(r, label, asked, tables, new) /\ \A q \in Calls \ {r} : Same(q)
  BY <1>1 DEF Ask, Begun, Same, Inv, Bounds, Shapes, MoveTo, linkRows
<1>3. Shapes' /\ came' \in 0..MaxCalls /\ at' \in [Calls -> Labels]
  BY LinksAssumption DEF Ask, Inv, Bounds, Shapes, MoveTo, linkRows
<1>4. Placed(r)'
  BY <1>2 DEF Placed, Begun, Fresh
<1>5. KeysOK(r)' /\ ParentsOK(r)'
  BY <1>2 DEF KeysOK, ParentsOK, Begun, Fresh
<1>6. SymmetricOK(r)'
  <2>1. Symmetric({})
    BY DEF Symmetric
  <2> QED
    BY <1>2, <2>1 DEF SymmetricOK, Symmetric, Begun, Fresh
<1> QED
  BY <1>2, <1>3, <1>4, <1>5, <1>6 DEF RowsOK, Ask, linkRows

\* Where nothing is inserted at first, and nothing is known of contents yet.
LEMMA NothingFresh ==
    ASSUME NEW kind, NEW label, NEW tables
    PROVE  Fresh(kind, label, tables, {})
BY DEF Fresh, Symmetric

\* A request that goes on with what it asks for, and leaves the others alone.
LEMMA OneChanged ==
    ASSUME Inv, NEW r \in Calls, ReqOK(r)', \A q \in Calls \ {r} : Same(q),
           Bounds', Shapes', Apart', UNCHANGED <<links, uneven>>
    PROVE  Inv'
<1>1. \A q \in Calls \ {r} : ReqOK(q)'
  BY Untouched DEF Inv
<1>2. Sound(links)' /\ RowsRegular'
  BY DEF Inv, RowsRegular, Sound
<1> QED
  BY <1>1, <1>2 DEF Inv

-----------------------------------------------------------------------------
(* Lists of posts.                                                          *)

LEMMA FinitePosts ==
    ASSUME NEW S \in SUBSET PostIds
    PROVE  IsFiniteSet(S) /\ Cardinality(S) \in Nat
BY FS_Subset, FS_CardinalityType, LinksAssumption

LEMMA ListFacts ==
    ASSUME NEW S \in SUBSET PostIds, NEW list \in Lists(S)
    PROVE  /\ DOMAIN list = 1..Cardinality(S) /\ list \in Seq(S) /\ Len(list) = Cardinality(S)
           /\ \A i \in DOMAIN list : list[i] \in S
           /\ \A i, j \in DOMAIN list : list[i] = list[j] => i = j
           /\ Contents(list) = S
<1> DEFINE n == Cardinality(S)
<1>1. IsFiniteSet(S) /\ n \in Nat
  BY FinitePosts
<1>2. /\ list \in [1..n -> S] /\ DOMAIN list = 1..n
      /\ \A i, j \in DOMAIN list : list[i] = list[j] => i = j
  BY DEF Lists
<1>3. list \in Seq(S) /\ Len(list) = n
  BY <1>1, <1>2
<1>4. list \in Injection(1..n, S)
  BY <1>2 DEF Injection, IsInjective
<1>5. IsFiniteSet(1..n) /\ Cardinality(1..n) = n
  BY <1>1, FS_Interval
<1>6. list \in Surjection(1..n, S)
  BY <1>1, <1>4, <1>5, FS_Injection
<1>7. Contents(list) = S
  BY <1>2, <1>6 DEF Surjection, Contents
<1> QED
  BY <1>2, <1>3, <1>7

LEMMA AddedFacts ==
    ASSUME NEW k \in PoolIds, NEW n \in Nat, NEW S \in SUBSET PostIds, NEW list \in Lists(S)
    PROVE  /\ AddedPosts(k, n, list) \subseteq LinkRow
           /\ \A row \in AddedPosts(k, n, list) :
                 row.table = "pool_post" /\ row.pool = k /\ row.post \in S
           /\ \A row, other \in AddedPosts(k, n, list) : SameLink(row, other) => row = other
           /\ Symmetric(AddedPosts(k, n, list))
           /\ {row.post : row \in AddedPosts(k, n, list)} = S
<1> DEFINE D == AddedPosts(k, n, list)
<1>1. Cardinality(S) \in Nat
  BY FinitePosts
<1>2. /\ DOMAIN list = 1..Cardinality(S) /\ \A i \in DOMAIN list : list[i] \in S
      /\ \A i, j \in DOMAIN list : list[i] = list[j] => i = j
      /\ Contents(list) = S
  BY ListFacts
<1>3. \A i \in DOMAIN list : n + i - 1 \in Nat
  BY <1>1, <1>2
<1>4. \A row \in D : \E i \in DOMAIN list : row = Member(k, list[i], n + i - 1)
  BY DEF AddedPosts
<1>5. \A i \in DOMAIN list : Member(k, list[i], n + i - 1) \in D
  BY DEF AddedPosts
<1>6. D \subseteq LinkRow
  BY <1>2, <1>3, <1>4, RowTypes
<1>7. \A row \in D : row.table = "pool_post" /\ row.pool = k /\ row.post \in S
  BY <1>2, <1>4, Rows
<1>8. ASSUME NEW row \in D, NEW other \in D, SameLink(row, other)
      PROVE  row = other
  <2>1. PICK i \in DOMAIN list : row = Member(k, list[i], n + i - 1)
    BY <1>4
  <2>2. PICK j \in DOMAIN list : other = Member(k, list[j], n + j - 1)
    BY <1>4
  <2>3. list[i] = list[j]
    BY <1>8, <2>1, <2>2, Rows DEF SameLink
  <2> QED
    BY <1>2, <2>1, <2>2, <2>3
<1>9. Symmetric(D)
  BY <1>7, Rows DEF Symmetric
<1>10. ASSUME NEW p \in S
       PROVE  p \in {row.post : row \in D}
  <2>1. PICK i \in DOMAIN list : list[i] = p
    BY <1>2 DEF Contents
  <2> QED
    BY <1>5, <2>1, Rows
<1> QED
  BY <1>6, <1>7, <1>8, <1>9, <1>10

LEMMA AddedNumbers ==
    ASSUME NEW k \in PoolIds, NEW n \in Nat, NEW S \in SUBSET PostIds, NEW list \in Lists(S)
    PROVE  /\ IsFiniteSet(AddedPosts(k, n, list))
           /\ Cardinality(AddedPosts(k, n, list)) = Cardinality(S)
           /\ {row.order : row \in AddedPosts(k, n, list)} = n..n + Cardinality(S) - 1
<1> DEFINE D == AddedPosts(k, n, list)
           m == Cardinality(S)
           f == [i \in 1..m |-> Member(k, list[i], n + i - 1)]
<1>1. IsFiniteSet(S) /\ m \in Nat
  BY FinitePosts
<1>2. DOMAIN list = 1..m /\ \A i, j \in DOMAIN list : list[i] = list[j] => i = j
  BY ListFacts
<1>3. D = {Member(k, list[i], n + i - 1) : i \in 1..m}
  BY <1>2 DEF AddedPosts
<1>4. f \in Injection(1..m, D)
  <2>1. f \in [1..m -> D]
    BY <1>3
  <2>2. \A i, j \in 1..m : f[i] = f[j] => i = j
    BY <1>2, Rows
  <2> QED
    BY <2>1, <2>2 DEF Injection, IsInjective
<1>5. f \in Surjection(1..m, D)
  BY <1>3 DEF Surjection
<1>6. ExistsBijection(1..m, D)
  BY <1>4, <1>5 DEF ExistsBijection, Bijection
<1>7. IsFiniteSet(1..m) /\ Cardinality(1..m) = m
  BY <1>1, FS_Interval
<1>8. IsFiniteSet(D) /\ Cardinality(D) = m
  BY <1>6, <1>7, FS_Bijection
<1>9. {row.order : row \in D} = n..n + m - 1
  <2>1. ASSUME NEW row \in D PROVE row.order \in n..n + m - 1
    <3>1. PICK i \in 1..m : row = Member(k, list[i], n + i - 1)
      BY <1>3
    <3> QED
      BY <1>1, <3>1, Rows
  <2>2. ASSUME NEW o \in n..n + m - 1 PROVE o \in {row.order : row \in D}
    <3>1. o - n + 1 \in 1..m /\ o = n + (o - n + 1) - 1
      BY <1>1
    <3>2. Member(k, list[o - n + 1], n + (o - n + 1) - 1) \in D
      BY <1>3, <3>1
    <3> QED
      BY <3>1, <3>2, Rows
  <2> QED
    BY <2>1, <2>2
<1> QED
  BY <1>8, <1>9

-----------------------------------------------------------------------------
(* The requests, one by one.                                                *)

LEMMA AskedWell ==
    ASSUME Inv, NEW r \in Calls, NEW label \in Labels, NEW asked, NEW tables, NEW new,
           Ask(r, label, asked, tables, new), Fresh(asked.kind, label, tables, new),
           drawn' \subseteq PostIds \cup PoolIds \cup Texts,
           Begun(r, label, asked, tables, new) => AskOK(r)' /\ ContentsOK(r)'
    PROVE  Inv'
<1>1. /\ Begun(r, label, asked, tables, new) /\ RowsOK(r)'
      /\ \A q \in Calls \ {r} : Same(q)
      /\ Shapes' /\ came' \in 0..MaxCalls /\ at' \in [Calls -> Labels]
      /\ UNCHANGED <<links, put, cut, stale, uneven>>
  BY Asked
<1>2. Bounds' /\ Apart'
  BY <1>1 DEF Bounds, Apart, Inv
<1>3. ReqOK(r)'
  BY <1>1 DEF ReqOK
<1> QED
  BY <1>1, <1>2, <1>3, OneChanged

\* Of most kinds nothing is known of contents as they begin.
LEMMA NoContents ==
    ASSUME NEW r, asks'[r].kind \notin {"create pool", "merge posts"},
           asks'[r].kind \in {"relate", "edit pool", "merge pools"} => at'[r] = "load"
    PROVE  ContentsOK(r)'
BY DEF ContentsOK, RelateOK, EditOK, CreateOK, MergePoolsOK, MergePostsOK

LEMMA NewRelations ==
    ASSUME NEW p \in PostIds, NEW S \in SUBSET PostIds
    PROVE  /\ Pairs(p, S) \subseteq LinkRow
           /\ \A row \in Pairs(p, S) : row.table = "post_relation"
           /\ Symmetric(Pairs(p, S)) /\ Symmetric({PostRow(p)} \cup Pairs(p, S))
           /\ \A c \in PostIds : Related(p, c) \in Pairs(p, S) <=> c \in S \ {p}
<1>1. Pairs(p, S) \subseteq LinkRow /\ \A row \in Pairs(p, S) : row.table = "post_relation"
  <2>1. ASSUME NEW row \in Pairs(p, S) PROVE row \in LinkRow /\ row.table = "post_relation"
    <3>1. PICK a \in PostIds, c \in PostIds : row = Related(a, c)
      BY DEF Pairs
    <3>2. row \in LinkRow
      BY <3>1, RowTypes
    <3>3. row.table = "post_relation"
      BY <3>1, Rows
    <3> QED
      BY <3>2, <3>3
  <2> QED
    BY <2>1
<1>2. \A a, c \in PostIds : Related(a, c) \in Pairs(p, S) <=>
          (a = p /\ c \in S \ {p}) \/ (c = p /\ a \in S \ {p})
  BY Rows DEF Pairs
<1>3. Symmetric(Pairs(p, S))
  BY <1>2 DEF Symmetric
<1>4. \A a, c \in PostIds : Related(a, c) # PostRow(p)
  BY Rows
<1> QED
  BY <1>1, <1>2, <1>3, <1>4 DEF Symmetric

LEMMA UploadStep ==
    ASSUME Inv, NEW r \in Calls, NEW p \in PostIds, NEW S \in PostSets, Upload(r, p, S)
    PROVE  Inv'
<1> DEFINE new == {PostRow(p)} \cup Pairs(p, S)
           asked == [kind |-> "upload"]
<1>1. asked.kind = "upload"
  OBVIOUS
<1>2. Ask(r, "write", asked, <<"post_relation">>, new)
         /\ drawn' \subseteq PostIds \cup PoolIds \cup Texts
  BY DEF Upload, Draw, Inv, Bounds
<1> HIDE DEF asked
<1>3. S \subseteq PostIds
  BY LinksAssumption
<1>4. new \subseteq LinkRow /\ \A row \in new : row.table \in {"post", "post_relation"}
  <2>1. PostRow(p) \in LinkRow /\ PostRow(p).table = "post"
    BY RowTypes, Rows
  <2> QED
    BY <1>3, <2>1, NewRelations
<1>5. \A row, other \in new : SameLink(row, other) => row = other
  BY <1>4, Keys
<1>6. Symmetric(new)
  BY <1>3, NewRelations
<1>7. Fresh("upload", "write", <<"post_relation">>, new)
  BY <1>4, <1>5, <1>6, ListsOfTables DEF Fresh, KindTables
<1>8. ASSUME Begun(r, "write", asked, <<"post_relation">>, new) PROVE AskOK(r)' /\ ContentsOK(r)'
  BY <1>1, <1>8, NoContents DEF Begun, AskOK, Plan
<1> HIDE DEF new
<1> QED
  BY <1>1, <1>2, <1>7, <1>8, AskedWell DEF Labels

LEMMA RelateStep ==
    ASSUME Inv, NEW r \in Calls, NEW p \in PostIds, NEW S \in PostSets, NEW hidden,
           Relate(r, p, S, hidden)
    PROVE  Inv'
<1> DEFINE asked == [kind |-> "relate", post |-> p, asked |-> S, hidden |-> hidden]
<1>1. asked.kind = "relate" /\ asked.post = p /\ asked.asked = S /\ asked.hidden = hidden
  OBVIOUS
<1>2. Ask(r, "load", asked, <<"post_relation">>, {})
         /\ drawn' \subseteq PostIds \cup PoolIds \cup Texts
  BY DEF Relate, Inv, Bounds
<1> HIDE DEF asked
<1>3. S \subseteq PostIds /\ p \notin hidden
  BY LinksAssumption DEF Relate, Visible
<1>4. ASSUME Begun(r, "load", asked, <<"post_relation">>, {}) PROVE AskOK(r)' /\ ContentsOK(r)'
  <2>1. <<"post_relation">> # Remarks
    BY ListsDiffer DEF Tables
  <2> QED
    BY <1>1, <1>3, <1>4, <2>1, NoContents DEF Begun, AskOK, Plan
<1> QED
  BY <1>1, <1>2, <1>4, AskedWell, NothingFresh DEF Labels

LEMMA MergePostsStep ==
    ASSUME Inv, NEW r \in Calls, NEW absorbed \in PostIds, NEW to \in PostIds,
           MergePosts(r, absorbed, to)
    PROVE  Inv'
<1> DEFINE asked == [kind |-> "merge posts", absorbed |-> absorbed, to |-> to]
<1>1. asked.kind = "merge posts" /\ asked.absorbed = absorbed /\ asked.to = to
  OBVIOUS
<1>2. Ask(r, "load", asked, AllTables, {}) /\ absorbed # to
         /\ drawn' \subseteq PostIds \cup PoolIds \cup Texts
  BY DEF MergePosts, Inv, Bounds, AllTables
<1> HIDE DEF asked
<1>3. ASSUME Begun(r, "load", asked, AllTables, {}) PROVE AskOK(r)' /\ ContentsOK(r)'
  <2>1. AskOK(r)'
    BY <1>1, <1>2, <1>3, ListsDiffer DEF Begun, AskOK, Plan
  <2>2. at'[r] = "load" /\ asks'[r].kind = "merge posts" /\ todo'[r] = AllTables
    BY <1>1, <1>3 DEF Begun
  <2>3. MergeRelations(r)' /\ MergeMarks(r)' /\ MergePlaces(r)' /\ MergeRemarks(r)'
    BY <2>2, ListsDiffer DEF MergeRelations, MergeMarks, MergePlaces, MergeRemarks
  <2>4. ContentsOK(r)'
    BY <2>2, <2>3 DEF ContentsOK, RelateOK, EditOK, CreateOK, MergePoolsOK, MergePostsOK
  <2> QED
    BY <2>1, <2>4
<1> QED
  BY <1>1, <1>2, <1>3, AskedWell, NothingFresh DEF Labels

\* A request whose only statement is a DELETE.
LEMMA DeletionStep ==
    ASSUME Inv, NEW r \in Calls, NEW gone, gone.table \in {"post", "pool", "mark", "remark"},
           Ask(r, "commit", [kind |-> "delete", gone |-> gone], <<>>, {}), UNCHANGED drawn
    PROVE  Inv'
<1> DEFINE asked == [kind |-> "delete", gone |-> gone]
<1>1. asked.kind = "delete" /\ asked.gone = gone
  OBVIOUS
<1>2. Ask(r, "commit", asked, <<>>, {})
  OBVIOUS
<1> HIDE DEF asked
<1>3. ASSUME Begun(r, "commit", asked, <<>>, {}) PROVE AskOK(r)' /\ ContentsOK(r)'
  BY <1>1, <1>3, NoContents DEF Begun, AskOK
<1>4. drawn' \subseteq PostIds \cup PoolIds \cup Texts
  BY DEF Inv, Bounds
<1> QED
  BY <1>1, <1>2, <1>3, <1>4, AskedWell, NothingFresh DEF Labels

LEMMA SetMarkStep ==
    ASSUME Inv, NEW r \in Calls, NEW p \in PostIds, NEW by \in Owners, SetMark(r, p, by)
    PROVE  Inv'
<1> DEFINE asked == [kind |-> "mark", post |-> p, by |-> by]
           new == {Mark(p, by)}
<1>1. asked.kind = "mark" /\ asked.post = p /\ asked.by = by
  OBVIOUS
<1>2. Ask(r, "find", asked, <<"mark">>, new)
         /\ drawn' \subseteq PostIds \cup PoolIds \cup Texts
  BY DEF SetMark, Inv, Bounds
<1> HIDE DEF asked
<1>3. new \subseteq LinkRow /\ \A row \in new : row.table = "mark"
  <2>1. Mark(p, by) \in LinkRow
    BY RowTypes
  <2>2. Mark(p, by).table = "mark"
    BY Rows
  <2> QED
    BY <2>1, <2>2
<1>4. Symmetric(new)
  BY Rows DEF Symmetric
<1>5. Fresh("mark", "find", <<"mark">>, new)
  BY <1>3, <1>4, ListsOfTables, Keys DEF Fresh
<1>6. ASSUME Begun(r, "find", asked, <<"mark">>, new) PROVE AskOK(r)' /\ ContentsOK(r)'
  BY <1>1, <1>6, NoContents DEF Begun, AskOK, Plan
<1> HIDE DEF new
<1> QED
  BY <1>1, <1>2, <1>5, <1>6, AskedWell DEF Labels

LEMMA AddRemarkStep ==
    ASSUME Inv, NEW r \in Calls, NEW p \in PostIds, NEW text \in Texts, AddRemark(r, p, text)
    PROVE  Inv'
<1> DEFINE asked == [kind |-> "remark"]
           new == {Remark(p, text)}
<1>1. asked.kind = "remark"
  OBVIOUS
<1>2. Ask(r, "write", asked, Remarks, new)
         /\ drawn' \subseteq PostIds \cup PoolIds \cup Texts
  BY DEF AddRemark, Draw, Inv, Bounds, Remarks
<1> HIDE DEF asked
<1>3. new \subseteq LinkRow /\ \A row \in new : row.table = "remark"
  <2>1. Remark(p, text) \in LinkRow
    BY RowTypes
  <2>2. Remark(p, text).table = "remark"
    BY Rows
  <2> QED
    BY <2>1, <2>2
<1>4. Symmetric(new)
  BY Rows DEF Symmetric
<1>5. Fresh("remark", "write", Remarks, new)
  BY <1>3, <1>4, ListsOfTables, Keys DEF Fresh, Remarks
<1>6. ASSUME Begun(r, "write", asked, Remarks, new) PROVE AskOK(r)' /\ ContentsOK(r)'
  BY <1>1, <1>6, NoContents DEF Begun, AskOK, Plan
<1> HIDE DEF new
<1> QED
  BY <1>1, <1>2, <1>5, <1>6, AskedWell DEF Labels

LEMMA CreatePoolStep ==
    ASSUME Inv, NEW r \in Calls, NEW k \in PoolIds, NEW list \in PostLists,
           CreatePool(r, k, list)
    PROVE  Inv'
<1> DEFINE added == AddedPosts(k, 0, list)
           new == {PoolRow(k)} \cup added
           asked == [kind |-> "create pool"]
<1>1. asked.kind = "create pool"
  OBVIOUS
<1>2. Ask(r, "write", asked, <<"pool_post">>, new)
         /\ drawn' \subseteq PostIds \cup PoolIds \cup Texts
  BY DEF CreatePool, Draw, Inv, Bounds
<1> HIDE DEF asked
<1>3. PICK S \in SUBSET PostIds : list \in Lists(S)
  BY LinksAssumption
<1>4. /\ added \subseteq LinkRow
      /\ \A row \in added : row.table = "pool_post"
      /\ \A row, other \in added : SameLink(row, other) => row = other
      /\ Symmetric(added)
  BY <1>3, AddedFacts
<1>5. PoolRow(k) \in LinkRow
  BY RowTypes
<1>6. PoolRow(k).table = "pool" /\ \A a, c \in PostIds : Related(a, c) # PoolRow(k)
  BY Rows
<1>7. \A row, other \in new : SameLink(row, other) => row = other
  BY <1>4, <1>6, Keys
<1>8. Symmetric(new)
  BY <1>4, <1>6 DEF Symmetric
<1> HIDE DEF added
<1>9. Fresh("create pool", "write", <<"pool_post">>, new)
  BY <1>4, <1>5, <1>6, <1>7, <1>8, ListsOfTables DEF Fresh, KindTables
<1>10. ASSUME Begun(r, "write", asked, <<"pool_post">>, new) PROVE AskOK(r)' /\ ContentsOK(r)'
  <2>1. AskOK(r)'
    BY <1>1, <1>10 DEF Begun, AskOK, Plan
  <2>2. asks'[r].kind = "create pool" /\ at'[r] = "write" /\ adds'[r] = {PoolRow(k)} \cup added
    BY <1>1, <1>10 DEF Begun
  <2>3. CreateOK(r)'
    BY <1>3, <2>2 DEF CreateOK, added
  <2>4. ContentsOK(r)'
    BY <2>2, <2>3 DEF ContentsOK, RelateOK, EditOK, MergePoolsOK, MergePostsOK
  <2> QED
    BY <2>1, <2>4
<1> HIDE DEF new
<1> QED
  BY <1>1, <1>2, <1>9, <1>10, AskedWell DEF Labels

LEMMA EditPoolStep ==
    ASSUME Inv, NEW r \in Calls, NEW k \in PoolIds, NEW list \in PostLists, NEW hidden,
           EditPool(r, k, list, hidden)
    PROVE  Inv'
<1> DEFINE asked == [kind |-> "edit pool", pool |-> k, list |-> list, hidden |-> hidden]
<1>1. asked.kind = "edit pool" /\ asked.pool = k /\ asked.list = list /\ asked.hidden = hidden
  OBVIOUS
<1>2. Ask(r, "load", asked, <<"pool_post">>, {})
         /\ drawn' \subseteq PostIds \cup PoolIds \cup Texts
  BY DEF EditPool, Inv, Bounds
<1> HIDE DEF asked
<1>3. \E S \in SUBSET PostIds : list \in Lists(S)
  BY LinksAssumption
<1>4. ASSUME Begun(r, "load", asked, <<"pool_post">>, {}) PROVE AskOK(r)' /\ ContentsOK(r)'
  <2>1. <<"pool_post">> # Remarks
    BY ListsDiffer DEF Tables
  <2> QED
    BY <1>1, <1>3, <1>4, <2>1, NoContents DEF Begun, AskOK, Plan
<1> QED
  BY <1>1, <1>2, <1>4, AskedWell, NothingFresh DEF Labels

LEMMA MergePoolsStep ==
    ASSUME Inv, NEW r \in Calls, NEW absorbed \in PoolIds, NEW to \in PoolIds,
           MergePools(r, absorbed, to)
    PROVE  Inv'
<1> DEFINE asked == [kind |-> "merge pools", absorbed |-> absorbed, to |-> to]
<1>1. asked.kind = "merge pools" /\ asked.absorbed = absorbed /\ asked.to = to
  OBVIOUS
<1>2. Ask(r, "load", asked, <<"pool_post">>, {}) /\ absorbed # to
         /\ drawn' \subseteq PostIds \cup PoolIds \cup Texts
  BY DEF MergePools, Inv, Bounds
<1> HIDE DEF asked
<1>3. ASSUME Begun(r, "load", asked, <<"pool_post">>, {}) PROVE AskOK(r)' /\ ContentsOK(r)'
  <2>1. <<"pool_post">> # Remarks
    BY ListsDiffer DEF Tables
  <2> QED
    BY <1>1, <1>2, <1>3, <2>1, NoContents DEF Begun, AskOK, Plan
<1> QED
  BY <1>1, <1>2, <1>3, AskedWell, NothingFresh DEF Labels

LEMMA DeletionSteps ==
    ASSUME Inv, NEW r \in Calls, NEW p, NEW k, NEW by, NEW text,
           DeletePost(r, p) \/ DropMark(r, p, by) \/ DropRemark(r, p, text) \/ DeletePool(r, k)
    PROVE  Inv'
<1>1. \E gone \in {PostRow(p), Mark(p, by), Remark(p, text), PoolRow(k)} :
          Ask(r, "commit", [kind |-> "delete", gone |-> gone], <<>>, {}) /\ UNCHANGED drawn
  BY DEF DeletePost, DropMark, DropRemark, DeletePool
<1>2. /\ PostRow(p).table = "post" /\ Mark(p, by).table = "mark"
      /\ Remark(p, text).table = "remark" /\ PoolRow(k).table = "pool"
  BY Rows
<1> QED
  BY <1>1, <1>2, DeletionStep

-----------------------------------------------------------------------------
(* Reads.                                                                   *)

\* What is read of rows depends on the rows of one table.
LEMMA SameTable ==
    ASSUME NEW rows, NEW other
    PROVE  /\ Of(rows, "post_relation") = Of(other, "post_relation") =>
                 /\ \A p \in PostIds : RelatedTo(rows, p) = RelatedTo(other, p)
                 /\ \A S : Touching(rows, S) = Touching(other, S)
                 /\ \A p, q : MergedRows(rows, p, q, "post_relation")
                                = MergedRows(other, p, q, "post_relation")
           /\ Of(rows, "mark") = Of(other, "mark") =>
                 /\ \A p : MarksOf(rows, p) = MarksOf(other, p)
                 /\ \A p, q : MergedRows(rows, p, q, "mark") = MergedRows(other, p, q, "mark")
           /\ Of(rows, "remark") = Of(other, "remark") =>
                 \A p : RemarksOf(rows, p) = RemarksOf(other, p)
<1>1. ASSUME Of(rows, "post_relation") = Of(other, "post_relation")
      PROVE  /\ \A p \in PostIds : RelatedTo(rows, p) = RelatedTo(other, p)
             /\ \A S : Touching(rows, S) = Touching(other, S)
  <2>1. \A p, c : Related(p, c) \in rows <=> Related(p, c) \in other
    <3>1. \A p, c : Related(p, c).table = "post_relation"
      BY Rows
    <3> QED
      BY <1>1, <3>1 DEF Of
  <2> QED
    BY <1>1, <2>1 DEF RelatedTo, Touching
<1>2. ASSUME Of(rows, "post_relation") = Of(other, "post_relation"), NEW p, NEW q
      PROVE  MergedRows(rows, p, q, "post_relation") = MergedRows(other, p, q, "post_relation")
  BY <1>1, <1>2 DEF MergedRows
<1>3. ASSUME Of(rows, "mark") = Of(other, "mark")
      PROVE  /\ \A p : MarksOf(rows, p) = MarksOf(other, p)
             /\ \A p, q : MergedRows(rows, p, q, "mark") = MergedRows(other, p, q, "mark")
  <2>1. \A p : MarksOf(rows, p) = MarksOf(other, p)
    BY <1>3 DEF MarksOf
  <2> QED
    BY <2>1 DEF MergedRows
<1>4. ASSUME Of(rows, "remark") = Of(other, "remark")
      PROVE  \A p : RemarksOf(rows, p) = RemarksOf(other, p)
  BY <1>4 DEF RemarksOf
<1> QED
  BY <1>1, <1>2, <1>3, <1>4

LEMMA SamePlaces ==
    ASSUME NEW rows, NEW other, Of(rows, "pool_post") = Of(other, "pool_post")
    PROVE  /\ \A k : Members(rows, k) = Members(other, k) /\ PostsOf(rows, k) = PostsOf(other, k)
           /\ \A k, p, q : Before(rows, k, p, q) <=> Before(other, k, p, q)
           /\ \A k, S : Listed(rows, k, S) = Listed(other, k, S)
           /\ \A p, q : MergedRows(rows, p, q, "pool_post") = MergedRows(other, p, q, "pool_post")
<1>1. \A k : Members(rows, k) = Members(other, k)
  BY DEF Members
<1>2. \A k : PostsOf(rows, k) = PostsOf(other, k)
  BY <1>1 DEF PostsOf
<1>3. \A k, p, q : Before(rows, k, p, q) <=> Before(other, k, p, q)
  BY <1>1 DEF Before
<1>4. \A k, S : Listed(rows, k, S) = Listed(other, k, S)
  BY <1>3 DEF Listed
<1>5. ASSUME NEW p, NEW q
      PROVE  MergedRows(rows, p, q, "pool_post") = MergedRows(other, p, q, "pool_post")
  BY <1>2 DEF MergedRows
<1> QED
  BY <1>1, <1>2, <1>3, <1>4, <1>5

\* The rows a transaction sees are as sound as the committed ones.
LEMMA ViewFacts ==
    ASSUME Inv, NEW r \in Calls
    PROVE  /\ LinkDB!View(r) \subseteq LinkRow
           /\ \A row, other \in LinkDB!View(r) : SameLink(row, other) => row = other
           /\ Symmetric(LinkDB!View(r))
<1>1. ReqOK(r) /\ Sound(links) /\ Symmetric(links)
  BY DEF Inv, RowsRegular
<1>2. LinkDB!View(r) \subseteq LinkRow
  BY <1>1 DEF ReqOK, RowsOK, Placed, Sound, LinkDB!View
<1>3. \A row, other \in LinkDB!View(r) : SameLink(row, other) => row = other
  BY <1>1, Keys DEF ReqOK, RowsOK, KeysOK, Sound, LinkDB!View
<1>4. Symmetric(LinkDB!View(r))
  BY <1>1 DEF ReqOK, RowsOK, SymmetricOK, Symmetric, LinkDB!View
<1> QED
  BY <1>2, <1>3, <1>4

\* They are there with all they refer to.
LEMMA ViewClosed ==
    ASSUME Inv, NEW r \in Calls, NEW row \in LinkDB!View(r)
    PROVE  LinkParents(row) \subseteq LinkDB!View(r)
<1>1. Sound(links) /\ RowsOK(r)
  BY DEF Inv, ReqOK
<1>2. CASE row \in put[r]
  BY <1>1, <1>2 DEF RowsOK, ParentsOK
<1>3. CASE row \in links \ cut[r]
  <2>1. LinkParents(row) \subseteq links
    BY <1>1, <1>3 DEF Sound
  <2>2. \A other \in cut[r] : other.table \in Tables
    BY <1>1 DEF RowsOK, Placed
  <2>3. \A parent \in LinkParents(row) : parent.table \in {"post", "pool"}
    BY ParentRows
  <2> QED
    BY <2>1, <2>2, <2>3 DEF LinkDB!View, Tables
<1> QED
  BY <1>2, <1>3 DEF LinkDB!View

\* A transaction has not changed the tables it has yet to change.
LEMMA ViewUnchanged ==
    ASSUME NEW r \in Calls, ReqOK(r)
    PROVE  /\ \A table \in Contents(todo[r]) :
                 /\ Of(LinkDB!View(r), table) = Of(links, table)
                 /\ Of(put[r], table) = {} /\ Of(cut[r], table) = {}
           /\ at[r] # "commit" /\ asks[r].kind # "merge posts" =>
                 LinkDB!View(r) = links /\ put[r] = {} /\ cut[r] = {}
BY DEF ReqOK, RowsOK, Placed, LinkDB!View, Of

LEMMA Joined ==
    ASSUME NEW S \in SUBSET PostIds, NEW T \in SUBSET PostIds, S \cap T = {},
           NEW list \in Lists(S), NEW rest \in Lists(T)
    PROVE  list \o rest \in Lists(S \cup T)
<1> DEFINE n == Cardinality(S)
           m == Cardinality(T)
           both == list \o rest
<1>1. n \in Nat /\ m \in Nat /\ Cardinality(S \cup T) = n + m
  <2>1. IsFiniteSet(S) /\ IsFiniteSet(T) /\ n \in Nat /\ m \in Nat
    BY FinitePosts
  <2>2. Cardinality(S \cup T) = n + m - Cardinality(S \cap T)
    BY <2>1, FS_Union
  <2>3. Cardinality(S \cap T) = 0
    BY FS_EmptySet
  <2> QED
    BY <2>1, <2>2, <2>3
<1>2. /\ list \in Seq(PostIds) /\ Len(list) = n
      /\ \A i \in 1..n : list[i] \in S
      /\ \A i, j \in 1..n : list[i] = list[j] => i = j
  <2>1. DOMAIN list = 1..n /\ list \in Seq(S)
    BY ListFacts
  <2> QED
    BY <2>1, ListFacts
<1>3. /\ rest \in Seq(PostIds) /\ Len(rest) = m
      /\ \A i \in 1..m : rest[i] \in T
      /\ \A i, j \in 1..m : rest[i] = rest[j] => i = j
  <2>1. DOMAIN rest = 1..m /\ rest \in Seq(T)
    BY ListFacts
  <2> QED
    BY <2>1, ListFacts
<1>4. /\ both \in Seq(PostIds) /\ Len(both) = n + m
      /\ \A i \in 1..n + m : both[i] = IF i <= n THEN list[i] ELSE rest[i - n]
  BY <1>2, <1>3
<1> HIDE DEF both
<1>5. DOMAIN both = 1..n + m /\ \A i \in 1..n + m : both[i] \in S \cup T
  BY <1>1, <1>2, <1>3, <1>4
<1>6. both \in [1..n + m -> S \cup T]
  <2>1. both = [i \in 1..n + m |-> both[i]]
    BY <1>4
  <2> QED
    BY <1>5, <2>1
<1>7. ASSUME NEW i \in 1..n + m, NEW j \in 1..n + m, both[i] = both[j]
      PROVE  i = j
  <2>1. CASE i <= n /\ j <= n
    BY <1>1, <1>2, <1>4, <1>7, <2>1
  <2>2. CASE i > n /\ j > n
    <3>1. i - n \in 1..m /\ j - n \in 1..m /\ rest[i - n] = rest[j - n]
      BY <1>1, <1>4, <1>7, <2>2
    <3>2. i - n = j - n
      BY <1>3, <3>1
    <3> QED
      BY <1>1, <3>2
  <2>3. CASE i <= n /\ j > n
    <3>1. i \in 1..n /\ j - n \in 1..m /\ list[i] = rest[j - n]
      BY <1>1, <1>4, <1>7, <2>3
    <3> QED
      BY <1>2, <1>3, <3>1
  <2>4. CASE i > n /\ j <= n
    <3>1. j \in 1..n /\ i - n \in 1..m /\ list[j] = rest[i - n]
      BY <1>1, <1>4, <1>7, <2>4
    <3> QED
      BY <1>2, <1>3, <3>1
  <2> QED
    BY <1>1, <2>1, <2>2, <2>3, <2>4
<1>8. \A i, j \in DOMAIN both : both[i] = both[j] => i = j
  BY <1>5, <1>7
<1>9. both \in [1..Cardinality(S \cup T) -> S \cup T]
  BY <1>1, <1>6
<1> QED
  BY <1>8, <1>9 DEF Lists, both

\* The relation that one of x and y becomes.
LEMMA RedirectedRow ==
    ASSUME NEW from, NEW to, NEW x, NEW y
    PROVE  Redirected(from, to, Related(x, y)) =
               IF x = from THEN Related(to, y) ELSE IF y = from THEN Related(x, to) ELSE Related(x, y)
BY Rows DEF Redirected

LEMMA RelatedTells ==
    ASSUME NEW x, NEW y, NEW p, NEW c
    PROVE  Related(x, y) = Related(p, c) <=> x = p /\ y = c
BY Rows

LEMMA MergedRelations ==
    ASSUME NEW rows \in SUBSET LinkRow, Symmetric(rows),
           NEW from \in PostIds, NEW to \in PostIds, from # to
    PROVE  LET new == MergedRows(rows, from, to, "post_relation")
           IN  /\ new \subseteq LinkRow /\ \A row \in new : row.table = "post_relation"
               /\ Symmetric(new)
<1> DEFINE new == MergedRows(rows, from, to, "post_relation")
           touching == Touching(rows, {from, to})
<1>1. ASSUME NEW m \in touching
      PROVE  \E x, y \in PostIds : m = Related(x, y) /\ x # y /\ Related(y, x) \in touching
  <2>1. m \in rows /\ m.table = "post_relation" /\ {m.parent, m.child} \cap {from, to} # {}
    BY DEF Touching, Of
  <2>2. m = Related(m.parent, m.child) /\ m.parent \in PostIds /\ m.child \in PostIds
    BY <2>1, RowShapes
  <2>3. m.parent # m.child /\ Related(m.child, m.parent) \in rows
    BY <2>1, <2>2 DEF Symmetric
  <2>4. Related(m.child, m.parent) \in touching
    BY <2>1, <2>3, Rows DEF Touching, Of
  <2> QED
    BY <2>2, <2>3, <2>4
<1>2. new = {row \in {Redirected(from, to, m) : m \in touching} : row.parent # row.child}
  BY DEF MergedRows
<1> HIDE DEF new, touching
<1>3. ASSUME NEW row \in new
      PROVE  \E p, c \in PostIds : row = Related(p, c) /\ p # c /\ Related(c, p) \in new
  <2>1. PICK m \in touching : row = Redirected(from, to, m)
    BY <1>2
  <2>2. row.parent # row.child
    BY <1>2
  <2>3. PICK x \in PostIds, y \in PostIds :
            m = Related(x, y) /\ x # y /\ Related(y, x) \in touching
    BY <1>1, <2>1
  <2>4. PICK p \in PostIds, c \in PostIds :
            row = Related(p, c) /\ Redirected(from, to, Related(y, x)) = Related(c, p)
    BY <2>1, <2>3, RedirectedRow
  <2>5. p # c
    BY <2>2, <2>4, Rows
  <2>6. Related(c, p).parent # Related(c, p).child
    BY <2>5, Rows
  <2>7. Related(c, p) \in new
    BY <1>2, <2>3, <2>4, <2>6
  <2> QED
    BY <2>4, <2>5, <2>7
<1>4. new \subseteq LinkRow
  BY <1>3, RowTypes
<1>5. ASSUME NEW row \in new PROVE row.table = "post_relation"
  <2>1. PICK p \in PostIds, c \in PostIds : row = Related(p, c)
    BY <1>3
  <2> QED
    BY <2>1, Rows
<1>6. Symmetric(new)
  BY <1>3, RelatedTells DEF Symmetric
<1> QED
  BY <1>4, <1>5, <1>6 DEF new

LEMMA MergedPlaces ==
    ASSUME NEW rows \in SUBSET LinkRow,
           \A row, other \in rows : SameLink(row, other) => row = other,
           NEW from \in PostIds, NEW to \in PostIds
    PROVE  LET new == MergedRows(rows, from, to, "pool_post")
           IN  /\ new \subseteq LinkRow /\ \A row \in new : row.table = "pool_post"
               /\ \A row, other \in new : SameLink(row, other) => row = other
<1> DEFINE new == MergedRows(rows, from, to, "pool_post")
           old == {m \in Of(rows, "pool_post") : m.post = from /\ to \notin PostsOf(rows, m.pool)}
<1>1. new = {Member(row.pool, to, row.order) : row \in old}
  BY DEF MergedRows
<1>2. \A m \in old : /\ m \in rows /\ m.table = "pool_post" /\ m.post = from
                     /\ m.pool \in PoolIds /\ m.order \in Nat
  BY RowShapes DEF Of
<1> HIDE DEF new, old
<1>3. new \subseteq LinkRow
  BY <1>1, <1>2, RowTypes
<1>4. \A row \in new : row.table = "pool_post"
  BY <1>1, Rows
<1>5. ASSUME NEW row \in new, NEW other \in new, SameLink(row, other)
      PROVE  row = other
  <2>1. PICK m \in old : row = Member(m.pool, to, m.order)
    BY <1>1
  <2>2. PICK n \in old : other = Member(n.pool, to, n.order)
    BY <1>1
  <2>3. m.pool = n.pool
    BY <1>5, <2>1, <2>2, Rows DEF SameLink
  <2>4. m = n
    BY <1>2, <2>3 DEF SameLink
  <2> QED
    BY <2>1, <2>2, <2>4
<1> QED
  BY <1>3, <1>4, <1>5 DEF new

LEMMA MergedMarks ==
    ASSUME NEW rows \in SUBSET LinkRow, NEW from, NEW to \in PostIds
    PROVE  LET new == MergedRows(rows, from, to, "mark")
           IN  new \subseteq LinkRow /\ \A row \in new : row.table = "mark"
<1> DEFINE new == MergedRows(rows, from, to, "mark")
<1>1. new = {Mark(to, by) : by \in MarksOf(rows, from) \ MarksOf(rows, to)}
  BY DEF MergedRows
<1>2. MarksOf(rows, from) \subseteq Owners
  BY RowShapes DEF MarksOf, Of
<1> HIDE DEF new
<1>3. new \subseteq LinkRow
  BY <1>1, <1>2, RowTypes
<1>4. ASSUME NEW row \in new PROVE row.table = "mark"
  <2>1. PICK by : row = Mark(to, by)
    BY <1>1
  <2> QED
    BY <2>1, Rows
<1> QED
  BY <1>3, <1>4 DEF new

Loaded(r, new) ==
    /\ at[r] = "load" /\ todo[r] \in Plan(asks[r].kind) /\ todo[r] # Remarks
    /\ asks[r].kind \in {"relate", "edit pool", "merge pools", "merge posts"}
    /\ at'[r] = (IF Deletes(r, Head(todo[r])) THEN "find" ELSE "write")
    /\ asks' = asks /\ todo' = todo /\ links' = links /\ put' = put /\ cut' = cut
    /\ adds'[r] = new /\ drops'[r] = {}
    /\ stale'[r] = stale[r] \ {Head(todo[r])}

LEMMA LoadedWell ==
    ASSUME Inv, NEW r \in Calls, Load(r), NEW new, adds' = [adds EXCEPT ![r] = new],
           Fresh(asks[r].kind, "find", todo[r], new),
           Loaded(r, new) => ContentsOK(r)'
    PROVE  Inv'
<1>1. AskOK(r) /\ RowsOK(r) /\ at[r] = "load"
  BY DEF Inv, ReqOK, Load
<1>2. drops[r] = {}
  BY <1>1 DEF RowsOK, Placed
<1>3. Loaded(r, new) /\ \A q \in Calls \ {r} : Same(q)
  BY <1>1, <1>2 DEF Load, Loaded, AskOK, Same, Inv, Bounds, Shapes, MoveTo, linkRows
<1>4. Shapes' /\ Bounds' /\ Apart'
  <2>1. Shapes' /\ UNCHANGED <<links, put, cut>>
    BY DEF Load, Inv, Shapes, linkRows
  <2>2. at' \in [Calls -> Labels]
    BY DEF Load, Inv, Bounds, MoveTo, Labels
  <2>3. stale' \in [Calls -> SUBSET Tables]
    BY DEF Load, Inv, Bounds
  <2> QED
    BY <2>1, <2>2, <2>3 DEF Load, Inv, Bounds, Apart
<1>5. AskOK(r)'
  <2>1. Deletes(r, Head(todo[r])) /\ asks[r].kind = "merge posts" => todo[r] = AllTables
    BY <1>3, MergeAt DEF Loaded, Deletes
  <2>2. Deletes(r, Head(todo[r])) => asks[r].kind # "merge pools"
    BY DEF Deletes
  <2> QED
    BY <1>1, <1>3, <2>1, <2>2 DEF AskOK, Loaded
<1>6. Placed(r)'
  BY <1>1, <1>3 DEF RowsOK, Placed, Loaded, Fresh
<1>7. KeysOK(r)' /\ ParentsOK(r)'
  BY <1>1, <1>3 DEF RowsOK, KeysOK, ParentsOK, LinkDB!View, Loaded, Fresh
<1>8. SymmetricOK(r)'
  BY <1>1, <1>2, <1>3 DEF RowsOK, SymmetricOK, Symmetric, Loaded, Fresh
<1>9. ReqOK(r)'
  BY <1>3, <1>5, <1>6, <1>7, <1>8 DEF ReqOK, RowsOK
<1> QED
  BY <1>3, <1>4, <1>9, OneChanged DEF Load, linkRows

LEMMA FreshPairs ==
    ASSUME NEW p \in PostIds, NEW S \in SUBSET PostIds, NEW kind, NEW tables,
           Head(tables) = "post_relation"
    PROVE  Fresh(kind, "find", tables, Pairs(p, S))
<1>1. /\ Pairs(p, S) \subseteq LinkRow /\ Symmetric(Pairs(p, S))
      /\ \A row \in Pairs(p, S) : row.table = "post_relation"
  BY NewRelations
<1>2. \A row, other \in Pairs(p, S) : SameLink(row, other) => row = other
  BY <1>1, Keys
<1> QED
  BY <1>1, <1>2 DEF Fresh

LEMMA FreshAdded ==
    ASSUME NEW k \in PoolIds, NEW S \in SUBSET PostIds, NEW list \in Lists(S), NEW kind,
           NEW tables, Head(tables) = "pool_post"
    PROVE  Fresh(kind, "find", tables, AddedPosts(k, 0, list))
<1>1. /\ AddedPosts(k, 0, list) \subseteq LinkRow /\ Symmetric(AddedPosts(k, 0, list))
      /\ \A row \in AddedPosts(k, 0, list) : row.table = "pool_post"
      /\ \A row, other \in AddedPosts(k, 0, list) : SameLink(row, other) => row = other
  BY AddedFacts
<1> QED
  BY <1>1 DEF Fresh

\* The table a request is at.
LEMMA AtTable ==
    ASSUME NEW r, AskOK(r), at[r] \in {"load", "find", "write"}
    PROVE  /\ todo[r] \in Plan(asks[r].kind)
           /\ asks[r].kind \in {"upload", "relate"} => Head(todo[r]) = "post_relation"
           /\ asks[r].kind = "mark" => Head(todo[r]) = "mark"
           /\ asks[r].kind = "remark" => Head(todo[r]) = "remark"
           /\ asks[r].kind \in {"create pool", "edit pool", "merge pools"} =>
                 Head(todo[r]) = "pool_post"
           /\ asks[r].kind # "merge posts" => Tail(todo[r]) = <<>>
<1>1. todo[r] \in Plan(asks[r].kind)
  BY DEF AskOK
<1> DEFINE kind == asks[r].kind
           tables == todo[r]
<1> HIDE DEF kind, tables
<1>2. tables \in Plan(kind)
  BY <1>1 DEF kind, tables
<1>3. /\ kind \in {"upload", "relate"} => Head(tables) = "post_relation"
      /\ kind = "mark" => Head(tables) = "mark"
      /\ kind = "remark" => Head(tables) = "remark"
      /\ kind \in {"create pool", "edit pool", "merge pools"} => Head(tables) = "pool_post"
      /\ kind # "merge posts" => Tail(tables) = <<>>
  BY <1>2, PlanAt
<1> QED
  BY <1>1, <1>3 DEF kind, tables

LEMMA LoadRelatedStep ==
    ASSUME Inv, NEW r \in Calls, Load(r), asks[r].kind = "relate"
    PROVE  Inv'
<1> DEFINE p == asks[r].post
           S == asks[r].asked \cup (RelatedTo(links, p) \cap asks[r].hidden)
<1>1. ReqOK(r) /\ AskOK(r) /\ at[r] = "load"
  BY DEF Inv, ReqOK, Load
<1>2. p \in PostIds /\ S \subseteq PostIds
  BY <1>1 DEF AskOK, RelatedTo
<1>3. LinkDB!View(r) = links
  BY <1>1, ViewUnchanged
<1>4. adds' = [adds EXCEPT ![r] = Pairs(p, S)]
  BY <1>3 DEF Load, LoadRelated, HiddenOf
<1>5. Head(todo[r]) = "post_relation"
  BY <1>1, AtTable
<1>6. Fresh(asks[r].kind, "find", todo[r], Pairs(p, S))
  <2> HIDE DEF p, S
  <2> QED
    BY <1>2, <1>5, FreshPairs
<1>7. ASSUME Loaded(r, Pairs(p, S)) PROVE ContentsOK(r)'
  <2>1. at'[r] = "find" /\ asks'[r].kind = "relate" /\ adds'[r] = Pairs(p, S)
    BY <1>5, <1>7 DEF Loaded, Deletes
  <2>2. RelateOK(r)'
    BY <1>7, <2>1 DEF RelateOK, Loaded
  <2> QED
    BY <2>1, <2>2 DEF ContentsOK, EditOK, CreateOK, MergePoolsOK, MergePostsOK
<1> QED
  BY <1>4, <1>6, <1>7, LoadedWell

LEMMA LoadListStep ==
    ASSUME Inv, NEW r \in Calls, Load(r), asks[r].kind = "edit pool"
    PROVE  Inv'
<1> DEFINE k == asks[r].pool
           asked == asks[r].list
           hidden == PostsOf(links, k) \cap asks[r].hidden
<1>1. ReqOK(r) /\ AskOK(r) /\ at[r] = "load" /\ links \subseteq LinkRow
  BY DEF Inv, ReqOK, Load, Sound
<1>2. PICK A \in SUBSET PostIds : asked \in Lists(A)
  BY <1>1 DEF AskOK
<1>3. k \in PoolIds /\ Contents(asked) = A /\ hidden \subseteq PostIds
  <2>1. \A row \in Members(links, k) : row.post \in PostIds
    BY <1>1, RowShapes DEF Members, Of
  <2>2. hidden \subseteq PostIds
    BY <2>1 DEF PostsOf
  <2>3. Contents(asked) = A
    BY <1>2, ListFacts
  <2>4. k \in PoolIds
    BY <1>1 DEF AskOK
  <2> QED
    BY <2>2, <2>3, <2>4
<1>4. LinkDB!View(r) = links
  BY <1>1, ViewUnchanged
<1>5. LoadList(r)
  BY DEF Load
<1>6. Contents(asked) \cap hidden = {}
         /\ \E rest \in Lists(hidden) : adds' = [adds EXCEPT ![r] = AddedPosts(k, 0, asked \o rest)]
  BY <1>4, <1>5 DEF LoadList, HiddenOf
<1>7. PICK rest \in Lists(hidden) : adds' = [adds EXCEPT ![r] = AddedPosts(k, 0, asked \o rest)]
  BY <1>6
<1>8. asked \o rest \in Lists(A \cup hidden)
  BY <1>2, <1>3, <1>6, Joined
<1>9. Head(todo[r]) = "pool_post"
  BY <1>1, AtTable
<1> DEFINE list == asked \o rest
           new == AddedPosts(k, 0, list)
<1>10. A \cup hidden = Edited(r) /\ A \cup hidden \in SUBSET PostIds
  BY <1>3 DEF Edited
<1>11. list \in Lists(Edited(r)) /\ Edited(r) \in SUBSET PostIds
  BY <1>8, <1>10
<1> HIDE DEF list
<1>12. Fresh(asks[r].kind, "find", todo[r], new)
  <2> HIDE DEF k
  <2> QED
    BY <1>3, <1>9, <1>11, FreshAdded
<1>13. ASSUME Loaded(r, new) PROVE ContentsOK(r)'
  <2>1. at'[r] = "find" /\ asks'[r].kind = "edit pool" /\ adds'[r] = new
    BY <1>9, <1>13 DEF Loaded, Deletes
  <2>2. Edited(r)' = Edited(r) /\ asks'[r].pool = k
    BY <1>13 DEF Loaded, Edited
  <2>3. EditOK(r)'
    BY <1>11, <2>1, <2>2 DEF EditOK
  <2> QED
    BY <2>1, <2>3 DEF ContentsOK, RelateOK, CreateOK, MergePoolsOK, MergePostsOK
<1> QED
  BY <1>7, <1>12, <1>13, LoadedWell DEF list

LEMMA LoadNewPostsStep ==
    ASSUME Inv, NEW r \in Calls, Load(r), asks[r].kind = "merge pools"
    PROVE  Inv'
<1> DEFINE k == asks[r].to
           from == asks[r].absorbed
<1>1. ReqOK(r) /\ AskOK(r) /\ at[r] = "load" /\ links \subseteq LinkRow
  BY DEF Inv, ReqOK, Load, Sound
<1>2. LinkDB!View(r) = links
  BY <1>1, ViewUnchanged
<1>3. LoadNewPosts(r)
  BY DEF Load
<1>4. PICK list \in Listed(links, from, NewPosts(r)) :
          adds' = [adds EXCEPT ![r] = AddedPosts(k, 0, list)]
  BY <1>2, <1>3 DEF LoadNewPosts, NewPosts
<1>5. k \in PoolIds /\ NewPosts(r) \in SUBSET PostIds
  BY <1>1, RowShapes DEF AskOK, NewPosts, PostsOf, Members, Of
<1>6. list \in Lists(NewPosts(r))
  BY <1>4 DEF Listed
<1>7. Head(todo[r]) = "pool_post"
  BY <1>1, AtTable
<1> DEFINE new == AddedPosts(k, 0, list)
<1>8. Fresh(asks[r].kind, "find", todo[r], new)
  <2> HIDE DEF k
  <2> QED
    BY <1>5, <1>6, <1>7, FreshAdded
<1>9. ASSUME Loaded(r, new) PROVE ContentsOK(r)'
  <2>1. at'[r] = "write" /\ asks'[r].kind = "merge pools" /\ adds'[r] = new
    BY <1>9 DEF Loaded, Deletes
  <2>2. NewPosts(r)' = NewPosts(r) /\ asks'[r].to = k /\ asks'[r].absorbed = from /\ links' = links
    BY <1>9 DEF Loaded, NewPosts
  <2>3. MergePoolsOK(r)'
    BY <1>4, <1>5, <1>6, <2>1, <2>2 DEF MergePoolsOK
  <2> QED
    BY <2>1, <2>3 DEF ContentsOK, RelateOK, EditOK, CreateOK, MergePostsOK
<1> QED
  BY <1>4, <1>8, <1>9, LoadedWell

LEMMA LoadMergedStep ==
    ASSUME Inv, NEW r \in Calls, Load(r), asks[r].kind = "merge posts"
    PROVE  Inv'
<1> DEFINE table == Head(todo[r])
           new == Merged(r, table)
<1>1. ReqOK(r) /\ AskOK(r) /\ at[r] = "load" /\ MergePostsOK(r)
  BY DEF Inv, ReqOK, Load, ContentsOK
<1>2. todo[r] \in Plan("merge posts") /\ todo[r] # Remarks
  BY <1>1 DEF AskOK
<1>3. /\ todo[r] \in {AllTables, Later, Last}
      /\ table = "post_relation" <=> todo[r] = AllTables
      /\ table = "mark" <=> todo[r] = Later
      /\ table = "pool_post" <=> todo[r] = Last
      /\ table \in {"post_relation", "mark", "pool_post"} /\ table \in Contents(todo[r])
  <2>1. todo[r] \in {AllTables, Later, Last, Remarks}
    BY <1>2, MergeAt
  <2> QED
    BY <1>2, <2>1, MergeAt
<1>4. Of(LinkDB!View(r), table) = Of(links, table)
  BY <1>1, <1>3, ViewUnchanged
<1>5. new = MergedRows(LinkDB!View(r), asks[r].absorbed, asks[r].to, table)
  <2>1. CASE table = "post_relation"
    <3>1. Of(LinkDB!View(r), "post_relation") = Of(links, "post_relation")
      BY <1>4, <2>1
    <3>2. \A p, q : MergedRows(LinkDB!View(r), p, q, "post_relation") = MergedRows(links, p, q, "post_relation")
      BY <3>1, SameTable
    <3> QED
      BY <2>1, <3>2 DEF Merged
  <2>2. CASE table = "mark"
    <3>1. Of(LinkDB!View(r), "mark") = Of(links, "mark")
      BY <1>4, <2>2
    <3>2. \A p, q : MergedRows(LinkDB!View(r), p, q, "mark") = MergedRows(links, p, q, "mark")
      BY <3>1, SameTable
    <3> QED
      BY <2>2, <3>2 DEF Merged
  <2>3. CASE table = "pool_post"
    <3>1. Of(LinkDB!View(r), "pool_post") = Of(links, "pool_post")
      BY <1>4, <2>3
    <3>2. \A p, q : MergedRows(LinkDB!View(r), p, q, "pool_post") = MergedRows(links, p, q, "pool_post")
      BY <3>1, SamePlaces
    <3> QED
      BY <2>3, <3>2 DEF Merged
  <2> QED
    BY <1>3, <2>1, <2>2, <2>3
<1>6. adds' = [adds EXCEPT ![r] = new]
  BY <1>5 DEF Load, LoadMerged
<1>7. /\ asks[r].absorbed \in PostIds /\ asks[r].to \in PostIds
      /\ asks[r].absorbed # asks[r].to
  BY <1>1 DEF AskOK
<1>8. Fresh(asks[r].kind, "find", todo[r], new)
  <2> DEFINE from == asks[r].absorbed
             to == asks[r].to
             rows == LinkDB!View(r)
  <2>1. rows \in SUBSET LinkRow /\ Symmetric(rows)
           /\ \A row, other \in rows : SameLink(row, other) => row = other
    BY ViewFacts
  <2>2. from \in PostIds /\ to \in PostIds /\ from # to /\ new = MergedRows(rows, from, to, table)
    BY <1>5, <1>7
  <2> HIDE DEF from, to, rows, new
  <2>3. new \subseteq LinkRow /\ \A row \in new : row.table = table
    BY <1>3, <2>1, <2>2, MergedRelations, MergedPlaces, MergedMarks
  <2>4. \A row, other \in new : SameLink(row, other) => row = other
    BY <1>3, <2>1, <2>2, <2>3, MergedPlaces, Keys
  <2>5. Symmetric(new)
    <3>1. CASE table = "post_relation"
      BY <2>1, <2>2, <3>1, MergedRelations
    <3>2. CASE table # "post_relation"
      <4>1. \A p, c : Related(p, c).table = "post_relation"
        BY DEF Related
      <4> QED
        BY <2>3, <3>2, <4>1 DEF Symmetric
    <3> QED
      BY <3>1, <3>2
  <2> QED
    BY <2>3, <2>4, <2>5 DEF Fresh
<1>9. ASSUME Loaded(r, new) PROVE ContentsOK(r)'
  <2>1. /\ at'[r] = (IF table = "post_relation" THEN "find" ELSE "write")
        /\ asks'[r].kind = "merge posts" /\ adds'[r] = new /\ todo'[r] = todo[r]
        /\ stale'[r] = stale[r] \ {table} /\ put'[r] = put[r] /\ cut'[r] = cut[r]
    BY <1>9 DEF Loaded, Deletes
  <2>2. \A t : Merged(r, t)' = Merged(r, t)
    BY <1>9 DEF Merged, Loaded
  <2>3. Touching(links, {asks[r].to})' = Touching(links, {asks[r].to})
    BY <1>9 DEF Loaded
  <2> HIDE DEF new
  <2>4. /\ MergeRelations(r) /\ MergeMarks(r) /\ MergePlaces(r) /\ MergeRemarks(r)
        /\ at[r] = "load"
    BY <1>1 DEF MergePostsOK
  <2>5. MergeRelations(r)'
    BY <1>3, <2>1, <2>2, <2>3, <2>4 DEF MergeRelations, new
  <2>6. MergeMarks(r)'
    BY <1>3, <2>1, <2>2, <2>4, ListsDiffer DEF MergeMarks, new
  <2>7. MergePlaces(r)'
    BY <1>3, <2>1, <2>2, <2>4, ListsDiffer DEF MergePlaces, new
  <2>8. MergeRemarks(r)'
    BY <1>3, <2>1, <2>4, ListsDiffer DEF MergeRemarks
  <2> QED
    BY <2>1, <2>5, <2>6, <2>7, <2>8
       DEF ContentsOK, RelateOK, EditOK, CreateOK, MergePoolsOK, MergePostsOK
<1> QED
  BY <1>6, <1>8, <1>9, LoadedWell

LEMMA LoadStep ==
    ASSUME Inv, NEW r \in Calls, Load(r)
    PROVE  Inv'
<1>1. asks[r].kind \in {"relate", "edit pool", "merge pools", "merge posts"}
  BY DEF Inv, ReqOK, AskOK, Load
<1> QED
  BY <1>1, LoadRelatedStep, LoadListStep, LoadNewPostsStep, LoadMergedStep

-----------------------------------------------------------------------------
(* What a DELETE finds.                                                     *)

LEMMA TouchingFacts ==
    ASSUME NEW rows \in SUBSET LinkRow, Symmetric(rows), NEW S
    PROVE  /\ Touching(rows, S) \subseteq rows
           /\ \A row \in Touching(rows, S) : row.table = "post_relation"
           /\ \A p, c \in PostIds :
                 Related(p, c) \in Touching(rows, S) <=> Related(p, c) \in rows /\ (p \in S \/ c \in S)
           /\ Symmetric(Touching(rows, S))
<1>1. \A row \in Touching(rows, S) : row \in rows /\ row.table = "post_relation"
  BY DEF Touching, Of
<1>2. \A p, c \in PostIds :
          Related(p, c) \in Touching(rows, S) <=> Related(p, c) \in rows /\ (p \in S \/ c \in S)
  <2>1. \A p, c \in PostIds : /\ Related(p, c).table = "post_relation"
                              /\ Related(p, c).parent = p /\ Related(p, c).child = c
    BY Rows
  <2> QED
    BY <2>1 DEF Touching, Of
<1>3. Symmetric(Touching(rows, S))
  BY <1>2 DEF Symmetric
<1> QED
  BY <1>1, <1>2, <1>3

LEMMA NoRelations ==
    ASSUME NEW rows, \A row \in rows : row.table # "post_relation"
    PROVE  Symmetric(rows)
<1>1. \A p, c : Related(p, c).table = "post_relation"
  BY DEF Related
<1> QED
  BY <1>1 DEF Symmetric

LEMMA DropsByKind ==
    ASSUME NEW r
    PROVE  /\ asks[r].kind = "relate" =>
                 RowsToDrop(r) = Touching(LinkDB!View(r), {asks[r].post})
           /\ asks[r].kind = "edit pool" =>
                 RowsToDrop(r) = Members(LinkDB!View(r), asks[r].pool)
           /\ asks[r].kind = "mark" =>
                 RowsToDrop(r) = {Mark(asks[r].post, asks[r].by)} \cap LinkDB!View(r)
           /\ asks[r].kind = "merge posts" /\ Head(todo[r]) = "post_relation" =>
                 RowsToDrop(r) = Touching(LinkDB!View(r), {asks[r].to})
           /\ asks[r].kind = "merge posts" /\ Head(todo[r]) = "remark" =>
                 RowsToDrop(r) =
                     {row \in Of(LinkDB!View(r), "remark") : row.post = asks[r].absorbed}
<1>1. asks[r].kind = "relate" => RowsToDrop(r) = Touching(LinkDB!View(r), {asks[r].post})
  BY DEF RowsToDrop
<1>2. asks[r].kind = "edit pool" => RowsToDrop(r) = Members(LinkDB!View(r), asks[r].pool)
  BY DEF RowsToDrop
<1>3. asks[r].kind = "mark" => RowsToDrop(r) = {Mark(asks[r].post, asks[r].by)} \cap LinkDB!View(r)
  BY DEF RowsToDrop
<1>4. asks[r].kind = "merge posts" /\ Head(todo[r]) = "post_relation" =>
          RowsToDrop(r) = Touching(LinkDB!View(r), {asks[r].to})
  BY DEF RowsToDrop
<1>5. asks[r].kind = "merge posts" /\ Head(todo[r]) = "remark" =>
          RowsToDrop(r) = {row \in Of(LinkDB!View(r), "remark") : row.post = asks[r].absorbed}
  BY DEF RowsToDrop
<1> QED
  BY <1>1, <1>2, <1>3, <1>4, <1>5

LEMMA DropFacts ==
    ASSUME Inv, NEW r \in Calls, at[r] = "find"
    PROVE  /\ RowsToDrop(r) \subseteq LinkDB!View(r)
           /\ \A row \in RowsToDrop(r) : row.table = Head(todo[r])
           /\ Symmetric(RowsToDrop(r))
<1> DEFINE rows == LinkDB!View(r)
           gone == RowsToDrop(r)
<1>1. rows \in SUBSET LinkRow /\ Symmetric(rows)
  BY ViewFacts
<1>2. AskOK(r)
  BY DEF Inv, ReqOK
<1>3. asks[r].kind \in {"relate", "edit pool", "mark", "merge posts"}
  BY <1>2 DEF AskOK
<1>4. gone \subseteq rows /\ \A row \in gone : row.table = Head(todo[r])
  <2>1. CASE asks[r].kind = "relate"
    <3>1. gone = Touching(rows, {asks[r].post}) /\ Head(todo[r]) = "post_relation"
      BY <1>2, <2>1, AtTable, DropsByKind
    <3> QED
      BY <1>1, <3>1, TouchingFacts
  <2>2. CASE asks[r].kind = "edit pool"
    <3>1. gone = Members(rows, asks[r].pool) /\ Head(todo[r]) = "pool_post"
      BY <1>2, <2>2, AtTable, DropsByKind
    <3> QED
      BY <3>1 DEF Members, Of
  <2>3. CASE asks[r].kind = "mark"
    <3>1. gone = {Mark(asks[r].post, asks[r].by)} \cap rows /\ Head(todo[r]) = "mark"
      BY <1>2, <2>3, AtTable, DropsByKind
    <3>2. Mark(asks[r].post, asks[r].by).table = "mark"
      BY Rows
    <3> QED
      BY <3>1, <3>2
  <2>4. CASE asks[r].kind = "merge posts"
    <3>1. todo[r] \in {AllTables, Remarks}
      BY <1>2, <2>4 DEF AskOK
    <3>2. CASE todo[r] = AllTables
      <4>1. gone = Touching(rows, {asks[r].to}) /\ Head(todo[r]) = "post_relation"
        BY <2>4, <3>2, ListsOfTables, DropsByKind
      <4> QED
        BY <1>1, <4>1, TouchingFacts
    <3>3. CASE todo[r] = Remarks
      <4>1. Head(todo[r]) = "remark"
        BY <3>3, ListsOfTables DEF Remarks
      <4>2. gone = {row \in Of(rows, "remark") : row.post = asks[r].absorbed}
        BY <2>4, <4>1, DropsByKind
      <4> QED
        BY <4>1, <4>2 DEF Of
    <3> QED
      BY <3>1, <3>2, <3>3
  <2> QED
    BY <1>3, <2>1, <2>2, <2>3, <2>4
<1>5. Symmetric(gone)
  <2>1. CASE Head(todo[r]) = "post_relation"
    <3>1. asks[r].kind \in {"relate", "merge posts"}
      BY <1>2, <1>3, <2>1, AtTable
    <3>2. \E S : gone = Touching(rows, S)
      BY <2>1, <3>1, DropsByKind
    <3> QED
      BY <1>1, <3>2, TouchingFacts
  <2>2. CASE Head(todo[r]) # "post_relation"
    BY <1>4, <2>2, NoRelations
  <2> QED
    BY <2>1, <2>2
<1> QED
  BY <1>4, <1>5

LEMMA FindContents ==
    ASSUME Inv, NEW r \in Calls, Find(r)
    PROVE  ContentsOK(r)'
<1>1. /\ at[r] = "find" /\ at'[r] = "write" /\ asks' = asks /\ todo' = todo
      /\ adds' = adds /\ links' = links /\ put' = put /\ cut' = cut
      /\ drops'[r] = RowsToDrop(r)
      /\ \A table : table \notin stale'[r] => table \notin stale[r] \/ Head(todo[r]) = "remark"
      /\ \A table \in {"post_relation", "mark", "pool_post"} :
            table \in stale[r] => table \in stale'[r]
  BY DEF Find, Inv, Bounds, Shapes, MoveTo, linkRows
<1>2. ReqOK(r) /\ AskOK(r) /\ ContentsOK(r)
  BY DEF Inv, ReqOK
<1>3. asks[r].kind # "merge posts" => LinkDB!View(r) = links
  BY <1>1, <1>2, ViewUnchanged
<1>4. CASE asks[r].kind = "relate"
  <2>1. drops'[r] = Touching(links, {asks[r].post})
    BY <1>1, <1>3, <1>4, DropsByKind
  <2>2. RelateOK(r)'
    BY <1>1, <1>2, <1>4, <2>1 DEF ContentsOK, RelateOK
  <2> QED
    BY <1>1, <1>4, <2>2 DEF ContentsOK, EditOK, CreateOK, MergePoolsOK, MergePostsOK
<1>5. CASE asks[r].kind = "edit pool"
  <2>1. drops'[r] = Members(links, asks[r].pool)
    BY <1>1, <1>3, <1>5, DropsByKind
  <2>2. Edited(r)' = Edited(r)
    BY <1>1 DEF Edited
  <2>3. EditOK(r)'
    BY <1>1, <1>2, <1>5, <2>1, <2>2 DEF ContentsOK, EditOK
  <2> QED
    BY <1>1, <1>5, <2>3 DEF ContentsOK, RelateOK, CreateOK, MergePoolsOK, MergePostsOK
<1>6. CASE asks[r].kind = "mark"
  BY <1>1, <1>6 DEF ContentsOK, RelateOK, EditOK, CreateOK, MergePoolsOK, MergePostsOK
<1>7. CASE asks[r].kind = "merge posts"
  <2>1. /\ MergeRelations(r) /\ MergeMarks(r) /\ MergePlaces(r) /\ MergeRemarks(r)
        /\ todo[r] \in {AllTables, Remarks}
    BY <1>1, <1>2, <1>7 DEF ContentsOK, MergePostsOK, AskOK
  <2>2. \A t : Merged(r, t)' = Merged(r, t)
    BY <1>1 DEF Merged
  <2>3. OldRemarks(r)' = OldRemarks(r)
    BY <1>1 DEF OldRemarks
  <2>4. Head(AllTables) = "post_relation" /\ Head(Remarks) = "remark"
    BY ListsOfTables DEF Remarks
  <2>5. todo[r] = AllTables => drops'[r] = Touching(links, {asks[r].to})
    <3>1. SUFFICES ASSUME todo[r] = AllTables PROVE drops'[r] = Touching(links, {asks[r].to})
      OBVIOUS
    <3>2. drops'[r] = Touching(LinkDB!View(r), {asks[r].to})
      BY <1>1, <1>7, <2>4, <3>1, DropsByKind
    <3>3. Of(LinkDB!View(r), "post_relation") = Of(links, "post_relation")
      BY <1>2, <3>1, ViewUnchanged, ListContents DEF Tables
    <3> QED
      BY <3>2, <3>3, SameTable
  <2>6. todo[r] = Remarks => drops'[r] = OldRemarks(r)
    <3>1. SUFFICES ASSUME todo[r] = Remarks PROVE drops'[r] = OldRemarks(r)
      OBVIOUS
    <3>2. drops'[r] = {row \in Of(LinkDB!View(r), "remark") : row.post = asks[r].absorbed}
      BY <1>1, <1>7, <2>4, <3>1, DropsByKind
    <3>3. Of(LinkDB!View(r), "remark") = Of(links, "remark")
      BY <1>2, <3>1, ViewUnchanged, ListContents
    <3> QED
      BY <3>2, <3>3 DEF OldRemarks
  <2>7. MergeRelations(r)'
    BY <1>1, <2>1, <2>2, <2>5, ListsDiffer DEF MergeRelations
  <2>8. MergeMarks(r)'
    BY <1>1, <2>1, <2>2, ListsDiffer DEF MergeMarks
  <2>9. MergePlaces(r)'
    BY <1>1, <2>1, <2>2, ListsDiffer DEF MergePlaces
  <2>10. MergeRemarks(r)'
    BY <1>1, <2>1, <2>3, <2>6, ListsDiffer DEF MergeRemarks
  <2> QED
    BY <1>1, <1>7, <2>7, <2>8, <2>9, <2>10
       DEF ContentsOK, RelateOK, EditOK, CreateOK, MergePoolsOK, MergePostsOK
<1> QED
  BY <1>1, <1>2, <1>4, <1>5, <1>6, <1>7 DEF AskOK

LEMMA FindStep ==
    ASSUME Inv, NEW r \in Calls, Find(r)
    PROVE  Inv'
<1>1. AskOK(r) /\ RowsOK(r) /\ at[r] = "find"
  BY DEF Inv, ReqOK, Find
<1>2. /\ at'[r] = "write" /\ asks' = asks /\ todo' = todo
      /\ adds' = adds /\ links' = links /\ put' = put /\ cut' = cut
      /\ drops'[r] = RowsToDrop(r)
      /\ \A q \in Calls \ {r} : Same(q)
  BY DEF Find, Inv, Bounds, Shapes, MoveTo, linkRows, Same
<1>3. Shapes' /\ Bounds' /\ Apart'
  <2>1. Shapes'
    BY DEF Find, Inv, Shapes, linkRows
  <2>2. at' \in [Calls -> Labels]
    BY DEF Find, Inv, Bounds, MoveTo, Labels
  <2>3. stale' \in [Calls -> SUBSET Tables]
    BY DEF Find, Inv, Bounds
  <2> QED
    BY <1>2, <2>1, <2>2, <2>3 DEF Find, Inv, Bounds, Apart
<1>4. /\ RowsToDrop(r) \subseteq LinkDB!View(r) /\ LinkDB!View(r) \subseteq LinkRow
      /\ \A row \in RowsToDrop(r) : row.table = Head(todo[r])
      /\ Symmetric(RowsToDrop(r))
  BY <1>1, DropFacts, ViewFacts
<1>5. AskOK(r)'
  BY <1>1, <1>2 DEF AskOK
<1>6. Placed(r)'
  BY <1>1, <1>2, <1>4 DEF RowsOK, Placed, AskOK
<1>7. KeysOK(r)' /\ ParentsOK(r)'
  BY <1>1, <1>2 DEF RowsOK, KeysOK, ParentsOK, LinkDB!View
<1>8. SymmetricOK(r)'
  BY <1>1, <1>2, <1>4 DEF RowsOK, SymmetricOK, Symmetric
<1>9. ReqOK(r)'
  BY <1>5, <1>6, <1>7, <1>8, FindContents DEF ReqOK, RowsOK
<1> QED
  BY <1>2, <1>3, <1>9, OneChanged DEF Find

-----------------------------------------------------------------------------
(* What an INSERT adds.                                                     *)

\* The rows a request is about to insert are numbered after the posts that are there.
LEMMA Renumbered ==
    ASSUME NEW k \in PoolIds, NEW S \in SUBSET PostIds, NEW list \in Lists(S), NEW n \in Nat
    PROVE  {[row EXCEPT !.order = @ + n] : row \in AddedPosts(k, 0, list)} = AddedPosts(k, n, list)
<1>1. DOMAIN list = 1..Cardinality(S) /\ Cardinality(S) \in Nat
  BY ListFacts, FinitePosts
<1>2. \A i \in DOMAIN list : [Member(k, list[i], 0 + i - 1) EXCEPT !.order = @ + n]
                               = Member(k, list[i], n + i - 1)
  BY <1>1 DEF Member
<1> DEFINE D == AddedPosts(k, 0, list)
           renumbered == {[row EXCEPT !.order = @ + n] : row \in D}
<1>3. ASSUME NEW x \in renumbered PROVE x \in AddedPosts(k, n, list)
  <2>1. PICK row \in D : x = [row EXCEPT !.order = @ + n]
    OBVIOUS
  <2>2. PICK i \in DOMAIN list : row = Member(k, list[i], 0 + i - 1)
    BY DEF AddedPosts
  <2>3. x = Member(k, list[i], n + i - 1)
    BY <1>2, <2>1, <2>2
  <2> QED
    BY <2>3 DEF AddedPosts
<1>4. ASSUME NEW i \in DOMAIN list PROVE Member(k, list[i], n + i - 1) \in renumbered
  <2>1. Member(k, list[i], 0 + i - 1) \in D
    BY DEF AddedPosts
  <2> QED
    BY <1>2, <2>1
<1>5. AddedPosts(k, n, list) \subseteq renumbered
  <2> HIDE DEF renumbered
  <2> QED
    BY <1>4 DEF AddedPosts
<1> QED
  BY <1>3, <1>5

LEMMA NewRowsByKind ==
    ASSUME NEW r
    PROVE  /\ asks[r].kind = "merge pools" =>
                 NewRows(r) = {[row EXCEPT !.order = @ + Cardinality(Members(LinkDB!View(r), asks[r].to))] :
                                  row \in adds[r]}
           /\ asks[r].kind = "merge posts" /\ Head(todo[r]) = "remark" =>
                 NewRows(r) = {Remark(asks[r].to, row.text) : row \in drops[r] \cap LinkDB!View(r)}
           /\ asks[r].kind \notin {"merge posts", "merge pools"} => NewRows(r) = adds[r]
           /\ Head(todo[r]) # "remark" /\ asks[r].kind # "merge pools" => NewRows(r) = adds[r]
BY DEF NewRows

\* Each post is in a pool once.
LEMMA MembersFinite ==
    ASSUME NEW rows \in SUBSET LinkRow,
           \A row, other \in rows : SameLink(row, other) => row = other,
           NEW k
    PROVE  IsFiniteSet(Members(rows, k)) /\ Cardinality(Members(rows, k)) \in Nat
<1> DEFINE M == Members(rows, k)
           f == [row \in M |-> row.post]
<1>1. \A row \in M : row \in rows /\ row.table = "pool_post" /\ row.pool = k /\ row.post \in PostIds
  BY RowShapes DEF Members, Of
<1>2. \A row, other \in M : row.post = other.post => row = other
  BY <1>1 DEF SameLink
<1> HIDE DEF M
<1>3. f \in Injection(M, PostIds)
  BY <1>1, <1>2 DEF Injection, IsInjective
<1>4. IsFiniteSet(M)
  BY <1>3, FS_Injection, LinksAssumption
<1> QED
  BY <1>4, FS_CardinalityType DEF M

LEMMA NewRowsFacts ==
    ASSUME Inv, NEW r \in Calls, at[r] = "write"
    PROVE  Fresh(asks[r].kind, "write", todo[r], NewRows(r))
<1> DEFINE new == NewRows(r)
           rows == LinkDB!View(r)
<1>1. ReqOK(r) /\ AskOK(r) /\ RowsOK(r) /\ ContentsOK(r)
  BY DEF Inv, ReqOK
<1>2. rows \in SUBSET LinkRow /\ \A row, other \in rows : SameLink(row, other) => row = other
  BY ViewFacts
<1>3. CASE NewRows(r) = adds[r]
  BY <1>1, <1>3 DEF RowsOK, Placed, KeysOK, SymmetricOK, Fresh
<1>4. CASE asks[r].kind = "merge pools"
  <2>1. PICK S \in SUBSET PostIds : \E list \in Lists(S) : adds[r] = AddedPosts(asks[r].to, 0, list)
    BY <1>1, <1>4 DEF ContentsOK, MergePoolsOK
  <2>2. PICK list \in Lists(S) : adds[r] = AddedPosts(asks[r].to, 0, list)
    BY <2>1
  <2>3. PICK n \in Nat : n = Cardinality(Members(rows, asks[r].to))
    BY <1>2, MembersFinite
  <2>4. asks[r].to \in PoolIds
    BY <1>1, <1>4 DEF AskOK
  <2>5. NewRows(r) = AddedPosts(asks[r].to, n, list)
    BY <1>4, <2>2, <2>3, <2>4, NewRowsByKind, Renumbered
  <2>6. Head(todo[r]) = "pool_post"
    BY <1>1, <1>4, AtTable
  <2>7. /\ new \subseteq LinkRow /\ Symmetric(new)
        /\ \A row \in new : row.table = "pool_post"
        /\ \A row, other \in new : SameLink(row, other) => row = other
    BY <2>4, <2>5, AddedFacts
  <2> QED
    BY <2>6, <2>7 DEF Fresh
<1>5. CASE asks[r].kind = "merge posts" /\ Head(todo[r]) = "remark"
  <2> DEFINE found == drops[r] \cap rows
  <2>1. new = {Remark(asks[r].to, row.text) : row \in found}
    BY <1>5, NewRowsByKind
  <2>2. \A row \in found : row \in LinkRow /\ row.table = "remark"
    BY <1>1, <1>2, <1>5 DEF RowsOK, Placed
  <2>3. \A row \in found : row.text \in Texts
    BY <2>2, RowShapes
  <2>4. asks[r].to \in PostIds
    BY <1>1, <1>5 DEF AskOK
  <2> HIDE DEF found, new
  <2>5. new \subseteq LinkRow
    BY <2>1, <2>3, <2>4, RowTypes
  <2>6. ASSUME NEW row \in new PROVE row.table = "remark"
    <3>1. PICK text : row = Remark(asks[r].to, text)
      BY <2>1
    <3> QED
      BY <3>1, Rows
  <2>7. \A row, other \in new : SameLink(row, other) => row = other
    BY <2>6, Keys
  <2>8. Symmetric(new)
    BY <2>6, NoRelations
  <2> QED
    BY <1>5, <2>5, <2>6, <2>7, <2>8 DEF Fresh, new
<1> QED
  BY <1>3, <1>4, <1>5, NewRowsByKind

-----------------------------------------------------------------------------
(* A table is changed.                                                      *)

\* The rows r deletes of those it found.
Gone(r) == drops[r] \cap links

Done(r, new) ==
    /\ at[r] = "write" /\ todo[r] \in Plan(asks[r].kind)
    /\ at'[r] = NextLabel(todo'[r]) /\ todo'[r] = Tail(todo[r])
    /\ asks' = asks /\ links' = links /\ stale' = stale
    /\ put'[r] = put[r] \cup new /\ cut'[r] = cut[r] \cup Gone(r)
    /\ adds'[r] = {} /\ drops'[r] = {}

\* The rows it deletes are committed ones, of a table it has not changed yet.
LEMMA GoneFacts ==
    ASSUME Inv, NEW r \in Calls, at[r] = "write"
    PROVE  /\ drops[r] \cap LinkDB!View(r) = Gone(r)
           /\ Gone(r) \cap cut[r] = {} /\ Gone(r) \cap put[r] = {}
           /\ \A row \in Gone(r) : row.table = Head(todo[r]) /\ row.table \in Tables
           /\ Symmetric(Gone(r)) /\ Gone(r) \subseteq LinkRow
<1>1. RowsOK(r) /\ AskOK(r) /\ Placed(r)
  BY DEF Inv, ReqOK, RowsOK
<1>2. todo[r] \in Plan(asks[r].kind)
  BY <1>1 DEF AskOK
<1>3. Head(todo[r]) \in Contents(todo[r]) /\ Contents(todo[r]) \subseteq Tables
  BY <1>2, PlanAt
<1>4. \A row \in drops[r] : row.table = Head(todo[r])
  BY <1>1 DEF Placed
<1>5. \A row \in put[r] \cup cut[r] : row.table \notin Contents(todo[r])
  BY <1>1 DEF Placed
<1>6. drops[r] \cap put[r] = {} /\ drops[r] \cap cut[r] = {}
  BY <1>3, <1>4, <1>5
<1>7. drops[r] \cap LinkDB!View(r) = Gone(r)
  BY <1>6 DEF LinkDB!View, Gone
<1>8. Symmetric(Gone(r))
  BY <1>1 DEF Inv, RowsRegular, RowsOK, SymmetricOK, Symmetric, Gone
<1> QED
  BY <1>1, <1>3, <1>4, <1>6, <1>7, <1>8 DEF Gone, Placed

LEMMA WriteDoes ==
    ASSUME Inv, NEW r \in Calls, Write(r)
    PROVE  LET new == NewRows(r)
           IN  /\ Done(r, new) /\ \A q \in Calls \ {r} : Same(q)
               /\ Bounds' /\ Shapes'
               /\ LinkDB!Deletable(r, Gone(r)) /\ LinkDB!Insertable(r, new)
               /\ LinkDB!Accepted(LinkDB!View(r) \ Gone(r), new)
<1> DEFINE new == NewRows(r)
<1>1. AskOK(r) /\ at[r] = "write"
  BY DEF Inv, ReqOK, Write
<1>2. drops[r] \cap LinkDB!View(r) = Gone(r) /\ Gone(r) \cap put[r] = {} /\ Gone(r) \subseteq links
  BY <1>1, GoneFacts DEF Gone
<1>3. LinkDB!Replace(r, drops[r], new)
  BY DEF Write
<1> HIDE DEF new
<1>4. /\ LinkDB!Deletable(r, Gone(r)) /\ LinkDB!Insertable(r, new)
      /\ LinkDB!Accepted(LinkDB!View(r) \ Gone(r), new)
      /\ put' = [put EXCEPT ![r] = (@ \ Gone(r)) \cup new]
      /\ cut' = [cut EXCEPT ![r] = @ \cup (Gone(r) \cap links)]
      /\ links' = links
  BY <1>2, <1>3 DEF LinkDB!Replace
<1>5. /\ at' = [at EXCEPT ![r] = NextLabel(Tail(todo[r]))]
      /\ todo' = [todo EXCEPT ![r] = Tail(@)]
      /\ adds' = [adds EXCEPT ![r] = {}] /\ drops' = [drops EXCEPT ![r] = {}]
      /\ UNCHANGED <<drawn, came, asks, stale, uneven>>
  BY DEF Write, MoveTo
<1>6. todo[r] \in Plan(asks[r].kind)
  BY <1>1 DEF AskOK
<1>7. Done(r, new) /\ \A q \in Calls \ {r} : Same(q)
  <2>1. put'[r] = put[r] \cup new /\ cut'[r] = cut[r] \cup Gone(r)
    BY <1>2, <1>4 DEF Inv, Shapes
  <2> QED
    BY <1>1, <1>4, <1>5, <1>6, <2>1 DEF Inv, Bounds, Shapes, Done, Same
<1>8. Shapes' /\ Bounds'
  BY <1>4, <1>5 DEF Inv, Bounds, Shapes, Labels, NextLabel
<1> QED
  BY <1>4, <1>7, <1>8 DEF new

\* What the statement leaves of the rows r sees.
LEMMA WriteRows ==
    ASSUME Inv, NEW r \in Calls, Write(r)
    PROVE  RowsOK(r)' /\ Apart'
<1> DEFINE new == NewRows(r)
<1>1. /\ Done(r, new) /\ \A q \in Calls \ {r} : Same(q)
      /\ LinkDB!Deletable(r, Gone(r)) /\ LinkDB!Insertable(r, new)
      /\ LinkDB!Accepted(LinkDB!View(r) \ Gone(r), new)
  BY WriteDoes
<1>2. Fresh(asks[r].kind, "write", todo[r], new)
  BY <1>1, NewRowsFacts DEF Done
<1> HIDE DEF new
<1>3. RowsOK(r) /\ AskOK(r) /\ at[r] = "write"
  BY <1>1 DEF Inv, ReqOK, Done
<1>4. /\ Gone(r) \cap cut[r] = {} /\ Gone(r) \cap put[r] = {}
      /\ \A row \in Gone(r) : row.table = Head(todo[r]) /\ row.table \in Tables
      /\ Symmetric(Gone(r)) /\ Gone(r) \subseteq LinkRow
  BY <1>3, GoneFacts
<1>5. /\ Head(todo[r]) \in Contents(todo[r]) /\ Head(todo[r]) \in KindTables(asks[r].kind)
      /\ Contents(todo'[r]) = Contents(todo[r]) \ {Head(todo[r])}
      /\ Contents(todo[r]) \subseteq Tables
      /\ asks[r].kind # "merge posts" => todo'[r] = <<>>
  BY <1>1, PlanAt DEF Done
<1>6. asks[r].kind # "merge posts" => at'[r] = "commit"
  BY <1>1, <1>5 DEF Done, NextLabel
<1>7. Placed(r)'
  <2>1. put'[r] \cup cut'[r] \cup adds'[r] \cup drops'[r] \subseteq LinkRow
    BY <1>1, <1>2, <1>3, <1>4 DEF Done, RowsOK, Placed, Fresh
  <2>2. ASSUME NEW row \in put'[r] \cup cut'[r]
        PROVE  row.table \in KindTables(asks[r].kind) \ Contents(todo'[r])
    <3>1. CASE row \in put[r] \cup cut[r]
      BY <1>3, <1>5, <3>1 DEF RowsOK, Placed
    <3>2. CASE row \in new
      BY <1>2, <1>5, <3>2 DEF Fresh, Tables
    <3>3. CASE row \in Gone(r)
      BY <1>4, <1>5, <3>3
    <3> QED
      BY <1>1, <3>1, <3>2, <3>3 DEF Done
  <2>3. \A row \in cut'[r] : row.table \in Tables
    BY <1>1, <1>3, <1>4 DEF Done, RowsOK, Placed
  <2> QED
    BY <1>1, <1>6, <2>1, <2>2, <2>3 DEF Placed, Done
<1>8. KeysOK(r)'
  <2>1. ASSUME NEW row \in put'[r], NEW other \in links \ cut'[r]
        PROVE  ~SameLink(row, other)
    <3>1. other \in links \ cut[r] /\ other \in LinkDB!View(r) \ Gone(r)
      BY <1>1, <2>1 DEF Done, LinkDB!View
    <3>2. CASE row \in put[r]
      BY <1>3, <3>1, <3>2 DEF RowsOK, KeysOK
    <3>3. CASE row \in new
      BY <1>1, <3>1, <3>3 DEF LinkDB!Accepted
    <3> QED
      BY <1>1, <3>2, <3>3 DEF Done
  <2>2. ASSUME NEW row \in new, NEW other \in put[r] PROVE ~SameLink(row, other)
    BY <1>1, <1>4, <2>2 DEF LinkDB!Accepted, LinkDB!View
  <2>3. \A row, other \in put'[r] : SameLink(row, other) => row = other
    BY <1>1, <1>2, <1>3, <2>2, Keys DEF Done, RowsOK, KeysOK, Fresh
  <2> QED
    BY <1>1, <2>1, <2>3 DEF KeysOK, Done
<1>9. ParentsOK(r)'
  <2>1. LinkDB!View(r)' = (LinkDB!View(r) \ Gone(r)) \cup new
    BY <1>1, <1>4 DEF Done, LinkDB!View
  <2>2. ASSUME NEW row \in put[r] PROVE LinkParents(row) \subseteq LinkDB!View(r) \ Gone(r)
    <3>1. LinkParents(row) \subseteq LinkDB!View(r)
      BY <1>3, <2>2 DEF RowsOK, ParentsOK
    <3>2. \A parent \in LinkParents(row) : parent.table \in {"post", "pool"}
      BY ParentRows
    <3> QED
      BY <1>4, <3>1, <3>2 DEF Tables
  <2>3. ASSUME NEW row \in new PROVE LinkParents(row) \subseteq LinkDB!View(r)'
    BY <1>1, <2>1, <2>3 DEF LinkDB!Accepted
  <2> QED
    BY <1>1, <2>1, <2>2, <2>3 DEF ParentsOK, Done
<1>10. SymmetricOK(r)'
  BY <1>1, <1>2, <1>3, <1>4 DEF SymmetricOK, Symmetric, RowsOK, Done, Fresh
<1>11. Apart'
  <2>1. ASSUME NEW s \in Calls \ {r}
        PROVE  /\ put'[s] = put[s] /\ cut'[s] = cut[s]
               /\ \A row \in put'[r], other \in put[s] \cup cut[s] : ~SameLink(row, other)
               /\ \A row \in put[s], other \in put'[r] \cup cut'[r] : ~SameLink(row, other)
    <3>1. put'[s] = put[s] /\ cut'[s] = cut[s]
      BY <1>1 DEF Same
    <3>2. \A row \in new, other \in put[s] \cup cut[s] : ~SameLink(row, other)
      BY <1>1 DEF LinkDB!Insertable
    <3>3. /\ \A row \in put[r], other \in put[s] \cup cut[s] : ~SameLink(row, other)
          /\ \A row \in put[s], other \in put[r] \cup cut[r] : ~SameLink(row, other)
      BY DEF Inv, Apart
    <3>4. \A row \in put[s], other \in Gone(r) : ~SameLink(row, other)
      <4>1. Gone(r) \cap cut[s] = {} /\ Gone(r) \subseteq links
        BY <1>1 DEF LinkDB!Deletable, Gone
      <4>2. \A row \in put[s], other \in links \ cut[s] : ~SameLink(row, other)
        BY DEF Inv, ReqOK, RowsOK, KeysOK
      <4> QED
        BY <4>1, <4>2
    <3>5. \A row \in put[s], other \in new : ~SameLink(row, other)
      BY <3>2, Keys
    <3>6. put'[r] = put[r] \cup new /\ cut'[r] = cut[r] \cup Gone(r)
      BY <1>1 DEF Done
    <3> QED
      BY <3>1, <3>2, <3>3, <3>4, <3>5, <3>6
  <2>2. \A s, q \in Calls \ {r} : s # q =>
            \A row \in put'[s], other \in put'[q] \cup cut'[q] : ~SameLink(row, other)
    BY <2>1 DEF Inv, Apart
  <2> QED
    BY <2>1, <2>2 DEF Apart
<1> QED
  BY <1>7, <1>8, <1>9, <1>10, <1>11 DEF RowsOK

\* What the statement leaves of contents.
LEMMA WriteContents ==
    ASSUME Inv, NEW r \in Calls, Write(r)
    PROVE  ContentsOK(r)'
<1> DEFINE new == NewRows(r)
<1>1. Done(r, new)
  BY WriteDoes
<1> HIDE DEF new
<1>2. ReqOK(r) /\ AskOK(r) /\ ContentsOK(r) /\ RowsOK(r) /\ Placed(r) /\ at[r] = "write"
  BY <1>1 DEF Inv, ReqOK, RowsOK, Done
<1>3. asks[r].kind # "merge posts" =>
          /\ put'[r] = new /\ cut'[r] = Gone(r)
          /\ LinkDB!View(r) = links /\ at'[r] = "commit"
  <2>1. SUFFICES ASSUME asks[r].kind # "merge posts"
                 PROVE  /\ put'[r] = new /\ cut'[r] = Gone(r)
                        /\ LinkDB!View(r) = links /\ at'[r] = "commit"
    OBVIOUS
  <2>2. put[r] = {} /\ cut[r] = {} /\ LinkDB!View(r) = links
    BY <1>2, <2>1, ViewUnchanged
  <2>3. todo'[r] = <<>>
    BY <1>1, <1>2, <2>1, AtTable DEF Done
  <2> QED
    BY <1>1, <2>2, <2>3 DEF Done, NextLabel
<1>4. CASE asks[r].kind = "relate"
  <2>1. new = adds[r]
    BY <1>4, NewRowsByKind DEF new
  <2>2. RelateOK(r)'
    BY <1>1, <1>2, <1>3, <1>4, <2>1 DEF ContentsOK, RelateOK, Done, Gone, Touching, Of
  <2> QED
    BY <1>1, <1>4, <2>2 DEF Done, ContentsOK, EditOK, CreateOK, MergePoolsOK, MergePostsOK
<1>5. CASE asks[r].kind = "edit pool"
  <2>1. new = adds[r]
    BY <1>5, NewRowsByKind DEF new
  <2>2. Edited(r)' = Edited(r) /\ asks'[r] = asks[r] /\ at'[r] = "commit"
    BY <1>1, <1>3, <1>5 DEF Edited, Done
  <2>3. "pool_post" \notin stale[r] => cut'[r] = Members(links, asks[r].pool)
    BY <1>2, <1>3, <1>5 DEF ContentsOK, EditOK, Gone, Members, Of
  <2>4. "pool_post" \notin stale[r] =>
            \E list \in Lists(Edited(r)) : put'[r] = AddedPosts(asks[r].pool, 0, list)
    BY <1>2, <1>3, <1>5, <2>1 DEF ContentsOK, EditOK
  <2>5. EditOK(r)'
    BY <1>1, <2>2, <2>3, <2>4 DEF EditOK, Done
  <2> QED
    BY <1>1, <1>5, <2>5 DEF Done, ContentsOK, RelateOK, CreateOK, MergePoolsOK, MergePostsOK
<1>6. CASE asks[r].kind = "create pool"
  <2>1. new = adds[r]
    BY <1>6, NewRowsByKind DEF new
  <2>2. drops[r] = {}
    BY <1>2, <1>6 DEF Placed
  <2>3. cut'[r] = {} /\ put'[r] = adds[r] /\ at'[r] = "commit"
    BY <1>3, <1>6, <2>1, <2>2 DEF Gone
  <2>4. CreateOK(r)'
    BY <1>1, <1>2, <1>6, <2>3 DEF ContentsOK, CreateOK, Done
  <2> QED
    BY <1>1, <1>6, <2>4 DEF Done, ContentsOK, RelateOK, EditOK, MergePoolsOK, MergePostsOK
<1>7. CASE asks[r].kind = "merge pools"
  <2> DEFINE k == asks[r].to
             n == Cardinality(Members(links, k))
  <2>1. drops[r] = {}
    BY <1>2, <1>7 DEF Placed
  <2>2. cut'[r] = {} /\ put'[r] = new /\ at'[r] = "commit"
    BY <1>3, <1>7, <2>1 DEF Gone
  <2>3. n \in Nat
    BY MembersFinite DEF Inv, Sound
  <2>4. k \in PoolIds /\ asks'[r] = asks[r] /\ links' = links /\ stale' = stale
    BY <1>1, <1>2, <1>7 DEF AskOK, Done
  <2>5. ASSUME "pool_post" \notin stale[r]
        PROVE  \E list \in Listed(links, asks[r].absorbed, NewPosts(r)) :
                   put'[r] = AddedPosts(k, n, list)
    <3>1. PICK S \in SUBSET PostIds : \E list \in Lists(S) :
              /\ adds[r] = AddedPosts(k, 0, list)
              /\ S = NewPosts(r) /\ list \in Listed(links, asks[r].absorbed, S)
      BY <1>2, <1>7, <2>5 DEF ContentsOK, MergePoolsOK
    <3>2. PICK list \in Lists(S) :
              /\ adds[r] = AddedPosts(k, 0, list)
              /\ S = NewPosts(r) /\ list \in Listed(links, asks[r].absorbed, S)
      BY <3>1
    <3>3. PICK m \in Nat : m = Cardinality(Members(LinkDB!View(r), asks[r].to))
      BY <1>3, <1>7, <2>3
    <3>4. new = AddedPosts(asks[r].to, m, list)
      BY <1>7, <2>4, <3>2, <3>3, NewRowsByKind, Renumbered DEF new
    <3>5. m = n
      BY <1>3, <1>7, <3>3
    <3> QED
      BY <2>2, <3>2, <3>4, <3>5
  <2>6. NewPosts(r)' = NewPosts(r)
    BY <2>4 DEF NewPosts
  <2>7. MergePoolsOK(r)'
    BY <1>7, <2>2, <2>4, <2>5, <2>6 DEF MergePoolsOK
  <2> QED
    BY <1>1, <1>7, <2>7 DEF Done, ContentsOK, RelateOK, EditOK, CreateOK, MergePostsOK
<1>8. CASE asks[r].kind = "merge posts"
  <2> DEFINE table == Head(todo[r])
  <2>1. /\ MergeRelations(r) /\ MergeMarks(r) /\ MergePlaces(r) /\ MergeRemarks(r)
        /\ todo[r] \in Plan("merge posts")
    BY <1>1, <1>2, <1>8 DEF ContentsOK, MergePostsOK, Done
  <2>2. /\ todo[r] \in {AllTables, Later, Last, Remarks}
        /\ table = "post_relation" <=> todo[r] = AllTables
        /\ table = "mark" <=> todo[r] = Later
        /\ table = "pool_post" <=> todo[r] = Last
        /\ table = "remark" <=> todo[r] = Remarks
        /\ table \in Contents(todo[r])
    BY <2>1, MergeAt
  <2>3. /\ todo[r] = AllTables => todo'[r] = Later
        /\ todo[r] = Later => todo'[r] = Last
        /\ todo[r] = Last => todo'[r] = Remarks
        /\ todo[r] = Remarks => todo'[r] = <<>>
    BY <1>1, ListsOfTables DEF Done, Remarks
  <2>4. at'[r] # "write"
    BY <1>1 DEF Done, NextLabel
  <2>5. Of(put[r], table) = {} /\ Of(cut[r], table) = {}
    BY <1>2, <2>2, ViewUnchanged
  <2>6. \A row \in new : row.table = table
    <3>1. KindTables("merge posts") \cap {"post", "pool"} = {}
      BY DEF KindTables, Tables
    <3> QED
      BY <1>2, <1>8, <3>1, NewRowsFacts DEF Fresh, new
  <2>7. \A row \in Gone(r) : row.table = table
    BY <1>2, GoneFacts
  <2>8. /\ Of(put'[r], table) = new /\ Of(cut'[r], table) = Gone(r)
        /\ \A t \in Tables \ {table} : Of(put'[r], t) = Of(put[r], t) /\ Of(cut'[r], t) = Of(cut[r], t)
    <3> HIDE DEF table
    <3> QED
      BY <1>1, <2>5, <2>6, <2>7 DEF Of, Done
  <2>9. /\ \A t : Merged(r, t)' = Merged(r, t)
         /\ OldRemarks(r)' = OldRemarks(r) /\ asks'[r] = asks[r] /\ links' = links /\ stale' = stale
    BY <1>1 DEF Merged, OldRemarks, Done
  <2>10. table # "remark" => new = adds[r]
    BY <1>8, NewRowsByKind DEF new
  <2>11. table \in {"mark", "pool_post"} => Gone(r) = {}
    BY <1>2, <1>8, <2>2, ListsDiffer DEF Placed, Gone
  <2> HIDE DEF table
  <2>12. MergeRelations(r)'
    <3>1. CASE todo[r] = AllTables /\ "post_relation" \notin stale[r]
      <4>1. adds[r] = Merged(r, "post_relation") /\ drops[r] = Touching(links, {asks[r].to})
        BY <1>2, <2>1, <3>1 DEF MergeRelations
      <4>2. Gone(r) = drops[r]
        BY <4>1 DEF Gone, Touching, Of
      <4>3. table = "post_relation" /\ new = adds[r] /\ todo'[r] = Later
        BY <2>2, <2>3, <2>10, <3>1
      <4>4. /\ Of(put'[r], "post_relation") = Merged(r, "post_relation")
            /\ Of(cut'[r], "post_relation") = Touching(links, {asks[r].to})
        BY <2>8, <4>1, <4>2, <4>3
      <4> QED
        BY <2>4, <2>9, <4>3, <4>4, ListsDiffer DEF MergeRelations
    <3>2. CASE todo[r] # AllTables
      BY <2>1, <2>2, <2>3, <2>4, <2>8, <2>9, <3>2, ListsDiffer DEF MergeRelations, Tables
    <3>3. CASE "post_relation" \in stale[r]
      BY <2>9, <3>3 DEF MergeRelations
    <3> QED
      BY <3>1, <3>2, <3>3
  <2>13. MergeMarks(r)'
    <3>1. CASE todo[r] = Later
      BY <1>2, <2>1, <2>2, <2>3, <2>4, <2>8, <2>9, <2>10, <2>11, <3>1, ListsDiffer DEF MergeMarks
    <3>2. CASE todo[r] # Later
      BY <2>1, <2>2, <2>3, <2>4, <2>8, <2>9, <3>2, ListsDiffer DEF MergeMarks, Tables
    <3> QED
      BY <3>1, <3>2
  <2>14. MergePlaces(r)'
    <3>1. CASE todo[r] = Last
      BY <1>2, <2>1, <2>2, <2>3, <2>4, <2>8, <2>9, <2>10, <2>11, <3>1, ListsDiffer DEF MergePlaces
    <3>2. CASE todo[r] # Last
      BY <2>1, <2>2, <2>3, <2>4, <2>8, <2>9, <3>2, ListsDiffer DEF MergePlaces, Tables
    <3> QED
      BY <3>1, <3>2
  <2>15. MergeRemarks(r)'
    <3>1. CASE todo[r] = Remarks /\ "remark" \notin stale[r]
      <4>1. drops[r] = OldRemarks(r)
        BY <1>2, <2>1, <3>1 DEF MergeRemarks
      <4>2. drops[r] \cap LinkDB!View(r) = Gone(r) /\ Gone(r) = OldRemarks(r)
        BY <1>2, <4>1, GoneFacts DEF Gone, OldRemarks, Of
      <4>3. new = {Remark(asks[r].to, row.text) : row \in OldRemarks(r)}
        BY <1>8, <2>2, <3>1, <4>2, NewRowsByKind DEF new, table
      <4> QED
        BY <2>2, <2>3, <2>4, <2>8, <2>9, <3>1, <4>2, <4>3 DEF MergeRemarks
    <3>2. CASE todo[r] # Remarks \/ "remark" \in stale[r]
      BY <2>2, <2>3, <2>4, <2>9, <3>2, ListsDiffer DEF MergeRemarks
    <3> QED
      BY <3>1, <3>2
  <2> QED
    BY <1>8, <2>9, <2>12, <2>13, <2>14, <2>15
       DEF ContentsOK, RelateOK, EditOK, CreateOK, MergePoolsOK, MergePostsOK
<1>9. CASE asks[r].kind \in {"upload", "mark", "remark"}
  BY <1>1, <1>9 DEF Done, ContentsOK, RelateOK, EditOK, CreateOK, MergePoolsOK, MergePostsOK
<1> QED
  BY <1>1, <1>4, <1>5, <1>6, <1>7, <1>8, <1>9 DEF Done, Plan

LEMMA WriteStep ==
    ASSUME Inv, NEW r \in Calls, Write(r)
    PROVE  Inv'
<1> DEFINE new == NewRows(r)
<1>1. Done(r, new) /\ (\A q \in Calls \ {r} : Same(q)) /\ Bounds' /\ Shapes'
  BY WriteDoes
<1> HIDE DEF new
<1>2. RowsOK(r)' /\ Apart' /\ ContentsOK(r)'
  BY WriteRows, WriteContents
<1>3. AskOK(r)'
  <2>1. AskOK(r) /\ at[r] = "write" /\ todo[r] \in Plan(asks[r].kind) /\ asks' = asks
    BY <1>1 DEF Inv, ReqOK, Done
  <2>2. CASE asks[r].kind # "merge posts"
    <3>1. todo'[r] = <<>> /\ at'[r] = "commit"
      BY <1>1, <2>1, <2>2, AtTable DEF Done, NextLabel
    <3> QED
      BY <2>1, <3>1 DEF AskOK
  <2>3. CASE asks[r].kind = "merge posts"
    <3>1. todo[r] \in {AllTables, Later, Last, Remarks} /\ todo'[r] = Tail(todo[r])
      BY <1>1, <2>1, <2>3, MergeAt DEF Done
    <3>2. todo'[r] \in {Later, Last, Remarks, <<>>}
      BY <3>1, ListsOfTables DEF Remarks
    <3>3. /\ todo'[r] = <<>> => at'[r] = "commit"
          /\ todo'[r] = Remarks => at'[r] = "find"
          /\ todo'[r] \in {Later, Last} => at'[r] = "load"
      BY <1>1, ListsDiffer, ListsOfTables DEF Done, NextLabel, Remarks
    <3>4. {Later, Last, Remarks} \subseteq Plan("merge posts")
      BY DEF Plan
    <3> QED
      BY <2>1, <2>3, <3>2, <3>3, <3>4, ListsDiffer DEF AskOK
  <2> QED
    BY <2>2, <2>3
<1> QED
  BY <1>1, <1>2, <1>3, OneChanged DEF ReqOK, Done, Write

-----------------------------------------------------------------------------
(* Requests end.                                                            *)

LEMMA Finished ==
    ASSUME NEW r \in Calls, at'[r] = "idle", asks'[r] = NoCall, todo'[r] = <<>>,
           adds'[r] = {}, drops'[r] = {}, put'[r] = {}, cut'[r] = {}
    PROVE  ReqOK(r)'
<1>1. NoCall.kind = "none"
  BY DEF NoCall
<1>2. asks'[r].kind = "none"
  BY <1>1
<1>3. AskOK(r)'
  BY <1>2 DEF AskOK
<1>4. RowsOK(r)'
  BY <1>2 DEF RowsOK, Placed, KeysOK, ParentsOK, SymmetricOK, Symmetric
<1>5. ContentsOK(r)'
  BY <1>2 DEF ContentsOK, RelateOK, EditOK, CreateOK, MergePoolsOK, MergePostsOK
<1> QED
  BY <1>3, <1>4, <1>5 DEF ReqOK

LEMMA AbortStep ==
    ASSUME Inv, NEW r \in Calls, AbortLinks(r)
    PROVE  Inv'
<1>1. /\ put' = [put EXCEPT ![r] = {}] /\ cut' = [cut EXCEPT ![r] = {}] /\ links' = links
      /\ at' = [at EXCEPT ![r] = "idle"] /\ asks' = [asks EXCEPT ![r] = NoCall]
      /\ todo' = [todo EXCEPT ![r] = <<>>] /\ adds' = [adds EXCEPT ![r] = {}]
      /\ drops' = [drops EXCEPT ![r] = {}] /\ stale' = [stale EXCEPT ![r] = {}]
      /\ UNCHANGED <<drawn, came, uneven>>
  BY DEF AbortLinks, LinkDB!Rollback, LinkDB!Forget, Finish, MoveTo
<1>2. /\ at'[r] = "idle" /\ asks'[r] = NoCall /\ todo'[r] = <<>>
      /\ adds'[r] = {} /\ drops'[r] = {} /\ put'[r] = {} /\ cut'[r] = {}
      /\ \A q \in Calls \ {r} : Same(q)
  BY <1>1 DEF Inv, Bounds, Shapes, Same
<1>3. ReqOK(r)'
  BY <1>2, Finished
<1>4. Bounds' /\ Shapes'
  BY <1>1 DEF Inv, Bounds, Shapes, Labels
<1>5. Apart'
  BY <1>2 DEF Inv, Apart, Same
<1> QED
  BY <1>1, <1>2, <1>3, <1>4, <1>5, OneChanged

\* The rows a commit changes.
Touched(r) == put[r] \cup cut[r] \cup LinkDB!Cascade(r, Doomed(r))

\* Those that go with the last DELETE.
Fallen(r) == LinkDB!Cascade(r, Doomed(r) \cap LinkDB!View(r))

Committed(r) ==
    /\ at[r] = "commit" /\ links' = LinkDB!View(r) \ Fallen(r)
    /\ at'[r] = "idle" /\ asks'[r] = NoCall /\ todo'[r] = <<>>
    /\ adds'[r] = {} /\ drops'[r] = {} /\ put'[r] = {} /\ cut'[r] = {}
    /\ \A q \in Calls \ {r} :
          /\ at'[q] = at[q] /\ asks'[q] = asks[q] /\ todo'[q] = todo[q] /\ adds'[q] = adds[q]
          /\ put'[q] = put[q] /\ cut'[q] = cut[q]
          /\ drops'[q] = drops[q] \ Touched(r)
          /\ stale'[q] = IF at[q] = "idle" THEN stale[q]
                         ELSE stale[q] \cup ({row.table : row \in Touched(r)} \cap Tables)

LEMMA CommitDoes ==
    ASSUME Inv, NEW r \in Calls, CommitLinks(r)
    PROVE  Committed(r) /\ LinkDB!Deletable(r, Fallen(r)) /\ Bounds' /\ Shapes'
<1> DEFINE touched == Touched(r)
<1>1. /\ put' = [put EXCEPT ![r] = {}] /\ cut' = [cut EXCEPT ![r] = {}]
      /\ links' = LinkDB!View(r) \ Fallen(r) /\ LinkDB!Deletable(r, Fallen(r))
  BY DEF CommitLinks, LinkDB!Publish, LinkDB!Forget, Fallen
<1>2. /\ at[r] = "commit"
      /\ at' = [at EXCEPT ![r] = "idle"] /\ asks' = [asks EXCEPT ![r] = NoCall]
      /\ todo' = [todo EXCEPT ![r] = <<>>] /\ adds' = [adds EXCEPT ![r] = {}]
      /\ UNCHANGED <<drawn, came>>
  BY DEF CommitLinks, Finish, MoveTo
<1>3. /\ drops' = [s \in Calls |-> IF s = r THEN {} ELSE drops[s] \ touched]
      /\ stale' = [s \in Calls |->
            IF s = r THEN {} ELSE IF at[s] = "idle" THEN stale[s]
            ELSE stale[s] \cup ({row.table : row \in touched} \cap Tables)]
      /\ uneven' \subseteq PoolIds
  BY DEF CommitLinks, Touched
<1> HIDE DEF touched
<1>4. Committed(r)
  <2>1. /\ at'[r] = "idle" /\ asks'[r] = NoCall /\ todo'[r] = <<>>
        /\ adds'[r] = {} /\ drops'[r] = {} /\ put'[r] = {} /\ cut'[r] = {}
    BY <1>1, <1>2, <1>3 DEF Inv, Bounds, Shapes
  <2>2. ASSUME NEW q \in Calls \ {r}
        PROVE  /\ at'[q] = at[q] /\ asks'[q] = asks[q] /\ todo'[q] = todo[q] /\ adds'[q] = adds[q]
               /\ put'[q] = put[q] /\ cut'[q] = cut[q]
               /\ drops'[q] = drops[q] \ touched
               /\ stale'[q] = IF at[q] = "idle" THEN stale[q]
                              ELSE stale[q] \cup ({row.table : row \in touched} \cap Tables)
    BY <1>1, <1>2, <1>3 DEF Inv, Bounds, Shapes
  <2> QED
    BY <1>1, <1>2, <2>1, <2>2 DEF Committed, touched
<1>5. Shapes'
  BY <1>1, <1>2, <1>3 DEF Inv, Shapes
<1>6. Bounds'
  <2>1. stale' \in [Calls -> SUBSET Tables]
    BY <1>3 DEF Inv, Bounds
  <2> QED
    BY <1>2, <1>3, <2>1 DEF Inv, Bounds, Labels
<1> QED
  BY <1>1, <1>4, <1>5, <1>6

LEMMA DoomedFacts ==
    ASSUME Inv, NEW r \in Calls
    PROVE  \A row \in Doomed(r) : row.table \in {"post", "pool", "mark", "remark"}
<1>1. AskOK(r)
  BY DEF Inv, ReqOK
<1>2. CASE asks[r].kind = "merge posts"
  <2>1. Doomed(r) = {PostRow(asks[r].absorbed)}
    BY <1>2 DEF Doomed
  <2> QED
    BY <2>1, Rows
<1>3. CASE asks[r].kind = "merge pools"
  <2>1. Doomed(r) = {PoolRow(asks[r].absorbed)}
    BY <1>3 DEF Doomed
  <2> QED
    BY <2>1, Rows
<1>4. CASE asks[r].kind = "delete"
  BY <1>1, <1>4 DEF Doomed, AskOK
<1> QED
  BY <1>2, <1>3, <1>4 DEF Doomed

\* What falls are rows r sees, with all that refers to them, relations both ways.
LEMMA FallenFacts ==
    ASSUME Inv, NEW r \in Calls
    PROVE  /\ Fallen(r) \subseteq LinkDB!View(r) /\ Fallen(r) \subseteq Touched(r)
           /\ \A row \in LinkDB!View(r) \ Fallen(r) : \A parent \in LinkParents(row) : parent \notin Fallen(r)
           /\ Symmetric(Fallen(r)) /\ Symmetric(Touched(r))
<1> DEFINE rows == LinkDB!View(r)
           doomed == Doomed(r)
<1>1. rows \in SUBSET LinkRow /\ Symmetric(rows)
  BY ViewFacts
<1>2. \A row \in doomed : row.table \in {"post", "pool", "mark", "remark"}
  BY DoomedFacts
<1>3. Fallen(r) = (doomed \cap rows) \cup {row \in rows : LinkParents(row) \cap (doomed \cap rows) # {}}
  BY DEF Fallen, LinkDB!Cascade
<1>4. LinkDB!Cascade(r, doomed) = doomed \cup {row \in rows : LinkParents(row) \cap doomed # {}}
  BY DEF LinkDB!Cascade
<1>5. Fallen(r) \subseteq LinkDB!Cascade(r, doomed) /\ Fallen(r) \subseteq rows
  BY <1>3, <1>4
<1>6. ASSUME NEW row \in rows \ Fallen(r), NEW parent \in LinkParents(row)
      PROVE  parent \notin Fallen(r)
  <2>1. parent.table \in {"post", "pool"} /\ LinkParents(parent) = {}
    BY ParentRows
  <2>2. parent \notin doomed \cap rows
    BY <1>3
  <2> QED
    BY <1>3, <2>1, <2>2
<1>7. \A p, c : /\ Related(p, c).table = "post_relation"
                /\ LinkParents(Related(p, c)) = LinkParents(Related(c, p))
  <2> TAKE p, c
  <2>1. /\ Related(p, c).table = "post_relation" /\ Related(c, p).table = "post_relation"
        /\ Related(p, c).parent = p /\ Related(p, c).child = c
        /\ Related(c, p).parent = c /\ Related(c, p).child = p
    BY Rows
  <2>2. LinkParents(Related(p, c)) = {PostRow(p), PostRow(c)}
           /\ LinkParents(Related(c, p)) = {PostRow(c), PostRow(p)}
    BY <2>1, ParentRows
  <2> QED
    BY <2>1, <2>2
<1> HIDE DEF rows, doomed
<1>8. \A p, c : Related(p, c) \notin doomed
  BY <1>2, <1>7
<1>9. Symmetric(Fallen(r))
  BY <1>1, <1>3, <1>7, <1>8 DEF Symmetric
<1>10. Symmetric(LinkDB!Cascade(r, doomed))
  BY <1>1, <1>4, <1>7, <1>8 DEF Symmetric
<1>11. Symmetric(put[r]) /\ Symmetric(cut[r])
  BY DEF Inv, ReqOK, RowsOK, SymmetricOK
<1>12. Symmetric(Touched(r))
  BY <1>10, <1>11 DEF Symmetric, Touched, doomed
<1> QED
  BY <1>5, <1>6, <1>9, <1>12 DEF rows, doomed, Touched

LEMMA CommitSound ==
    ASSUME Inv, NEW r \in Calls, CommitLinks(r)
    PROVE  Sound(links)' /\ Symmetric(links)'
<1> DEFINE rows == LinkDB!View(r)
<1>1. links' = rows \ Fallen(r)
  BY CommitDoes DEF Committed
<1>2. /\ rows \subseteq LinkRow /\ \A row, other \in rows : SameLink(row, other) => row = other
      /\ Symmetric(rows) /\ Symmetric(Fallen(r))
      /\ \A row \in rows \ Fallen(r) : \A parent \in LinkParents(row) : parent \notin Fallen(r)
  BY ViewFacts, FallenFacts
<1>3. \A row \in rows : LinkParents(row) \subseteq rows
  BY ViewClosed
<1> HIDE DEF rows
<1>4. Sound(links')
  BY <1>1, <1>2, <1>3 DEF Sound
<1>5. Symmetric(links')
  BY <1>1, <1>2 DEF Symmetric
<1> QED
  BY <1>4, <1>5 DEF Sound, Symmetric

LEMMA OthersRows ==
    ASSUME Inv, NEW r \in Calls, CommitLinks(r), NEW q \in Calls \ {r}
    PROVE  AskOK(q)' /\ RowsOK(q)'
<1>1. Committed(r) /\ LinkDB!Deletable(r, Fallen(r))
  BY CommitDoes
<1>2. /\ at'[q] = at[q] /\ asks'[q] = asks[q] /\ todo'[q] = todo[q] /\ adds'[q] = adds[q]
      /\ put'[q] = put[q] /\ cut'[q] = cut[q] /\ drops'[q] = drops[q] \ Touched(r)
      /\ links' = LinkDB!View(r) \ Fallen(r)
  BY <1>1 DEF Committed
<1>3. AskOK(q) /\ RowsOK(q) /\ RowsOK(r) /\ Sound(links) /\ Apart
  BY DEF Inv, ReqOK
<1>4. AskOK(q)'
  BY <1>2, <1>3 DEF AskOK
<1>5. Placed(q)'
  BY <1>2, <1>3 DEF RowsOK, Placed
<1>6. KeysOK(q)'
  <2>1. ASSUME NEW row \in put[q], NEW other \in links' \ cut[q] PROVE ~SameLink(row, other)
    <3>1. CASE other \in put[r]
      BY <1>3, <3>1 DEF Apart
    <3>2. CASE other \in links \ cut[q]
      BY <1>3, <3>2 DEF RowsOK, KeysOK
    <3> QED
      BY <1>2, <3>1, <3>2 DEF LinkDB!View
  <2> QED
    BY <1>2, <1>3, <2>1 DEF RowsOK, KeysOK
<1>7. ParentsOK(q)'
  <2>1. ASSUME NEW row \in put[q], NEW parent \in LinkParents(row)
        PROVE  parent \in (links' \ cut[q]) \cup put[q]
    <3>1. parent \in (links \ cut[q]) \cup put[q]
      BY <1>3 DEF RowsOK, ParentsOK, LinkDB!View
    <3>2. parent \notin Fallen(r)
      BY <1>1 DEF LinkDB!Deletable
    <3>3. parent \notin cut[r]
      <4>1. parent.table \in {"post", "pool"}
        BY ParentRows
      <4> QED
        BY <1>3, <4>1 DEF RowsOK, Placed, Tables
    <3> QED
      BY <1>2, <3>1, <3>2, <3>3 DEF LinkDB!View
  <2> QED
    BY <1>2, <2>1 DEF ParentsOK, LinkDB!View
<1>8. SymmetricOK(q)'
  <2>1. Symmetric(Touched(r))
    BY FallenFacts
  <2> QED
    BY <1>2, <1>3, <2>1 DEF RowsOK, SymmetricOK, Symmetric
<1> QED
  BY <1>4, <1>5, <1>6, <1>7, <1>8 DEF RowsOK

\* What the commit does to a table nobody told q about.
LEMMA OthersTable ==
    ASSUME Inv, NEW r \in Calls, CommitLinks(r), NEW q \in Calls \ {r}, at[q] # "idle",
           NEW table \in Tables, table \notin stale'[q]
    PROVE  /\ table \notin stale[q] /\ Of(links', table) = Of(links, table)
           /\ (\A row \in drops[q] : row.table = table) => drops'[q] = drops[q]
<1>1. /\ stale'[q] = stale[q] \cup ({row.table : row \in Touched(r)} \cap Tables)
      /\ drops'[q] = drops[q] \ Touched(r) /\ links' = LinkDB!View(r) \ Fallen(r)
  BY CommitDoes DEF Committed
<1>2. Fallen(r) \subseteq Touched(r) /\ put[r] \subseteq Touched(r) /\ cut[r] \subseteq Touched(r)
  BY FallenFacts DEF Touched
<1>3. \A row \in Touched(r) : row.table # table
  BY <1>1
<1>4. Of(links', table) = Of(links, table)
  BY <1>1, <1>2, <1>3 DEF Of, LinkDB!View
<1> QED
  BY <1>1, <1>3, <1>4

\* q still knows what it writes to a table that nobody else has changed.
LEMMA OthersLists ==
    ASSUME Inv, NEW r \in Calls, CommitLinks(r), NEW q \in Calls \ {r}, at[q] # "idle"
    PROVE  RelateOK(q)' /\ EditOK(q)' /\ CreateOK(q)' /\ MergePoolsOK(q)'
<1>1. /\ at'[q] = at[q] /\ asks'[q] = asks[q] /\ todo'[q] = todo[q] /\ adds'[q] = adds[q]
      /\ put'[q] = put[q] /\ cut'[q] = cut[q]
  BY CommitDoes DEF Committed
<1>2. AskOK(q) /\ RowsOK(q) /\ Placed(q) /\ ContentsOK(q)
  BY DEF Inv, ReqOK, RowsOK
<1>3. at[q] = "write" /\ asks[q].kind \in {"relate", "edit pool"} =>
          \A row \in drops[q] : row.table = Head(todo[q])
  BY <1>2 DEF Placed
<1>4. RelateOK(q)'
  <2>1. SUFFICES ASSUME asks[q].kind = "relate", "post_relation" \notin stale'[q]
                 PROVE  RelateOK(q)'
    BY <1>1 DEF RelateOK
  <2> DEFINE p == asks[q].post
  <2>2. "post_relation" \in Tables /\ p \in PostIds
    BY <1>2, <2>1 DEF Tables, AskOK
  <2>3. "post_relation" \notin stale[q] /\ Of(links', "post_relation") = Of(links, "post_relation")
    BY <2>1, <2>2, OthersTable
  <2>4. at[q] = "write" => drops'[q] = drops[q]
    BY <1>2, <1>3, <2>1, <2>2, OthersTable, AtTable
  <2>5. /\ RelatedTo(links', p) = RelatedTo(links, p)
        /\ Touching(links', {p}) = Touching(links, {p})
    BY <2>2, <2>3, SameTable
  <2>6. RelateOK(q)
    BY <1>2 DEF ContentsOK
  <2> QED
    BY <1>1, <2>1, <2>3, <2>4, <2>5, <2>6 DEF RelateOK
<1>5. EditOK(q)'
  <2>1. SUFFICES ASSUME asks[q].kind = "edit pool" PROVE EditOK(q)'
    BY <1>1 DEF EditOK
  <2>2. EditOK(q)
    BY <1>2 DEF ContentsOK
  <2>3. CASE "pool_post" \in stale'[q]
    <3>1. at[q] \in {"find", "write"} =>
              \E S \in SUBSET PostIds : \E list \in Lists(S) :
                  adds[q] = AddedPosts(asks[q].pool, 0, list)
      BY <2>1, <2>2 DEF EditOK
    <3> QED
      BY <1>1, <2>1, <2>3, <3>1 DEF EditOK
  <2>4. CASE "pool_post" \notin stale'[q]
    <3>1. "pool_post" \in Tables
      BY DEF Tables
    <3>2. "pool_post" \notin stale[q] /\ Of(links', "pool_post") = Of(links, "pool_post")
      BY <2>4, <3>1, OthersTable
    <3>3. at[q] = "write" => drops'[q] = drops[q]
      BY <1>2, <1>3, <2>1, <2>4, <3>1, OthersTable, AtTable
    <3>4. \A k : Members(links', k) = Members(links, k) /\ PostsOf(links', k) = PostsOf(links, k)
      BY <3>2, SamePlaces
    <3>5. Edited(q)' = Edited(q)
      BY <1>1, <3>4 DEF Edited
    <3> QED
      BY <1>1, <2>1, <2>2, <3>2, <3>3, <3>4, <3>5 DEF EditOK
  <2> QED
    BY <2>3, <2>4
<1>6. CreateOK(q)'
  BY <1>1, <1>2 DEF ContentsOK, CreateOK
<1>7. MergePoolsOK(q)'
  <2>1. SUFFICES ASSUME asks[q].kind = "merge pools" PROVE MergePoolsOK(q)'
    BY <1>1 DEF MergePoolsOK
  <2>2. MergePoolsOK(q)
    BY <1>2 DEF ContentsOK
  <2>3. CASE "pool_post" \in stale'[q]
    <3>1. at[q] = "write" =>
              \E S \in SUBSET PostIds : \E list \in Lists(S) :
                  adds[q] = AddedPosts(asks[q].to, 0, list)
      BY <2>1, <2>2 DEF MergePoolsOK
    <3> QED
      BY <1>1, <2>1, <2>3, <3>1 DEF MergePoolsOK
  <2>4. CASE "pool_post" \notin stale'[q]
    <3>1. "pool_post" \in Tables
      BY DEF Tables
    <3>2. "pool_post" \notin stale[q] /\ Of(links', "pool_post") = Of(links, "pool_post")
      BY <2>4, <3>1, OthersTable
    <3>3. /\ \A k : Members(links', k) = Members(links, k) /\ PostsOf(links', k) = PostsOf(links, k)
          /\ \A k, S : Listed(links', k, S) = Listed(links, k, S)
      BY <3>2, SamePlaces
    <3>4. NewPosts(q)' = NewPosts(q)
      BY <1>1, <3>3 DEF NewPosts
    <3> QED
      BY <1>1, <2>1, <2>2, <3>2, <3>3, <3>4 DEF MergePoolsOK
  <2> QED
    BY <2>3, <2>4
<1> QED
  BY <1>4, <1>5, <1>6, <1>7

LEMMA OthersMerge ==
    ASSUME Inv, NEW r \in Calls, CommitLinks(r), NEW q \in Calls \ {r}, at[q] # "idle"
    PROVE  MergePostsOK(q)'
<1>1. /\ at'[q] = at[q] /\ asks'[q] = asks[q] /\ todo'[q] = todo[q] /\ adds'[q] = adds[q]
      /\ put'[q] = put[q] /\ cut'[q] = cut[q]
  BY CommitDoes DEF Committed
<1>2. AskOK(q) /\ RowsOK(q) /\ Placed(q) /\ ContentsOK(q)
  BY DEF Inv, ReqOK, RowsOK
<1>3. SUFFICES ASSUME asks[q].kind = "merge posts" PROVE MergePostsOK(q)'
  BY <1>1 DEF MergePostsOK
<1> DEFINE from == asks[q].absorbed
           to == asks[q].to
<1>4. MergeRelations(q) /\ MergeMarks(q) /\ MergePlaces(q) /\ MergeRemarks(q)
  BY <1>2, <1>3 DEF ContentsOK, MergePostsOK
<1>5. at[q] = "write" => todo[q] \in Plan("merge posts") /\ \A row \in drops[q] : row.table = Head(todo[q])
  BY <1>2, <1>3 DEF AskOK, Placed
<1>6. /\ "post_relation" \in Tables /\ "mark" \in Tables
      /\ "pool_post" \in Tables /\ "remark" \in Tables
  BY DEF Tables
<1>7. MergeRelations(q)'
  <2>1. SUFFICES ASSUME "post_relation" \notin stale'[q] PROVE MergeRelations(q)'
    BY DEF MergeRelations
  <2>2. "post_relation" \notin stale[q] /\ Of(links', "post_relation") = Of(links, "post_relation")
    BY <1>6, <2>1, OthersTable
  <2>3. at[q] = "write" /\ todo[q] = AllTables => drops'[q] = drops[q]
    BY <1>5, <1>6, <2>1, OthersTable, ListsOfTables
  <2>4. /\ Touching(links', {to}) = Touching(links, {to})
        /\ Merged(q, "post_relation")' = Merged(q, "post_relation")
    BY <1>1, <2>2, SameTable DEF Merged
  <2> QED
    BY <1>1, <1>4, <2>2, <2>3, <2>4 DEF MergeRelations
<1>8. MergeMarks(q)'
  <2>1. SUFFICES ASSUME "mark" \notin stale'[q] PROVE MergeMarks(q)'
    BY DEF MergeMarks
  <2>2. "mark" \notin stale[q] /\ Of(links', "mark") = Of(links, "mark")
    BY <1>6, <2>1, OthersTable
  <2>3. Merged(q, "mark")' = Merged(q, "mark")
    BY <1>1, <2>2, SameTable DEF Merged
  <2> QED
    BY <1>1, <1>4, <2>2, <2>3 DEF MergeMarks
<1>9. MergePlaces(q)'
  <2>1. SUFFICES ASSUME "pool_post" \notin stale'[q] PROVE MergePlaces(q)'
    BY DEF MergePlaces
  <2>2. "pool_post" \notin stale[q] /\ Of(links', "pool_post") = Of(links, "pool_post")
    BY <1>6, <2>1, OthersTable
  <2>3. Merged(q, "pool_post")' = Merged(q, "pool_post")
    BY <1>1, <2>2, SamePlaces DEF Merged
  <2> QED
    BY <1>1, <1>4, <2>2, <2>3 DEF MergePlaces
<1>10. MergeRemarks(q)'
  <2>1. SUFFICES ASSUME "remark" \notin stale'[q] PROVE MergeRemarks(q)'
    BY DEF MergeRemarks
  <2>2. "remark" \notin stale[q] /\ Of(links', "remark") = Of(links, "remark")
    BY <1>6, <2>1, OthersTable
  <2>3. at[q] = "write" /\ todo[q] = Remarks => drops'[q] = drops[q]
    <3>1. Head(Remarks) = "remark"
      BY ListsOfTables DEF Remarks
    <3> QED
      BY <1>5, <1>6, <2>1, <3>1, OthersTable
  <2>4. OldRemarks(q)' = OldRemarks(q)
    BY <1>1, <2>2 DEF OldRemarks
  <2> QED
    BY <1>1, <1>4, <2>2, <2>3, <2>4 DEF MergeRemarks
<1> QED
  BY <1>7, <1>8, <1>9, <1>10 DEF MergePostsOK

LEMMA OthersCommit ==
    ASSUME Inv, NEW r \in Calls, CommitLinks(r), NEW q \in Calls \ {r}
    PROVE  ReqOK(q)'
<1>1. AskOK(q)' /\ RowsOK(q)'
  BY OthersRows
<1>2. CASE at[q] = "idle"
  <2>1. asks'[q].kind = "none"
    <3>1. asks'[q] = asks[q]
      BY CommitDoes DEF Committed
    <3> QED
      BY <1>2, <3>1 DEF Inv, ReqOK, AskOK
  <2> QED
    BY <1>1, <2>1 DEF ReqOK, ContentsOK, RelateOK, EditOK, CreateOK, MergePoolsOK, MergePostsOK
<1>3. CASE at[q] # "idle"
  BY <1>1, <1>3, OthersLists, OthersMerge DEF ReqOK, ContentsOK
<1> QED
  BY <1>2, <1>3

-----------------------------------------------------------------------------
(* A commit keeps the numbers of the posts of a pool.                       *)

\* The rows a commit leaves in pool k.
LEMMA CommitMembers ==
    ASSUME Inv, NEW r \in Calls, CommitLinks(r), NEW k
    PROVE  /\ Members(links', k) = Members(LinkDB!View(r), k) \ Fallen(r)
           /\ links' \subseteq LinkRow /\ links' \subseteq LinkDB!View(r)
           /\ \A row, other \in links' : SameLink(row, other) => row = other
<1>1. links' = LinkDB!View(r) \ Fallen(r)
  BY CommitDoes DEF Committed
<1> QED
  BY <1>1, ViewFacts DEF Members, Of

\* r sets the list of pool k.
Relists(r, k) == asks[r].kind = "edit pool" /\ asks[r].pool = k

\* Unless its list was set, a pool with even numbers had them before, and has no fewer posts.
LEMMA StillEven ==
    ASSUME Inv, NEW r \in Calls, CommitLinks(r), NEW k \in PoolIds, k \notin uneven',
           ~Relists(r, k)
    PROVE  /\ Numbered(links, k) /\ k \notin Shortened
           /\ "pool_post" \in stale[r] => Members(links', k) = Members(links, k)
           /\ Members(links', k) \subseteq Members(links, k) => Numbered(links', k)
<1>1. uneven' = {j \in PoolIds : IF Relists(r, j) THEN "pool_post" \in stale[r]
          ELSE j \in uneven \cup Shortened \/ ("pool_post" \in stale[r] /\ Changed(j))}
  BY DEF CommitLinks, Relists
<1>2. k \notin uneven /\ k \notin Shortened /\ ("pool_post" \in stale[r] => ~Changed(k))
  BY <1>1
<1>3. Numbered(links, k)
  BY <1>2 DEF Inv, RowsRegular
<1>4. ASSUME Members(links', k) \subseteq Members(links, k) PROVE Numbered(links', k)
  <2>1. IsFiniteSet(Members(links, k)) /\ Cardinality(Members(links, k)) \in Nat
    BY MembersFinite DEF Inv, Sound
  <2>2. Cardinality(Members(links', k)) \in Nat
    BY CommitMembers, MembersFinite
  <2>3. ~(Cardinality(Members(links', k)) < Cardinality(Members(links, k)))
    BY <1>2 DEF Shortened
  <2>4. Members(links', k) = Members(links, k)
    <3> DEFINE old == Members(links, k)
               new == Members(links', k)
    <3>1. /\ IsFiniteSet(old) /\ new \subseteq old /\ ~(Cardinality(new) < Cardinality(old))
          /\ Cardinality(old) \in Nat /\ Cardinality(new) \in Nat
      BY <1>4, <2>1, <2>2, <2>3
    <3> HIDE DEF old, new
    <3>2. Cardinality(new) <= Cardinality(old) /\ (Cardinality(new) = Cardinality(old) => new = old)
      BY <3>1, FS_Subset
    <3>3. Cardinality(new) = Cardinality(old)
      BY <3>1, <3>2
    <3> QED
      BY <3>2, <3>3 DEF old, new
  <2> QED
    BY <1>3, <2>4 DEF Numbered
<1> QED
  BY <1>2, <1>3, <1>4 DEF Changed

LEMMA AddedRows ==
    ASSUME NEW k, NEW n, NEW list
    PROVE  \A row \in AddedPosts(k, n, list) : row.table = "pool_post" /\ row.pool = k
BY Rows DEF AddedPosts

LEMMA EvenNumbers ==
    ASSUME NEW rows, NEW k, NEW members, NEW n, Members(rows, k) = members,
           Cardinality(members) = n, {row.order : row \in members} = 0..n - 1
    PROVE  Numbered(rows, k)
BY DEF Numbered

\* A pool whose rows are those of one list.
LEMMA ListNumbered ==
    ASSUME NEW rows, NEW k \in PoolIds, NEW S \in SUBSET PostIds, NEW list \in Lists(S),
           Members(rows, k) = AddedPosts(k, 0, list)
    PROVE  Numbered(rows, k)
<1>1. Cardinality(S) \in Nat
  BY FinitePosts
<1>2. /\ Cardinality(AddedPosts(k, 0, list)) = Cardinality(S)
      /\ {row.order : row \in AddedPosts(k, 0, list)} = 0..0 + Cardinality(S) - 1
  BY AddedNumbers
<1> QED
  BY <1>1, <1>2 DEF Numbered

LEMMA ListPosts ==
    ASSUME NEW rows, NEW k \in PoolIds, NEW S \in SUBSET PostIds, NEW list \in Lists(S),
           Members(rows, k) = AddedPosts(k, 0, list)
    PROVE  PostsOf(rows, k) = S
<1>1. {row.post : row \in AddedPosts(k, 0, list)} = S
  BY AddedFacts
<1> QED
  BY <1>1 DEF PostsOf

\* A pool that got more posts, numbered from their number on.
LEMMA AppendedNumbers ==
    ASSUME NEW rows, NEW k \in PoolIds, NEW old, IsFiniteSet(old),
           NEW n \in Nat, n = Cardinality(old), {row.order : row \in old} = 0..n - 1,
           NEW S \in SUBSET PostIds, NEW list \in Lists(S),
           old \cap AddedPosts(k, n, list) = {},
           Members(rows, k) = old \cup AddedPosts(k, n, list)
    PROVE  Numbered(rows, k)
<1> DEFINE new == AddedPosts(k, n, list)
<1>1. PICK m \in Nat : m = Cardinality(S)
  BY FinitePosts
<1>2. IsFiniteSet(new) /\ Cardinality(new) = m /\ {row.order : row \in new} = n..n + m - 1
  BY <1>1, AddedNumbers
<1> HIDE DEF new
<1>3. Cardinality(old \cup new) = n + m
  <2>1. Cardinality(old \cup new) = n + m - Cardinality(old \cap new)
    BY <1>2, FS_Union
  <2>2. Cardinality(old \cap new) = 0
    BY FS_EmptySet DEF new
  <2> QED
    BY <1>1, <2>1, <2>2
<1>4. {row.order : row \in old \cup new} = 0..n + m - 1
  <2>1. {row.order : row \in old \cup new} = {row.order : row \in old} \cup {row.order : row \in new}
    OBVIOUS
  <2>2. \A x \in Int : (x \in 0..n - 1 \/ x \in n..n + m - 1) <=> x \in 0..n + m - 1
    BY <1>1
  <2>3. (0..n - 1) \cup (n..n + m - 1) = 0..n + m - 1
    BY <2>2
  <2> QED
    BY <1>2, <2>1, <2>3
<1> DEFINE both == old \cup new
<1>5. /\ Members(rows, k) = both /\ Cardinality(both) = n + m
      /\ {row.order : row \in both} = 0..n + m - 1
  BY <1>3, <1>4 DEF new
<1> HIDE DEF both
<1> QED
  BY <1>5, EvenNumbers

\* At its commit a request has no table left to change, and only some delete rows last.
LEMMA AtCommit ==
    ASSUME Inv, NEW r \in Calls, at[r] = "commit"
    PROVE  /\ todo[r] = <<>> /\ AskOK(r) /\ RowsOK(r) /\ ContentsOK(r)
           /\ put[r] \cup cut[r] \subseteq LinkRow
           /\ \A row \in put[r] \cup cut[r] : row.table \in KindTables(asks[r].kind)
           /\ asks[r].kind \notin {"delete", "merge posts", "merge pools"} =>
                 Doomed(r) = {} /\ Fallen(r) = {}
<1>1. AskOK(r) /\ RowsOK(r) /\ Placed(r) /\ ContentsOK(r) /\ todo[r] = <<>>
  BY DEF Inv, ReqOK, RowsOK, AskOK
<1>2. /\ put[r] \cup cut[r] \subseteq LinkRow
      /\ \A row \in put[r] \cup cut[r] : row.table \in KindTables(asks[r].kind)
  BY <1>1 DEF Placed
<1>3. asks[r].kind \notin {"delete", "merge posts", "merge pools"} => Doomed(r) = {}
  BY DEF Doomed
<1>4. Doomed(r) = {} => Fallen(r) = {}
  BY DEF Fallen, LinkDB!Cascade
<1> QED
  BY <1>1, <1>2, <1>3, <1>4

\* Rows of no pool, or of another pool, do not count.
LEMMA OthersPools ==
    ASSUME NEW r, NEW k,
           \A row \in put[r] \cup cut[r] : row.table = "pool_post" => row.pool # k
    PROVE  Members(LinkDB!View(r), k) = Members(links, k)
BY DEF Members, Of, LinkDB!View

\* The edited pool is what was asked for, and no other pool changes.
LEMMA EditLeaves ==
    ASSUME Inv, NEW r \in Calls, CommitLinks(r), asks[r].kind = "edit pool",
           "pool_post" \notin stale[r]
    PROVE  /\ Edited(r) \in SUBSET PostIds /\ asks[r].pool \in PoolIds
           /\ \E list \in Lists(Edited(r)) :
                 Members(links', asks[r].pool) = AddedPosts(asks[r].pool, 0, list)
           /\ \A k : k # asks[r].pool => Members(links', k) = Members(links, k)
<1> DEFINE pool == asks[r].pool
<1>1. at[r] = "commit"
  BY DEF CommitLinks
<1>2. AskOK(r) /\ ContentsOK(r) /\ Fallen(r) = {} /\ pool \in PoolIds
  BY <1>1, AtCommit DEF AskOK
<1>3. \A k : Members(links', k) = Members(LinkDB!View(r), k)
  BY <1>2, CommitMembers
<1>4. PICK list \in Lists(Edited(r)) : put[r] = AddedPosts(pool, 0, list)
  BY <1>1, <1>2 DEF ContentsOK, EditOK
<1>5. cut[r] = Members(links, pool)
  BY <1>1, <1>2 DEF ContentsOK, EditOK
<1>6. Edited(r) \in SUBSET PostIds
  <2>1. PICK S \in SUBSET PostIds : asks[r].list \in Lists(S)
    BY <1>2 DEF AskOK
  <2>2. Contents(asks[r].list) = S
    BY <2>1, ListFacts
  <2>3. PostsOf(links, pool) \subseteq PostIds
    BY RowShapes DEF Inv, Sound, PostsOf, Members, Of
  <2> QED
    BY <2>1, <2>2, <2>3 DEF Edited
<1>7. \A row \in put[r] : row.table = "pool_post" /\ row.pool = pool
  <2>1. \A row \in AddedPosts(pool, 0, list) : row.table = "pool_post" /\ row.pool = pool
    <3> HIDE DEF pool
    <3> QED
      BY AddedRows
  <2> QED
    BY <1>4, <2>1
<1>8. Members(LinkDB!View(r), pool) = AddedPosts(pool, 0, list)
  BY <1>4, <1>5, <1>7 DEF Members, Of, LinkDB!View
<1>9. ASSUME NEW k, k # pool PROVE Members(LinkDB!View(r), k) = Members(links, k)
  <2>1. \A row \in put[r] \cup cut[r] : row.pool # k
    BY <1>5, <1>7, <1>9 DEF Members
  <2> QED
    BY <2>1, OthersPools
<1> QED
  BY <1>2, <1>3, <1>4, <1>6, <1>8, <1>9

LEMMA EditNumbers ==
    ASSUME Inv, NEW r \in Calls, CommitLinks(r), asks[r].kind = "edit pool",
           NEW k \in PoolIds, k \notin uneven'
    PROVE  Numbered(links', k)
<1>1. CASE k # asks[r].pool
  <2>1. "pool_post" \notin stale[r] => Members(links', k) = Members(links, k)
    BY <1>1, EditLeaves
  <2>2. "pool_post" \in stale[r] => Members(links', k) = Members(links, k)
    BY <1>1, StillEven DEF Relists
  <2> QED
    BY <1>1, <2>1, <2>2, StillEven DEF Relists
<1>2. CASE k = asks[r].pool
  <2>1. "pool_post" \notin stale[r]
    BY <1>2 DEF CommitLinks
  <2>2. /\ Edited(r) \in SUBSET PostIds
        /\ \E list \in Lists(Edited(r)) : Members(links', k) = AddedPosts(k, 0, list)
    BY <1>2, <2>1, EditLeaves
  <2> QED
    BY <2>2, ListNumbered
<1> QED
  BY <1>1, <1>2

LEMMA CreateNumbers ==
    ASSUME Inv, NEW r \in Calls, CommitLinks(r), asks[r].kind = "create pool",
           NEW k \in PoolIds, k \notin uneven'
    PROVE  Numbered(links', k)
<1>1. at[r] = "commit"
  BY DEF CommitLinks
<1>2. RowsOK(r) /\ ContentsOK(r) /\ Fallen(r) = {}
  BY <1>1, AtCommit
<1>3. Members(links', k) = Members(LinkDB!View(r), k)
  BY <1>2, CommitMembers
<1>4. PICK pool \in PoolIds, S \in SUBSET PostIds : \E list \in Lists(S) :
          cut[r] = {} /\ put[r] = {PoolRow(pool)} \cup AddedPosts(pool, 0, list)
  BY <1>1, <1>2 DEF ContentsOK, CreateOK
<1>5. PICK list \in Lists(S) : cut[r] = {} /\ put[r] = {PoolRow(pool)} \cup AddedPosts(pool, 0, list)
  BY <1>4
<1>6. \A row \in AddedPosts(pool, 0, list) : row.table = "pool_post" /\ row.pool = pool
  BY AddedRows
<1>7. PoolRow(pool).table = "pool"
  BY Rows
<1>8. CASE k = pool
  <2>1. PoolRow(pool) \notin links
    BY <1>2, <1>5, Keys DEF RowsOK, KeysOK
  <2>2. Members(links, pool) = {}
    BY <2>1, ParentRows DEF Inv, Sound, Members, Of
  <2>3. Members(LinkDB!View(r), k) = AddedPosts(pool, 0, list)
    BY <1>5, <1>6, <1>7, <1>8, <2>2 DEF Members, Of, LinkDB!View
  <2> QED
    BY <1>3, <1>8, <2>3, ListNumbered
<1>9. CASE k # pool
  <2>1. \A row \in put[r] \cup cut[r] : row.table = "pool_post" => row.pool # k
    BY <1>5, <1>6, <1>7, <1>9
  <2>2. Members(LinkDB!View(r), k) = Members(links, k)
    BY <2>1, OthersPools
  <2> QED
    BY <1>3, <2>2, StillEven DEF Relists
<1> QED
  BY <1>8, <1>9

MergesPools(r, from, to) ==
    asks[r].kind = "merge pools" /\ asks[r].absorbed = from /\ asks[r].to = to

\* A merged pool gets its new posts after those it has, and no other pool gets any.
LEMMA PoolMergeLeaves ==
    ASSUME Inv, NEW r \in Calls, CommitLinks(r), NEW from, NEW to, MergesPools(r, from, to),
           "pool_post" \notin stale[r]
    PROVE  LET old == Members(links, to)
           IN  /\ from \in PoolIds /\ to \in PoolIds /\ NewPosts(r) \in SUBSET PostIds
               /\ \E list \in Listed(links, from, NewPosts(r)) :
                     LET new == AddedPosts(to, Cardinality(old), list)
                     IN  Members(links', to) = old \cup new /\ old \cap new = {}
               /\ \A k : k # to => Members(links', k) \subseteq Members(links, k)
<1> DEFINE old == Members(links, to)
<1>1. at[r] = "commit"
  BY DEF CommitLinks
<1>2. AskOK(r) /\ RowsOK(r) /\ ContentsOK(r) /\ to \in PoolIds /\ from \in PoolIds /\ from # to
  BY <1>1, AtCommit DEF AskOK, MergesPools
<1>3. \A k : Members(links', k) = Members(LinkDB!View(r), k) \ Fallen(r)
  BY CommitMembers
<1>4. PICK n : n = Cardinality(old)
  OBVIOUS
<1>5. cut[r] = {} /\ \E list \in Listed(links, from, NewPosts(r)) : put[r] = AddedPosts(to, n, list)
  BY <1>1, <1>2, <1>4 DEF ContentsOK, MergePoolsOK, MergesPools
<1>6. PICK list \in Listed(links, from, NewPosts(r)) : put[r] = AddedPosts(to, n, list)
  BY <1>5
<1> DEFINE new == AddedPosts(to, n, list)
<1>7. NewPosts(r) \in SUBSET PostIds
  <2>1. PostsOf(links, from) \subseteq PostIds
    BY RowShapes DEF Inv, Sound, PostsOf, Members, Of
  <2> QED
    BY <2>1 DEF NewPosts, MergesPools
<1>8. \A row \in new : row.table = "pool_post" /\ row.pool = to
  BY AddedRows
<1>9. ASSUME NEW k, k # to PROVE Members(LinkDB!View(r), k) = Members(links, k)
  BY <1>5, <1>6, <1>8, <1>9, OthersPools
<1>10. Members(LinkDB!View(r), to) = old \cup new
  BY <1>5, <1>6, <1>8 DEF Members, Of, LinkDB!View
<1>11. \A row \in old \cup new : row.table = "pool_post" /\ row.pool = to
  BY <1>8 DEF Members, Of
<1>12. \A row \in old \cup new : row \notin Fallen(r)
  <2>1. Doomed(r) = {PoolRow(from)} /\ PoolRow(from).table = "pool"
    BY Rows DEF Doomed, MergesPools
  <2>2. \A row \in old \cup new : LinkParents(row) = {PoolRow(to), PostRow(row.post)}
    BY <1>11, ParentRows
  <2>3. \A p : PoolRow(from) \notin {PoolRow(to), PostRow(p)}
    BY <1>2, ParentsTell
  <2> QED
    BY <1>11, <2>1, <2>2, <2>3 DEF Fallen, LinkDB!Cascade
<1>13. Members(links', to) = old \cup new
  BY <1>3, <1>10, <1>12
<1>14. old \cap new = {}
  BY <1>2, <1>5, <1>6, Keys DEF RowsOK, KeysOK, Members, Of
<1>15. \A k : k # to => Members(links', k) \subseteq Members(links, k)
  BY <1>3, <1>9
<1> QED
  BY <1>2, <1>4, <1>6, <1>7, <1>13, <1>14, <1>15

LEMMA MergePoolsNumbers ==
    ASSUME Inv, NEW r \in Calls, CommitLinks(r), asks[r].kind = "merge pools",
           NEW k \in PoolIds, k \notin uneven'
    PROVE  Numbered(links', k)
<1> DEFINE old == Members(links, k)
<1>1. /\ Numbered(links, k) /\ (Members(links', k) \subseteq old => Numbered(links', k))
      /\ "pool_post" \in stale[r] => Members(links', k) = old
  BY StillEven DEF Relists
<1>2. CASE "pool_post" \in stale[r]
  BY <1>1, <1>2
<1>3. CASE "pool_post" \notin stale[r] /\ k # asks[r].to
  <2>1. PICK from, to : MergesPools(r, from, to) /\ k # to
    BY <1>3 DEF MergesPools
  <2> QED
    BY <1>1, <1>3, <2>1, PoolMergeLeaves
<1>4. CASE "pool_post" \notin stale[r] /\ k = asks[r].to
  <2>1. PICK n \in Nat : n = Cardinality(old)
    BY MembersFinite DEF Inv, Sound
  <2>2. PICK from : MergesPools(r, from, k)
    BY <1>4 DEF MergesPools
  <2>3. NewPosts(r) \in SUBSET PostIds /\ \E list \in Listed(links, from, NewPosts(r)) :
            LET new == AddedPosts(k, n, list)
            IN  Members(links', k) = old \cup new /\ old \cap new = {}
    BY <1>4, <2>1, <2>2, PoolMergeLeaves
  <2>4. PICK list \in Lists(NewPosts(r)) :
            /\ Members(links', k) = old \cup AddedPosts(k, n, list)
            /\ old \cap AddedPosts(k, n, list) = {}
    BY <2>3 DEF Listed
  <2>5. IsFiniteSet(old) /\ {row.order : row \in old} = 0..n - 1
    BY <1>1, <2>1, MembersFinite DEF Inv, Sound, Numbered
  <2> HIDE DEF old
  <2> QED
    BY <2>1, <2>3, <2>4, <2>5, AppendedNumbers
<1> QED
  BY <1>2, <1>3, <1>4

-----------------------------------------------------------------------------
(* What a merge of posts leaves of a table, given what it writes.           *)

\* The relations of from become those of to.
LEMMA MovedRelations ==
    ASSUME NEW rows \in SUBSET LinkRow, NEW after, NEW from \in PostIds, NEW to \in PostIds, from # to,
           Of(after, "post_relation") =
              {row \in (Of(rows, "post_relation") \ Touching(rows, {to}))
                          \cup MergedRows(rows, from, to, "post_relation") :
                  from \notin {row.parent, row.child}}
    PROVE  RelatedTo(after, to) = (RelatedTo(rows, from) \cup RelatedTo(rows, to)) \ {from, to}
<1> DEFINE new == MergedRows(rows, from, to, "post_relation")
           touching == Touching(rows, {from, to})
<1>1. new = {row \in {Redirected(from, to, m) : m \in touching} : row.parent # row.child}
  BY DEF MergedRows
<1>2. \A p, c : Related(p, c).table = "post_relation"
                   /\ Related(p, c).parent = p /\ Related(p, c).child = c
  BY Rows
<1>3. \A c : Related(to, c) \in after <=>
          /\ Related(to, c) \in rows \ Touching(rows, {to}) \/ Related(to, c) \in new
          /\ c # from
  <2> TAKE c
  <2> DEFINE row == Related(to, c)
  <2>1. row.table = "post_relation" /\ row.parent = to /\ row.child = c
    BY <1>2
  <2> HIDE DEF row, new
  <2>2. \A any : row \in any <=> row \in Of(any, "post_relation")
    BY <2>1 DEF Of
  <2>3. row \in Of(after, "post_relation") <=>
            /\ row \in (Of(rows, "post_relation") \ Touching(rows, {to})) \cup new
            /\ from \notin {row.parent, row.child}
    BY DEF new
  <2>4. from \notin {row.parent, row.child} <=> c # from
    BY <2>1
  <2> QED
    BY <2>2, <2>3, <2>4 DEF row
<1>4. \A p, c : Related(p, c) \in touching <=> Related(p, c) \in rows /\ {p, c} \cap {from, to} # {}
  BY <1>2 DEF Touching, Of
<1>5. \A c : Related(to, c) \in rows => Related(to, c) \in Touching(rows, {to})
  BY <1>2 DEF Touching, Of
<1>6. \A m \in touching : \E p, c \in PostIds : m = Related(p, c)
  BY RowShapes DEF Touching, Of
<1> HIDE DEF new, touching
<1>7. ASSUME NEW c \in PostIds, Related(to, c) \in new
      PROVE  c # to /\ (c # from => Related(from, c) \in rows \/ Related(to, c) \in rows)
  <2>1. PICK m \in touching : Related(to, c) = Redirected(from, to, m)
    BY <1>1, <1>7
  <2>2. PICK x \in PostIds, y \in PostIds : m = Related(x, y)
    BY <1>6, <2>1
  <2>3. Related(to, c) = IF x = from THEN Related(to, y)
                         ELSE IF y = from THEN Related(x, to) ELSE Related(x, y)
    BY <2>1, <2>2, RedirectedRow
  <2>4. c # to
    BY <1>1, <1>2, <1>7
  <2>5. Related(x, y) \in rows
    BY <1>4, <2>1, <2>2
  <2>6. CASE x = from
    <3>1. c = y
      BY <2>3, <2>6, RelatedTells
    <3> QED
      BY <2>4, <2>5, <2>6, <3>1
  <2>7. CASE x # from /\ y = from
    <3>1. c = to
      BY <2>3, <2>7, RelatedTells
    <3> QED
      BY <2>4, <3>1
  <2>8. CASE x # from /\ y # from
    BY <2>3, <2>4, <2>5, <2>8
  <2> QED
    BY <2>6, <2>7, <2>8
<1>8. ASSUME NEW c \in PostIds, c \notin {from, to}, Related(from, c) \in rows
      PROVE  Related(to, c) \in new
  <2>1. Related(from, c) \in touching
    BY <1>4, <1>8
  <2>2. Redirected(from, to, Related(from, c)) = Related(to, c)
    BY RedirectedRow
  <2> QED
    BY <1>1, <1>2, <1>8, <2>1, <2>2
<1>9. ASSUME NEW c \in PostIds, c \notin {from, to}, Related(to, c) \in rows
      PROVE  Related(to, c) \in new
  <2>1. Related(to, c) \in touching
    BY <1>4, <1>9
  <2>2. Redirected(from, to, Related(to, c)) = Related(to, c)
    BY <1>9, RedirectedRow
  <2> QED
    BY <1>1, <1>2, <1>9, <2>1, <2>2
<1>10. \A c \in PostIds : Related(to, c) \in after <=>
          c \notin {from, to} /\ (Related(from, c) \in rows \/ Related(to, c) \in rows)
  BY <1>3, <1>5, <1>7, <1>8, <1>9
<1> QED
  BY <1>10 DEF RelatedTo

LEMMA MovedMarks ==
    ASSUME NEW rows, NEW after, NEW from, NEW to, from # to,
           Of(after, "mark") =
              {row \in Of(rows, "mark") \cup MergedRows(rows, from, to, "mark") : row.post # from}
    PROVE  MarksOf(after, to) = MarksOf(rows, from) \cup MarksOf(rows, to)
<1> DEFINE new == MergedRows(rows, from, to, "mark")
           Marks(table, p) == {row \in Of(table, "mark") : row.post = p}
<1>1. new = {Mark(to, b) : b \in MarksOf(rows, from) \ MarksOf(rows, to)}
  BY DEF MergedRows
<1>2. \A b : Mark(to, b).post = to /\ Mark(to, b).by = b
  BY Rows
<1>3. \A table, p : MarksOf(table, p) = {row.by : row \in Marks(table, p)}
  BY DEF MarksOf
<1> HIDE DEF new
<1>4. \A row \in new : row.post = to
  BY <1>1, <1>2
<1>5. Marks(after, to) = Marks(rows, to) \cup new
  BY <1>4 DEF new
<1> HIDE DEF Marks
<1>6. {row.by : row \in new} = MarksOf(rows, from) \ MarksOf(rows, to)
  BY <1>1, <1>2
<1>7. MarksOf(after, to) = MarksOf(rows, to) \cup {row.by : row \in new}
  BY <1>3, <1>5
<1> QED
  BY <1>6, <1>7

LEMMA MovedRemarks ==
    ASSUME NEW rows, NEW after, NEW from, NEW to, from # to, NEW old,
           old = {row \in Of(rows, "remark") : row.post = from},
           Of(after, "remark") =
              {row \in (Of(rows, "remark") \ old) \cup {Remark(to, row.text) : row \in old} :
                  row.post # from}
    PROVE  RemarksOf(after, to) = RemarksOf(rows, from) \cup RemarksOf(rows, to)
<1> DEFINE new == {Remark(to, row.text) : row \in old}
           Remarked(table, p) == {row \in Of(table, "remark") : row.post = p}
<1>1. \A table, p : RemarksOf(table, p) = {row.text : row \in Remarked(table, p)}
  BY DEF RemarksOf
<1>2. \A text : Remark(to, text).post = to /\ Remark(to, text).text = text
  BY Rows
<1>3. \A row \in new : row.post = to
  BY <1>2
<1>4. {row.text : row \in new} = {row.text : row \in old}
  BY <1>2
<1>5. Remarked(rows, from) = old
  OBVIOUS
<1> HIDE DEF new
<1>6. Remarked(after, to) = Remarked(rows, to) \cup new
  BY <1>3 DEF new
<1> HIDE DEF Remarked
<1>7. RemarksOf(after, to) = RemarksOf(rows, to) \cup {row.text : row \in new}
  BY <1>1, <1>6
<1> QED
  BY <1>1, <1>4, <1>5, <1>7

\* The places of from become those of to, where it had none.
Moved(rows, from, to) ==
    {row \in Of(rows, "pool_post") \cup MergedRows(rows, from, to, "pool_post") : row.post # from}

\* One place of pool k more, for to, with the number of one less.
Swapped(rows, after, k, to) ==
    \E m \in Members(rows, k) :
        /\ Member(k, to, m.order) \notin Members(rows, k)
        /\ Members(after, k) = (Members(rows, k) \ {m}) \cup {Member(k, to, m.order)}

LEMMA MovedPlaces ==
    ASSUME NEW rows \in SUBSET LinkRow,
           \A row, other \in rows : SameLink(row, other) => row = other,
           NEW after, NEW from \in PostIds, NEW to \in PostIds, from # to,
           Of(after, "pool_post") = Moved(rows, from, to), NEW k \in PoolIds
    PROVE  /\ to \in PostsOf(after, k) <=> from \in PostsOf(rows, k) \/ to \in PostsOf(rows, k)
           /\ Members(after, k) \subseteq Members(rows, k) \/ Swapped(rows, after, k, to)
<1> DEFINE M == Members(rows, k)
           N == Members(after, k)
           new == MergedRows(rows, from, to, "pool_post")
<1>1. new = {Member(row.pool, to, row.order) : row \in
                {m \in Of(rows, "pool_post") : m.post = from /\ to \notin PostsOf(rows, m.pool)}}
  BY DEF MergedRows
<1>2. \A j, p, o : /\ Member(j, p, o).pool = j /\ Member(j, p, o).post = p
                   /\ Member(j, p, o).order = o /\ Member(j, p, o).table = "pool_post"
  BY Rows
<1>3. \A row \in M : row \in rows /\ row.table = "pool_post" /\ row.pool = k
  BY DEF Members, Of
<1>4. \A row, other \in M : row.post = other.post => row = other
  BY <1>3 DEF SameLink
<1>5. N = {row \in M \cup {n \in new : n.pool = k} : row.post # from}
  BY DEF Members, Moved
<1>6. \A p : (p \in PostsOf(rows, k) <=> \E row \in M : row.post = p)
             /\ (p \in PostsOf(after, k) <=> \E row \in N : row.post = p)
  BY DEF PostsOf
<1>7. \A m \in M : m \in Of(rows, "pool_post")
  BY DEF Members
<1> HIDE DEF M, N, new
<1>8. CASE from \notin PostsOf(rows, k) \/ to \in PostsOf(rows, k)
  <2>1. ASSUME NEW n \in new, n.pool = k PROVE FALSE
    <3>1. PICK m \in Of(rows, "pool_post") :
              m.post = from /\ to \notin PostsOf(rows, m.pool) /\ n = Member(m.pool, to, m.order)
      BY <1>1
    <3>2. m.pool = k
      BY <1>2, <2>1, <3>1
    <3>3. m \in M
      BY <3>1, <3>2 DEF M, Members
    <3> QED
      BY <1>6, <1>8, <3>1, <3>2, <3>3
  <2>2. N = {row \in M : row.post # from}
    BY <1>5, <2>1
  <2>3. to \in PostsOf(after, k) <=> to \in PostsOf(rows, k)
    BY <1>6, <2>2
  <2> QED
    BY <1>8, <2>2, <2>3 DEF M, N
<1>9. CASE from \in PostsOf(rows, k) /\ to \notin PostsOf(rows, k)
  <2>1. PICK m \in M : m.post = from
    BY <1>6, <1>9
  <2> DEFINE x == Member(k, to, m.order)
  <2>2. x \in new /\ x.pool = k /\ x.post = to
    BY <1>1, <1>2, <1>3, <1>7, <1>9, <2>1
  <2>3. ASSUME NEW n \in new, n.pool = k PROVE n = x
    <3>1. PICK i \in Of(rows, "pool_post") : i.post = from /\ n = Member(i.pool, to, i.order)
      BY <1>1
    <3>2. i.pool = k
      BY <1>2, <2>3, <3>1
    <3>3. i \in M
      BY <3>1, <3>2 DEF M, Members
    <3>4. i = m
      BY <1>4, <2>1, <3>1, <3>3
    <3> QED
      BY <3>1, <3>2, <3>4
  <2>4. x \notin M
    BY <1>6, <1>9, <2>2
  <2> HIDE DEF x
  <2>5. \A row \in M : row.post # from <=> row # m
    BY <1>4, <2>1
  <2>6. {n \in new : n.pool = k} = {x}
    BY <2>2, <2>3
  <2>7. N = (M \ {m}) \cup {x}
    BY <1>5, <2>2, <2>5, <2>6
  <2>8. to \in PostsOf(after, k)
    BY <1>6, <2>2, <2>7
  <2> QED
    BY <1>9, <2>1, <2>4, <2>7, <2>8 DEF M, N, x, Swapped
<1> QED
  BY <1>8, <1>9

\* One place more for one place less, with its number.
LEMMA SwappedNumbers ==
    ASSUME NEW old, IsFiniteSet(old), NEW m \in old, NEW x, x \notin old, x.order = m.order
    PROVE  LET new == (old \ {m}) \cup {x}
           IN  /\ Cardinality(new) = Cardinality(old)
               /\ {row.order : row \in new} = {row.order : row \in old}
<1> DEFINE left == old \ {m}
           new == left \cup {x}
<1>1. PICK n \in Nat : n = Cardinality(old)
  BY FS_CardinalityType
<1>2. IsFiniteSet(left) /\ Cardinality(left) = n - 1
  BY <1>1, FS_RemoveElement
<1>3. Cardinality(new) = n - 1 + 1
  <2>1. x \notin left
    OBVIOUS
  <2> HIDE DEF left
  <2> QED
    BY <1>2, <2>1, FS_AddElement
<1>4. Cardinality(new) = Cardinality(old)
  BY <1>1, <1>3
<1>5. {row.order : row \in new} = {row.order : row \in old}
  OBVIOUS
<1> QED
  BY <1>4, <1>5

LEMMA SwappedPlace ==
    ASSUME NEW rows \in SUBSET LinkRow,
           \A row, other \in rows : SameLink(row, other) => row = other,
           NEW after, NEW k, NEW to, Numbered(rows, k), Swapped(rows, after, k, to)
    PROVE  Numbered(after, k)
<1>1. PICK m \in Members(rows, k) :
          /\ Member(k, to, m.order) \notin Members(rows, k)
          /\ Members(after, k) = (Members(rows, k) \ {m}) \cup {Member(k, to, m.order)}
  BY DEF Swapped
<1> DEFINE old == Members(rows, k)
           x == Member(k, to, m.order)
           new == (old \ {m}) \cup {x}
<1>2. PICK n \in Nat : n = Cardinality(old)
  BY MembersFinite
<1>3. IsFiniteSet(old) /\ {row.order : row \in old} = 0..n - 1
  BY <1>2, MembersFinite DEF Numbered
<1>4. \A o : Member(k, to, o).order = o
  BY Rows
<1>5. m \in old /\ x \notin old /\ x.order = m.order
  BY <1>1, <1>4
<1> HIDE DEF old, x
<1>6. Cardinality(new) = n /\ {row.order : row \in new} = 0..n - 1
  BY <1>2, <1>3, <1>5, SwappedNumbers
<1>7. Members(after, k) = new
  BY <1>1 DEF old, x
<1> HIDE DEF new
<1> QED
  BY <1>2, <1>6, <1>7, EvenNumbers

-----------------------------------------------------------------------------
(* The commit of a merge of posts.                                          *)

MergesPosts(r, from, to) ==
    asks[r].kind = "merge posts" /\ asks[r].absorbed = from /\ asks[r].to = to

LEMMA MergesWell ==
    ASSUME Inv, NEW r \in Calls, at[r] = "commit", NEW from, NEW to, MergesPosts(r, from, to)
    PROVE  /\ from \in PostIds /\ to \in PostIds /\ from # to
           /\ Doomed(r) = {PostRow(from)}
           /\ "post_relation" \notin stale[r] =>
                 /\ Of(put[r], "post_relation") = MergedRows(links, from, to, "post_relation")
                 /\ Of(cut[r], "post_relation") = Touching(links, {to})
           /\ "mark" \notin stale[r] =>
                 Of(put[r], "mark") = MergedRows(links, from, to, "mark") /\ Of(cut[r], "mark") = {}
           /\ "pool_post" \notin stale[r] =>
                 /\ Of(put[r], "pool_post") = MergedRows(links, from, to, "pool_post")
                 /\ Of(cut[r], "pool_post") = {}
           /\ "remark" \notin stale[r] =>
                 /\ Of(put[r], "remark") =
                       {Remark(to, row.text) : row \in {m \in Of(links, "remark") : m.post = from}}
                 /\ Of(cut[r], "remark") = {row \in Of(links, "remark") : row.post = from}
<1>1. todo[r] = <<>> /\ AskOK(r) /\ ContentsOK(r)
  BY AtCommit
<1>2. from \in PostIds /\ to \in PostIds /\ from # to
  BY <1>1 DEF AskOK, MergesPosts
<1>3. Doomed(r) = {PostRow(from)}
  BY DEF Doomed, MergesPosts
<1>4. MergeRelations(r) /\ MergeMarks(r) /\ MergePlaces(r) /\ MergeRemarks(r)
  BY <1>1 DEF ContentsOK, MergePostsOK, MergesPosts
<1>5. \A table : Merged(r, table) = MergedRows(links, from, to, table)
  BY DEF Merged, MergesPosts
<1>6. OldRemarks(r) = {row \in Of(links, "remark") : row.post = from}
  BY DEF OldRemarks, MergesPosts
<1>7. asks[r].to = to
  BY DEF MergesPosts
<1>8. "post_relation" \notin stale[r] =>
          /\ Of(put[r], "post_relation") = MergedRows(links, from, to, "post_relation")
          /\ Of(cut[r], "post_relation") = Touching(links, {to})
  BY <1>1, <1>4, <1>5, <1>7, ListsDiffer DEF MergeRelations
<1>9. "mark" \notin stale[r] =>
          Of(put[r], "mark") = MergedRows(links, from, to, "mark") /\ Of(cut[r], "mark") = {}
  BY <1>1, <1>4, <1>5 DEF MergeMarks
<1>10. "pool_post" \notin stale[r] =>
          /\ Of(put[r], "pool_post") = MergedRows(links, from, to, "pool_post")
          /\ Of(cut[r], "pool_post") = {}
  BY <1>1, <1>4, <1>5 DEF MergePlaces
<1>11. "remark" \notin stale[r] =>
          /\ Of(put[r], "remark") = {Remark(to, row.text) : row \in OldRemarks(r)}
          /\ Of(cut[r], "remark") = OldRemarks(r)
  BY <1>1, <1>4, <1>7 DEF MergeRemarks
<1> QED
  BY <1>2, <1>3, <1>6, <1>8, <1>9, <1>10, <1>11

\* The rows of a table after it: those of before it and its own that do not refer to from.
LEMMA MergeLeaves ==
    ASSUME Inv, NEW r \in Calls, CommitLinks(r), NEW from, NEW to, MergesPosts(r, from, to),
           NEW table \in Tables
    PROVE  Of(links', table) =
               {row \in (Of(links, table) \ Of(cut[r], table)) \cup Of(put[r], table) :
                   PostRow(from) \notin LinkParents(row)}
<1> DEFINE rows == LinkDB!View(r)
           gone == PostRow(from)
<1>1. at[r] = "commit" /\ links' = rows \ Fallen(r)
  BY CommitDoes DEF Committed
<1>2. Doomed(r) = {gone}
  BY <1>1, MergesWell
<1>3. Fallen(r) = ({gone} \cap rows) \cup {row \in rows : LinkParents(row) \cap ({gone} \cap rows) # {}}
  BY <1>2 DEF Fallen, LinkDB!Cascade
<1>4. \A row \in rows : LinkParents(row) \subseteq rows
  BY ViewClosed
<1>5. gone.table \notin Tables
  BY Rows DEF Tables
<1>6. ASSUME NEW row, row.table = table
      PROVE  row \in links' <=> row \in rows /\ gone \notin LinkParents(row)
  BY <1>1, <1>3, <1>4, <1>5, <1>6
<1>7. Of(links', table) = {row \in Of(rows, table) : gone \notin LinkParents(row)}
  BY <1>6, <1>1 DEF Of
<1>8. Of(rows, table) = (Of(links, table) \ Of(cut[r], table)) \cup Of(put[r], table)
  BY DEF Of, LinkDB!View
<1> QED
  BY <1>7, <1>8

\* What does not refer to a post, by table.
LEMMA RefersNot ==
    ASSUME NEW p, NEW row
    PROVE  /\ row.table = "post_relation" =>
                 (PostRow(p) \notin LinkParents(row) <=> p \notin {row.parent, row.child})
           /\ row.table \in {"pool_post", "mark", "remark"} =>
                 (PostRow(p) \notin LinkParents(row) <=> row.post # p)
BY ParentRows, ParentsTell

\* The places of from after a merge nobody met.
LEMMA MergeMoves ==
    ASSUME Inv, NEW r \in Calls, CommitLinks(r), NEW from, NEW to, MergesPosts(r, from, to),
           "pool_post" \notin stale[r]
    PROVE  /\ from \in PostIds /\ to \in PostIds /\ from # to
           /\ Of(links', "pool_post") = Moved(links, from, to)
<1>1. at[r] = "commit" /\ "pool_post" \in Tables
  BY DEF CommitLinks, Tables
<1>2. /\ from \in PostIds /\ to \in PostIds /\ from # to
      /\ Of(put[r], "pool_post") = MergedRows(links, from, to, "pool_post")
      /\ Of(cut[r], "pool_post") = {}
  BY <1>1, MergesWell
<1> DEFINE rows == Of(links, "pool_post") \cup MergedRows(links, from, to, "pool_post")
<1>3. Of(links', "pool_post") = {row \in rows : PostRow(from) \notin LinkParents(row)}
  <2>1. Of(links', "pool_post") =
            {row \in (Of(links, "pool_post") \ Of(cut[r], "pool_post")) \cup Of(put[r], "pool_post") :
                PostRow(from) \notin LinkParents(row)}
    BY <1>1, MergeLeaves
  <2> QED
    BY <1>2, <2>1
<1>4. \A row \in rows : row.table = "pool_post"
  BY <1>2 DEF Of
<1> HIDE DEF rows
<1>5. Of(links', "pool_post") = {row \in rows : row.post # from}
  BY <1>3, <1>4, RefersNot
<1> QED
  BY <1>2, <1>5 DEF rows, Moved

LEMMA MergePostsNumbers ==
    ASSUME Inv, NEW r \in Calls, CommitLinks(r), asks[r].kind = "merge posts",
           NEW k \in PoolIds, k \notin uneven'
    PROVE  Numbered(links', k)
<1> DEFINE old == Members(links, k)
           new == Members(links', k)
<1>1. ~Relists(r, k)
  BY DEF Relists
<1>2. Numbered(links, k) /\ (new \subseteq old => Numbered(links', k))
  BY <1>1, StillEven
<1>3. "pool_post" \in stale[r] => new = old
  BY <1>1, StillEven
<1>4. CASE "pool_post" \in stale[r]
  BY <1>2, <1>3, <1>4
<1>5. CASE "pool_post" \notin stale[r]
  <2>1. PICK from, to : MergesPosts(r, from, to)
    BY DEF MergesPosts
  <2>2. /\ from \in PostIds /\ to \in PostIds /\ from # to
        /\ Of(links', "pool_post") = Moved(links, from, to)
    BY <1>5, <2>1, MergeMoves
  <2>3. links \in SUBSET LinkRow /\ \A row, other \in links : SameLink(row, other) => row = other
    BY DEF Inv, Sound
  <2>4. new \subseteq old \/ Swapped(links, links', k, to)
    BY <2>2, <2>3, MovedPlaces
  <2>5. ASSUME Swapped(links, links', k, to) PROVE Numbered(links', k)
    BY <1>2, <2>3, <2>5, SwappedPlace
  <2> QED
    BY <1>2, <2>4, <2>5
<1> QED
  BY <1>4, <1>5

LEMMA CommitNumbers ==
    ASSUME Inv, NEW r \in Calls, CommitLinks(r), NEW k \in PoolIds, k \notin uneven'
    PROVE  Numbered(links', k)
<1>1. at[r] = "commit"
  BY DEF CommitLinks
<1>2. \A row \in put[r] \cup cut[r] : row.table \in KindTables(asks[r].kind)
  BY <1>1, AtCommit
<1>3. CASE asks[r].kind \in {"edit pool", "create pool", "merge pools", "merge posts"}
  BY <1>3, EditNumbers, CreateNumbers, MergePoolsNumbers, MergePostsNumbers
<1>4. CASE asks[r].kind \notin {"edit pool", "create pool", "merge pools", "merge posts"}
  <2>1. "pool_post" \notin KindTables(asks[r].kind)
    BY <1>4 DEF KindTables
  <2>2. Members(LinkDB!View(r), k) = Members(links, k)
    BY <1>2, <2>1, OthersPools
  <2>3. Members(links', k) \subseteq Members(links, k)
    BY <2>2, CommitMembers
  <2> QED
    BY <1>4, <2>3, StillEven DEF Relists
<1> QED
  BY <1>3, <1>4

LEMMA CommitStep ==
    ASSUME Inv, NEW r \in Calls, CommitLinks(r)
    PROVE  Inv'
<1>1. Committed(r) /\ Bounds' /\ Shapes'
  BY CommitDoes
<1>2. Sound(links)' /\ Symmetric(links)'
  BY CommitSound
<1>3. RowsRegular'
  BY <1>2, CommitNumbers DEF RowsRegular, Numbered
<1>4. ReqOK(r)'
  BY <1>1, Finished DEF Committed
<1>5. \A q \in Calls \ {r} : ReqOK(q)'
  BY OthersCommit
<1>6. Apart'
  BY <1>1 DEF Inv, Apart, Committed
<1> QED
  BY <1>1, <1>2, <1>3, <1>4, <1>5, <1>6 DEF Inv

-----------------------------------------------------------------------------
(* The invariant.                                                           *)

LEMMA StartOK == LinkStart => Inv
<1> SUFFICES ASSUME LinkStart PROVE Inv
  OBVIOUS
<1>1. Sound(links) /\ Symmetric(links) /\ \A k \in PoolIds : Numbered(links, k)
  BY LinksAssumption DEF LinkStart
<1>2. put = [r \in Calls |-> {}] /\ cut = [r \in Calls |-> {}]
  BY DEF LinkStart, LinkDB!NothingPending
<1>3. drawn \subseteq PostIds \cup PoolIds \cup Texts
  BY <1>1, RowShapes DEF LinkStart, Sound, Of
<1>4. Bounds /\ Shapes
  BY <1>2, <1>3, LinksAssumption DEF LinkStart, Bounds, Shapes, Labels
<1>5. ASSUME NEW r \in Calls PROVE ReqOK(r)
  <2>1. /\ at[r] = "idle" /\ asks[r] = NoCall /\ todo[r] = <<>> /\ adds[r] = {} /\ drops[r] = {}
        /\ put[r] = {} /\ cut[r] = {}
    BY <1>2 DEF LinkStart
  <2>2. NoCall.kind = "none"
    BY DEF NoCall
  <2>3. AskOK(r)
    BY <2>1, <2>2 DEF AskOK
  <2>4. RowsOK(r)
    BY <2>1 DEF RowsOK, Placed, KeysOK, ParentsOK, SymmetricOK, Symmetric
  <2>5. ContentsOK(r)
    BY <2>1, <2>2 DEF ContentsOK, RelateOK, EditOK, CreateOK, MergePoolsOK, MergePostsOK
  <2> QED
    BY <2>3, <2>4, <2>5 DEF ReqOK
<1>6. Apart
  BY <1>2 DEF Apart
<1> QED
  BY <1>1, <1>4, <1>5, <1>6 DEF Inv, RowsRegular

LEMMA StepOK == Inv /\ [LinkNext]_linkVars => Inv'
<1> SUFFICES ASSUME Inv, [LinkNext]_linkVars PROVE Inv'
  OBVIOUS
<1>1. CASE UNCHANGED linkVars
  <2>1. \A r \in Calls : Same(r)
    BY <1>1 DEF linkVars, linkRows, Same
  <2>2. \A r \in Calls : ReqOK(r)'
    BY <2>1, Untouched DEF Inv
  <2>3. Bounds' /\ Shapes' /\ Apart'
    BY <1>1 DEF linkVars, linkRows, Inv, Bounds, Shapes, Apart
  <2>4. Sound(links)' /\ RowsRegular'
    BY <1>1 DEF linkVars, linkRows, Inv, RowsRegular, Sound
  <2> QED
    BY <2>2, <2>3, <2>4 DEF Inv
<1>2. ASSUME NEW r \in Calls, NEW p \in PostIds, DeletePost(r, p) PROVE Inv'
  BY <1>2, DeletionSteps
<1>3. ASSUME NEW r \in Calls, NEW p \in PostIds, NEW S \in PostSets, Upload(r, p, S) PROVE Inv'
  BY <1>3, UploadStep
<1>4. ASSUME NEW r \in Calls, NEW p \in PostIds, NEW S \in PostSets, NEW hidden \in {{}, Unseen},
             Relate(r, p, S, hidden)
      PROVE  Inv'
  BY <1>4, RelateStep
<1>5. ASSUME NEW r \in Calls, NEW p \in PostIds, NEW to \in PostIds, MergePosts(r, p, to) PROVE Inv'
  BY <1>5, MergePostsStep
<1>6. ASSUME NEW r \in Calls, NEW p \in PostIds, NEW by \in Owners,
             SetMark(r, p, by) \/ DropMark(r, p, by)
      PROVE  Inv'
  BY <1>6, SetMarkStep, DeletionSteps
<1>7. ASSUME NEW r \in Calls, NEW p \in PostIds, NEW text \in Texts,
             AddRemark(r, p, text) \/ DropRemark(r, p, text)
      PROVE  Inv'
  BY <1>7, AddRemarkStep, DeletionSteps
<1>8. ASSUME NEW r \in Calls, NEW k \in PoolIds, DeletePool(r, k) PROVE Inv'
  BY <1>8, DeletionSteps
<1>9. ASSUME NEW r \in Calls, NEW k \in PoolIds, NEW to \in PoolIds, MergePools(r, k, to) PROVE Inv'
  BY <1>9, MergePoolsStep
<1>10. ASSUME NEW r \in Calls, NEW k \in PoolIds, NEW list \in PostLists, CreatePool(r, k, list)
       PROVE  Inv'
  BY <1>10, CreatePoolStep
<1>11. ASSUME NEW r \in Calls, NEW k \in PoolIds, NEW list \in PostLists, NEW hidden \in {{}, Unseen},
              EditPool(r, k, list, hidden)
       PROVE  Inv'
  BY <1>11, EditPoolStep
<1>12. ASSUME NEW r \in Calls, Load(r) \/ Find(r) \/ Write(r) \/ CommitLinks(r) \/ AbortLinks(r)
       PROVE  Inv'
  BY <1>12, LoadStep, FindStep, WriteStep, CommitStep, AbortStep
<1> QED
  BY <1>1, <1>2, <1>3, <1>4, <1>5, <1>6, <1>7, <1>8, <1>9, <1>10, <1>11, <1>12 DEF LinkNext

-----------------------------------------------------------------------------
(* Theorems.                                                                *)

\* Requests never leave the shapes above.
THEOREM Invariance == LinkSpec => []Inv
<1> QED
  BY StartOK, StepOK, PTL DEF LinkSpec

\* LinkTypeOK: rows of pools, relations, marks and remarks keep their keys and what they
\* refer to, whatever requests commit.
THEOREM LinkTypes == LinkSpec => []LinkTypeOK
<1>1. Inv => LinkTypeOK
  BY DEF Inv, Bounds, Labels, LinkTypeOK
<1> QED
  BY <1>1, Invariance, PTL

\* RowsRegular: relations are there both ways and pools numbered 0, 1, ..., but for pools
\* that lost a post or that two requests changed at once.
THEOREM RegularRows == LinkSpec => []RowsRegular
<1>1. Inv => RowsRegular
  BY DEF Inv
<1> QED
  BY <1>1, Invariance, PTL

\* Only its own commit ends a request with a change.
LEMMA EndsByCommit ==
    ASSUME Inv, LinkNext, NEW r \in Calls, Ended(r)
    PROVE  CommitLinks(r)
<1>1. links' # links /\ at[r] = "commit" /\ at'[r] = "idle"
  BY DEF Ended
<1>2. \A q, label, asked, tables, new : ~Ask(q, label, asked, tables, new)
  BY <1>1 DEF Ask, linkRows
<1>3. \A q : ~Load(q) /\ ~Find(q) /\ ~Write(q) /\ ~AbortLinks(q)
  BY <1>1 DEF Load, Find, Write, AbortLinks, linkRows, LinkDB!Replace, LinkDB!Rollback
<1>4. \E q \in Calls : CommitLinks(q)
  BY <1>2, <1>3 DEF LinkNext, DeletePost, Upload, Relate, MergePosts, SetMark, DropMark,
       AddRemark, DropRemark, DeletePool, MergePools, CreatePool, EditPool
<1>5. PICK q \in Calls : CommitLinks(q)
  BY <1>4
<1>6. q # r => at'[r] = at[r]
  BY <1>5, CommitDoes DEF Committed
<1> QED
  BY <1>1, <1>5, <1>6

\* One clause of PoolMergeAppends.
LEMMA AppendsStep ==
    ASSUME Inv, NEW r \in Calls, CommitLinks(r), NEW from, NEW to, MergesPools(r, from, to),
           "pool_post" \notin stale[r], to \notin uneven
    PROVE  LET old == PostsOf(links, to)
           IN  /\ PostsOf(links', to) = old \cup PostsOf(links, from)
               /\ \A p \in PostsOf(links', to), q \in PostsOf(links, from) \ old :
                     p \in old \/ Before(links, from, p, q) => Before(links', to, p, q)
               /\ \A p, q \in old : Before(links, to, p, q) => Before(links', to, p, q)
<1> DEFINE old == PostsOf(links, to)
           M == Members(links, to)
           S == NewPosts(r)
<1>1. from \in PoolIds /\ to \in PoolIds /\ S \in SUBSET PostIds
  BY PoolMergeLeaves
<1>2. PICK n \in Nat : n = Cardinality(M)
  BY MembersFinite DEF Inv, Sound
<1>3. PICK list \in Listed(links, from, S) : Members(links', to) = M \cup AddedPosts(to, n, list)
  BY <1>2, PoolMergeLeaves
<1> DEFINE new == AddedPosts(to, n, list)
<1>4. list \in Lists(S) /\ \A i, j \in DOMAIN list : Before(links, from, list[i], list[j]) => i < j
  BY DEF Listed
<1>5. S = PostsOf(links, from) \ old
  BY DEF NewPosts, MergesPools
<1>6. {row.post : row \in new} = S
  <2> HIDE DEF S
  <2> QED
    BY <1>1, <1>2, <1>4, AddedFacts
<1>7. PostsOf(links', to) = old \cup S
  <2>1. PostsOf(links', to) = {row.post : row \in M \cup new}
    BY <1>3 DEF PostsOf
  <2>2. old = {row.post : row \in M}
    BY DEF PostsOf
  <2> HIDE DEF M, new, old
  <2> QED
    BY <1>6, <2>1, <2>2
<1>8. {row.order : row \in M} = 0..n - 1
  BY <1>1, <1>2 DEF Inv, RowsRegular, Numbered
<1>9. DOMAIN list = 1..Cardinality(S) /\ Contents(list) = S /\ Cardinality(S) \in Nat
  <2> HIDE DEF S
  <2> QED
    BY <1>1, <1>4, ListFacts, FinitePosts
<1>10. \A p \in S : \E i \in DOMAIN list : p = list[i]
  BY <1>9 DEF Contents
<1>11. \A i \in DOMAIN list : Member(to, list[i], n + i - 1) \in new
  BY DEF AddedPosts
<1>12. \A i : /\ Member(to, list[i], n + i - 1).post = list[i]
              /\ Member(to, list[i], n + i - 1).order = n + i - 1
  BY Rows
<1>13. \A p, q : Before(links', to, p, q) <=>
           \E x, y \in M \cup new : x.post = p /\ y.post = q /\ x.order < y.order
  BY <1>3 DEF Before
<1>14. \A p \in old : \E x \in M : x.post = p
  BY DEF PostsOf
<1>15. \A p, q : Before(links, to, p, q) <=>
           \E x, y \in M : x.post = p /\ y.post = q /\ x.order < y.order
  BY DEF Before
<1> HIDE DEF M, new, S, old
<1>16. ASSUME NEW p \in old \cup S, NEW q \in S, p \in old \/ Before(links, from, p, q)
       PROVE  Before(links', to, p, q)
  <2>1. PICK j \in DOMAIN list : q = list[j]
    BY <1>10
  <2> DEFINE y == Member(to, list[j], n + j - 1)
  <2>2. y \in new /\ y.post = q /\ y.order = n + j - 1
    BY <1>11, <1>12, <2>1
  <2> HIDE DEF y
  <2>3. CASE p \in old
    <3>1. PICK x \in M : x.post = p
      BY <1>14, <2>3
    <3>2. x.order \in 0..n - 1
      BY <1>8
    <3>3. x.order < y.order
      BY <1>2, <1>9, <2>1, <2>2, <3>2
    <3> QED
      BY <1>13, <2>2, <3>1, <3>3
  <2>4. CASE p \notin old
    <3>1. PICK i \in DOMAIN list : p = list[i]
      BY <1>10, <2>4
    <3>2. i < j
      BY <1>4, <1>16, <2>1, <2>4, <3>1
    <3> DEFINE x == Member(to, list[i], n + i - 1)
    <3>3. x \in new /\ x.post = p /\ x.order = n + i - 1
      BY <1>11, <1>12, <3>1
    <3> HIDE DEF x
    <3>4. x.order < y.order
      BY <1>2, <1>9, <2>1, <2>2, <3>1, <3>2, <3>3
    <3> QED
      BY <1>13, <2>2, <3>3, <3>4
  <2> QED
    BY <2>3, <2>4
<1>17. ASSUME NEW p, NEW q, Before(links, to, p, q) PROVE Before(links', to, p, q)
  BY <1>13, <1>15, <1>17
<1> QED
  BY <1>5, <1>7, <1>16, <1>17 DEF old

\* PoolMergeAppends: a merge of pools nobody meets keeps both orders, the new posts last.
THEOREM MergesAppend == LinkSpec => PoolMergeAppends
<1> DEFINE Appends(r) ==
        LET from == asks[r].absorbed
            to   == asks[r].to
            old  == PostsOf(links, to)
        IN  /\ PostsOf(links', to) = old \cup PostsOf(links, from)
            /\ \A p \in PostsOf(links', to), q \in PostsOf(links, from) \ old :
                  p \in old \/ Before(links, from, p, q) => Before(links', to, p, q)
            /\ \A p, q \in old : Before(links, to, p, q) => Before(links', to, p, q)
<1>1. ASSUME Inv, LinkNext, NEW r \in Calls, Ended(r), asks[r].kind = "merge pools",
             "pool_post" \notin stale[r], asks[r].to \notin uneven
      PROVE  Appends(r)
  <2>1. PICK from, to : MergesPools(r, from, to) /\ to \notin uneven
    BY <1>1 DEF MergesPools
  <2>2. CommitLinks(r)
    BY <1>1, EndsByCommit
  <2>3. from = asks[r].absorbed /\ to = asks[r].to
    BY <2>1 DEF MergesPools
  <2> QED
    BY <1>1, <2>1, <2>2, <2>3, AppendsStep
<1>2. Inv /\ [LinkNext]_linkVars =>
          [\A r \in Calls :
              Ended(r) /\ asks[r].kind = "merge pools" /\ "pool_post" \notin stale[r]
                 /\ asks[r].to \notin uneven => Appends(r)]_linkVars
  BY <1>1
<1> QED
  BY <1>2, Invariance, PTL DEF LinkSpec, PoolMergeAppends

LEMMA RelateKeeps ==
    ASSUME Inv, NEW r \in Calls, CommitLinks(r), asks[r].kind = "relate",
           "post_relation" \notin stale[r]
    PROVE  RelatedTo(links', asks[r].post) =
               (asks[r].asked \ {asks[r].post}) \cup (RelatedTo(links, asks[r].post) \cap asks[r].hidden)
<1> DEFINE p == asks[r].post
           S == asks[r].asked \cup (RelatedTo(links, p) \cap asks[r].hidden)
<1>1. at[r] = "commit"
  BY DEF CommitLinks
<1>2. AskOK(r) /\ ContentsOK(r) /\ Fallen(r) = {}
  BY <1>1, AtCommit
<1>3. p \in PostIds \ asks[r].hidden /\ S \subseteq PostIds
  BY <1>2 DEF AskOK, RelatedTo
<1>4. put[r] = Pairs(p, S) /\ cut[r] = Touching(links, {p})
  BY <1>1, <1>2 DEF ContentsOK, RelateOK
<1>5. links' = (links \ Touching(links, {p})) \cup Pairs(p, S)
  <2>1. links' = LinkDB!View(r) \ Fallen(r)
    BY CommitDoes DEF Committed
  <2> QED
    BY <1>2, <1>4, <2>1 DEF LinkDB!View
<1>6. S \ {p} = (asks[r].asked \ {p}) \cup (RelatedTo(links, p) \cap asks[r].hidden)
  BY <1>3
<1> HIDE DEF p, S
<1>7. \A c \in PostIds : Related(p, c) \in links => Related(p, c) \in Touching(links, {p})
  <2>1. \A c : Related(p, c).table = "post_relation" /\ Related(p, c).parent = p
    BY Rows
  <2> QED
    BY <2>1 DEF Touching, Of
<1>8. \A c \in PostIds : Related(p, c) \in Pairs(p, S) <=> c \in S \ {p}
  BY RelatedTells DEF Pairs
<1>9. RelatedTo(links', p) = S \ {p}
  BY <1>3, <1>5, <1>7, <1>8 DEF RelatedTo
<1> QED
  BY <1>6, <1>9 DEF p

LEMMA EditKeeps ==
    ASSUME Inv, NEW r \in Calls, CommitLinks(r), asks[r].kind = "edit pool",
           "pool_post" \notin stale[r]
    PROVE  PostsOf(links', asks[r].pool) =
               Contents(asks[r].list) \cup (PostsOf(links, asks[r].pool) \cap asks[r].hidden)
<1>1. PICK k : k = asks[r].pool
  OBVIOUS
<1>2. /\ Edited(r) \in SUBSET PostIds /\ k \in PoolIds
      /\ \E list \in Lists(Edited(r)) : Members(links', k) = AddedPosts(k, 0, list)
  BY <1>1, EditLeaves
<1>3. PostsOf(links', k) = Edited(r)
  BY <1>2, ListPosts
<1> QED
  BY <1>1, <1>3 DEF Edited

\* EditsKeepHidden: an edit nobody meets leaves what its client asked for, and what it
\* cannot see.
THEOREM EditsKeep == LinkSpec => EditsKeepHidden
<1>1. ASSUME Inv, LinkNext, NEW r \in Calls, Ended(r)
      PROVE  /\ asks[r].kind = "relate" /\ "post_relation" \notin stale[r] =>
                   RelatedTo(links', asks[r].post) =
                      (asks[r].asked \ {asks[r].post}) \cup (RelatedTo(links, asks[r].post) \cap asks[r].hidden)
             /\ asks[r].kind = "edit pool" /\ "pool_post" \notin stale[r] =>
                   PostsOf(links', asks[r].pool) =
                      Contents(asks[r].list) \cup (PostsOf(links, asks[r].pool) \cap asks[r].hidden)
  BY <1>1, EndsByCommit, RelateKeeps, EditKeeps
<1>2. Inv /\ [LinkNext]_linkVars =>
          [\A r \in Calls :
              Ended(r) =>
              /\ asks[r].kind = "relate" /\ "post_relation" \notin stale[r] =>
                    RelatedTo(links', asks[r].post) =
                       (asks[r].asked \ {asks[r].post}) \cup (RelatedTo(links, asks[r].post) \cap asks[r].hidden)
              /\ asks[r].kind = "edit pool" /\ "pool_post" \notin stale[r] =>
                    PostsOf(links', asks[r].pool) =
                       Contents(asks[r].list) \cup (PostsOf(links, asks[r].pool) \cap asks[r].hidden)]_linkVars
  BY <1>1
<1> QED
  BY <1>2, Invariance, PTL DEF LinkSpec, EditsKeepHidden

\* ListsKept: a request that writes a list keeps what it was not about.
THEOREM KeptLists == LinkSpec => ListsKept
<1> QED
  BY MergesAppend, EditsKeep DEF ListsKept

LEMMA PostMergeKeeps ==
    ASSUME Inv, NEW r \in Calls, CommitLinks(r), NEW from, NEW to, MergesPosts(r, from, to)
    PROVE  /\ "post_relation" \notin stale[r] =>
                 RelatedTo(links', to) = (RelatedTo(links, from) \cup RelatedTo(links, to)) \ {from, to}
           /\ "mark" \notin stale[r] =>
                 MarksOf(links', to) = MarksOf(links, from) \cup MarksOf(links, to)
           /\ "pool_post" \notin stale[r] =>
                 \A k \in PoolIds : to \in PostsOf(links', k) <=>
                     from \in PostsOf(links, k) \/ to \in PostsOf(links, k)
           /\ "remark" \notin stale[r] =>
                 RemarksOf(links', to) = RemarksOf(links, from) \cup RemarksOf(links, to)
<1>1. at[r] = "commit"
  BY DEF CommitLinks
<1>2. from \in PostIds /\ to \in PostIds /\ from # to
  BY <1>1, MergesWell
<1>3. links \in SUBSET LinkRow /\ \A row, other \in links : SameLink(row, other) => row = other
  BY DEF Inv, Sound
<1>4. \A table \in Tables : Of(links', table) =
          {row \in (Of(links, table) \ Of(cut[r], table)) \cup Of(put[r], table) :
              PostRow(from) \notin LinkParents(row)}
  BY MergeLeaves
<1>5. \A table : \A row \in (Of(links, table) \ Of(cut[r], table)) \cup Of(put[r], table) :
          row.table = table
  BY DEF Of
<1>6. ASSUME "post_relation" \notin stale[r]
      PROVE  RelatedTo(links', to) = (RelatedTo(links, from) \cup RelatedTo(links, to)) \ {from, to}
  <2> DEFINE rows == (Of(links, "post_relation") \ Touching(links, {to}))
                        \cup MergedRows(links, from, to, "post_relation")
  <2>1. /\ Of(put[r], "post_relation") = MergedRows(links, from, to, "post_relation")
        /\ Of(cut[r], "post_relation") = Touching(links, {to})
    BY <1>1, <1>6, MergesWell
  <2>2. /\ Of(links', "post_relation") = {row \in rows : PostRow(from) \notin LinkParents(row)}
        /\ \A row \in rows : row.table = "post_relation"
    BY <1>4, <1>5, <2>1 DEF Tables
  <2> HIDE DEF rows
  <2>3. Of(links', "post_relation") = {row \in rows : from \notin {row.parent, row.child}}
    BY <2>2, RefersNot
  <2> QED
    BY <1>2, <1>3, <2>3, MovedRelations DEF rows
<1>7. ASSUME "mark" \notin stale[r]
      PROVE  MarksOf(links', to) = MarksOf(links, from) \cup MarksOf(links, to)
  <2> DEFINE rows == Of(links, "mark") \cup MergedRows(links, from, to, "mark")
  <2>1. Of(put[r], "mark") = MergedRows(links, from, to, "mark") /\ Of(cut[r], "mark") = {}
    BY <1>1, <1>7, MergesWell
  <2>2. /\ Of(links', "mark") = {row \in rows : PostRow(from) \notin LinkParents(row)}
        /\ \A row \in rows : row.table = "mark"
    BY <1>4, <1>5, <2>1 DEF Tables
  <2> HIDE DEF rows
  <2>3. Of(links', "mark") = {row \in rows : row.post # from}
    BY <2>2, RefersNot
  <2> QED
    BY <1>2, <2>3, MovedMarks DEF rows
<1>8. ASSUME "pool_post" \notin stale[r], NEW k \in PoolIds
      PROVE  to \in PostsOf(links', k) <=> from \in PostsOf(links, k) \/ to \in PostsOf(links, k)
  <2>1. Of(links', "pool_post") = Moved(links, from, to)
    BY <1>8, MergeMoves
  <2> QED
    BY <1>2, <1>3, <2>1, MovedPlaces
<1>9. ASSUME "remark" \notin stale[r]
      PROVE  RemarksOf(links', to) = RemarksOf(links, from) \cup RemarksOf(links, to)
  <2> DEFINE old == {row \in Of(links, "remark") : row.post = from}
             rows == (Of(links, "remark") \ old) \cup {Remark(to, row.text) : row \in old}
  <2>1. /\ Of(put[r], "remark") = {Remark(to, row.text) : row \in old}
        /\ Of(cut[r], "remark") = old
    BY <1>1, <1>9, MergesWell
  <2> HIDE DEF old
  <2>2. /\ Of(links', "remark") = {row \in rows : PostRow(from) \notin LinkParents(row)}
        /\ \A row \in rows : row.table = "remark"
    BY <1>4, <1>5, <2>1 DEF Tables
  <2> HIDE DEF rows
  <2>3. Of(links', "remark") = {row \in rows : row.post # from}
    BY <2>2, RefersNot
  <2>4. old = {row \in Of(links, "remark") : row.post = from}
    BY DEF old
  <2> QED
    BY <1>2, <2>3, <2>4, MovedRemarks DEF rows
<1> QED
  BY <1>6, <1>7, <1>8, <1>9

\* PostMergeKeepsLinks: the target of a merge of posts has the relations, marks, places in
\* pools and remarks either post had, but for tables others changed in between.
THEOREM PostMergesKeep == LinkSpec => PostMergeKeepsLinks
<1> DEFINE Pools(rows, p) == {k \in PoolIds : p \in PostsOf(rows, k)}
           Kept(r, table, old, new) == table \in stale[r] \/ old = new
           Keeps(r) ==
               LET from == asks[r].absorbed
                   to   == asks[r].to
               IN  /\ Kept(r, "post_relation",
                           (RelatedTo(links, from) \cup RelatedTo(links, to)) \ {from, to},
                           RelatedTo(links', to))
                   /\ Kept(r, "mark", MarksOf(links, from) \cup MarksOf(links, to), MarksOf(links', to))
                   /\ Kept(r, "pool_post", Pools(links, from) \cup Pools(links, to), Pools(links', to))
                   /\ Kept(r, "remark", RemarksOf(links, from) \cup RemarksOf(links, to),
                           RemarksOf(links', to))
<1>1. ASSUME Inv, LinkNext, NEW r \in Calls, Ended(r), asks[r].kind = "merge posts"
      PROVE  Keeps(r)
  <2>1. PICK from, to : MergesPosts(r, from, to)
    BY <1>1 DEF MergesPosts
  <2>2. CommitLinks(r)
    BY <1>1, EndsByCommit
  <2>3. from = asks[r].absorbed /\ to = asks[r].to
    BY <2>1 DEF MergesPosts
  <2>4. "pool_post" \notin stale[r] => Pools(links', to) = Pools(links, from) \cup Pools(links, to)
    BY <1>1, <2>1, <2>2, PostMergeKeeps
  <2> QED
    BY <1>1, <2>1, <2>2, <2>3, <2>4, PostMergeKeeps
<1>2. Inv /\ [LinkNext]_linkVars =>
          [\A r \in Calls : Ended(r) /\ asks[r].kind = "merge posts" => Keeps(r)]_linkVars
  BY <1>1
<1> QED
  BY <1>2, Invariance, PTL DEF LinkSpec, PostMergeKeepsLinks
=============================================================================
