------------------------- MODULE CategoriesProofs -------------------------
(***************************************************************************)
(* Proofs about categories, for any number of requests, categories, names  *)
(* and tags: what a request has read of the rows holds until another one   *)
(* commits, and the rows set_default has written agree with it, so that    *)
(* every commit that was not overtaken is a step of the category book.     *)
(***************************************************************************)
EXTENDS Categories, TLAPS

Labels == {"idle", "rename", "delete", "file", "default", "to default",
           "others", "save new", "save old", "name"}

\* What set_default has read, moved and written, by its statements.
Swapping == {"save old", "name"}
Moved    == {"save new", "save old", "name"}
Moving   == {"others", "save new", "save old", "name"}
Compared == {"to default", "others", "save new", "save old", "name"}

-----------------------------------------------------------------------------
(* The inductive invariant.                                                 *)

\* There is a default category, no two share a name, and a tag's category exists.
RowsOK ==
    /\ cats[0] # None
    /\ \A i \in Ids : cats[i] # None => i <= last
    /\ \A i, j \in Ids : cats[i] # None /\ cats[i] = cats[j] => i = j
    /\ \A t \in Tags : tags[t] # None => cats[tags[t]] # None

\* What a request has read and asks for is of the right kind.
ReadOK(r) ==
    /\ pc[r] # "idle" => seen[r].name \in Names /\ seen[r].id <= last
    /\ pc[r] = "rename" => want[r] \in Names
    /\ pc[r] = "file" => want[r] \in Tags
    /\ pc[r] = "delete" => seen[r].id # 0
    /\ pc[r] \in Compared => seen[r].default \in Names

\* Rows written by set_default, by statement.
Blank      == [NoRows EXCEPT ![0] = Empty]
Written(r) == [Blank EXCEPT ![seen[r].id] = seen[r].default]

WrittenOK(r) ==
    /\ pc[r] \notin Swapping => row[r] = NoRows
    /\ pc[r] = "save old" => row[r] = Blank
    /\ pc[r] = "name" =>
          /\ row[r] = Written(r)
          /\ \A k \in Ids : k # 0 /\ k # seen[r].id => cats[k] # seen[r].default

MovedOK(r) ==
    /\ pc[r] \notin Moving => move[r] = NoTags
    /\ \A t \in Tags : move[r][t] \in {0, seen[r].id, None}

\* The rows are still as the request has read them.
Still(r) ==
    /\ cats[seen[r].id] = seen[r].name
    /\ pc[r] = "delete" => cats[0] # seen[r].name
    /\ pc[r] \in Compared => cats[0] = seen[r].default
    /\ pc[r] = "others" =>
          \A t \in Tags : move[r][t] = IF tags[t] = seen[r].id THEN 0 ELSE None
    /\ pc[r] \in Moved =>
          \A t \in Tags : move[r][t] = IF tags[t] = seen[r].id THEN 0
                                       ELSE IF tags[t] = 0 THEN seen[r].id ELSE None

StillOK(r) == pc[r] # "idle" /\ ~raced[r] => Still(r)

ReqOK(r) == ReadOK(r) /\ WrittenOK(r) /\ MovedOK(r) /\ StillOK(r)

\* The lock of row 0 lets one request in.
OneSwaps == \A r, s \in Reqs : pc[r] \in Swapping /\ pc[s] \in Swapping => r = s

Inv == TypeOK /\ RowsOK /\ OneSwaps /\ \A r \in Reqs : ReqOK(r)

-----------------------------------------------------------------------------
(* Types.                                                                   *)

\* Zero is an ID, and nothing is none.
LEMMA Numbers ==
    ASSUME Constants
    PROVE  /\ 0 \in Ids /\ None \notin Ids /\ 0 # None
           /\ None \notin Names /\ None # Empty
<1>1. 0 \in Ids /\ \A i \in Ids : i \in Nat
  BY DEF Constants, Ids
<1>2. None \notin Nat /\ None \notin Names /\ None # Empty
  BY DEF Constants
<1> QED
  BY <1>1, <1>2

LEMMA OneMore ==
    ASSUME Constants, last \in Ids, last < MaxId
    PROVE  last + 1 \in Ids /\ last \in Nat
BY DEF Constants, Ids

LEMMA StartInv ==
    ASSUME NEW names, NEW filed, Constants, Possible(names, filed), Start(names, filed)
    PROVE  Inv
<1>1. TypeOK
  BY DEF Constants, Possible, Start, TypeOK, NoRows, NoTags, Nothing, Ids
<1>2. RowsOK
  BY DEF Constants, Possible, Start, RowsOK, Ids
<1>3. OneSwaps
  BY DEF Start, OneSwaps, Swapping
<1>4. ASSUME NEW r \in Reqs PROVE ReqOK(r)
  BY DEF Start, ReqOK, ReadOK, WrittenOK, MovedOK, StillOK, Swapping, Moving, Compared, NoTags
<1> QED
  BY <1>1, <1>2, <1>3, <1>4 DEF Inv

\* A row is of a category, a temporary one, or none; a tag is in a category.
LEMMA RowType ==
    ASSUME TypeOK, NEW r \in Reqs
    PROVE  /\ \A i \in Ids : Row(r, i) \in Names \cup {Empty, None}
           /\ \A t \in Tags : Tag(r, t) \in Ids \cup {None}
<1>1. /\ cats \in [Ids -> Names \cup {None}]
      /\ row[r] \in [Ids -> Names \cup {Empty, None}]
  BY DEF TypeOK
<1>2. /\ tags \in [Tags -> Ids \cup {None}]
      /\ move[r] \in [Tags -> Ids \cup {None}]
  BY DEF TypeOK
<1>3. ASSUME NEW i \in Ids PROVE Row(r, i) \in Names \cup {Empty, None}
  BY <1>1 DEF Row
<1>4. ASSUME NEW t \in Tags PROVE Tag(r, t) \in Ids \cup {None}
  BY <1>2 DEF Tag
<1> QED
  BY <1>3, <1>4

LEMMA ReadType ==
    ASSUME Constants, TypeOK, NEW r \in Reqs, NEW n \in Names,
           NEW label \in Labels, NEW asked \in Names \cup Tags \cup {None},
           Read(r, n, label, asked)
    PROVE  TypeOK'
<1>1. seen' \in [Reqs -> [id : Ids, name : Names \cup {None}, default : Names \cup {None}]]
  <2>1. PICK i \in Ids : seen' = [seen EXCEPT ![r] = [id |-> i, name |-> n, default |-> None]]
    BY DEF Read
  <2>2. [id |-> i, name |-> n, default |-> None]
          \in [id : Ids, name : Names \cup {None}, default : Names \cup {None}]
    OBVIOUS
  <2>3. seen \in [Reqs -> [id : Ids, name : Names \cup {None}, default : Names \cup {None}]]
    BY DEF TypeOK
  <2> QED
    BY <2>1, <2>2, <2>3
<1>2. want' \in [Reqs -> Names \cup Tags \cup {None}] /\ raced' \in [Reqs -> BOOLEAN]
  BY DEF Read, TypeOK
<1>3. pc' \in [Reqs -> Labels]
  BY DEF Read, TypeOK, Goto, Labels
<1>4. cats' = cats /\ tags' = tags /\ last' = last /\ row' = row /\ move' = move
  BY DEF Read
<1> QED
  BY <1>1, <1>2, <1>3, <1>4 DEF TypeOK, Labels

LEMMA EndType ==
    ASSUME Constants, TypeOK, NEW r \in Reqs, End(r),
           cats' \in [Ids -> Names \cup {None}], tags' \in [Tags -> Ids \cup {None}],
           last' \in Ids
    PROVE  TypeOK'
<1>1. seen' \in [Reqs -> [id : Ids, name : Names \cup {None}, default : Names \cup {None}]]
  <2>1. Nothing \in [id : Ids, name : Names \cup {None}, default : Names \cup {None}]
    BY DEF Nothing, Constants, Ids
  <2>2. seen \in [Reqs -> [id : Ids, name : Names \cup {None}, default : Names \cup {None}]]
    BY DEF TypeOK
  <2> QED
    BY <2>1, <2>2 DEF End
<1>2. want' \in [Reqs -> Names \cup Tags \cup {None}]
  BY DEF End, TypeOK
<1>3. raced' \in [Reqs -> BOOLEAN]
  BY DEF End
<1>4. pc' \in [Reqs -> Labels]
  BY DEF End, TypeOK, Goto, Labels
<1>5. row' \in [Reqs -> [Ids -> Names \cup {Empty, None}]]
  BY DEF End, TypeOK, NoRows
<1>6. move' \in [Reqs -> [Tags -> Ids \cup {None}]]
  BY DEF End, TypeOK, NoTags
<1> QED
  BY <1>1, <1>2, <1>3, <1>4, <1>5, <1>6 DEF TypeOK, Labels

-----------------------------------------------------------------------------
(* Requests beside a step.                                                  *)

\* What another request has read, moved and written.
Same(q) == /\ row'[q] = row[q] /\ move'[q] = move[q] /\ pc'[q] = pc[q]
           /\ seen'[q] = seen[q] /\ want'[q] = want[q]

\* A step that commits nothing leaves another request as it was.
LEMMA BesideQuiet ==
    ASSUME NEW q \in Reqs, ReqOK(q), Same(q), raced'[q] = raced[q],
           cats' = cats, tags' = tags, last' = last
    PROVE  ReqOK(q)'
<1>1. ReadOK(q)'
  BY DEF ReqOK, ReadOK, Same
<1>2. WrittenOK(q)'
  BY DEF ReqOK, WrittenOK, Same, Written, Blank, NoRows
<1>3. MovedOK(q)'
  BY DEF ReqOK, MovedOK, Same, NoTags
<1>4. StillOK(q)'
  BY DEF ReqOK, StillOK, Still, Same
<1> QED
  BY <1>1, <1>2, <1>3, <1>4 DEF ReqOK

\* The end of a request overtakes the others, if it commits anything.
LEMMA BesideEnd ==
    ASSUME Inv, NEW r \in Reqs, End(r), NEW q \in Reqs, q # r,
           \A i \in Ids : i <= last => i <= last',
           pc[q] = "name" =>
              \A k \in Ids : k # 0 /\ k # seen[q].id => cats'[k] # seen[q].default
    PROVE  ReqOK(q)'
<1>0. ReqOK(q) /\ Same(q) /\ seen[q].id \in Ids
  BY DEF Inv, TypeOK, End, Goto, Same
<1>1. ReadOK(q)'
  BY <1>0 DEF ReqOK, ReadOK, Same
<1>2. WrittenOK(q)'
  BY <1>0 DEF ReqOK, WrittenOK, Same, Written, Blank, NoRows
<1>3. MovedOK(q)'
  BY <1>0 DEF ReqOK, MovedOK, Same, NoTags
<1>4. StillOK(q)'
  <2> SUFFICES ASSUME pc'[q] # "idle", ~raced'[q] PROVE Still(q)'
    BY DEF StillOK
  <2>1. ~raced[q] /\ cats' = cats /\ tags' = tags
    BY <1>0 DEF End, Same
  <2> QED
    BY <1>0, <2>1 DEF ReqOK, StillOK, Still, Same
<1> QED
  BY <1>1, <1>2, <1>3, <1>4 DEF ReqOK

LEMMA EndInv ==
    ASSUME Constants, Inv, NEW r \in Reqs, End(r), RowsOK',
           cats' \in [Ids -> Names \cup {None}], tags' \in [Tags -> Ids \cup {None}],
           last' \in Ids, \A i \in Ids : i <= last => i <= last',
           \A q \in Reqs \ {r} : pc[q] = "name" =>
              \A k \in Ids : k # 0 /\ k # seen[q].id => cats'[k] # seen[q].default
    PROVE  Inv'
<1>1. TypeOK'
  BY EndType DEF Inv
<1>2. pc'[r] = "idle" /\ \A q \in Reqs \ {r} : pc'[q] = pc[q]
  BY DEF End, Goto, Inv, TypeOK
<1>3. OneSwaps'
  BY <1>2 DEF Inv, OneSwaps, Swapping
<1>4. ReqOK(r)'
  <2>1. row'[r] = NoRows /\ move'[r] = NoTags
    BY DEF End, Inv, TypeOK
  <2> QED
    BY <1>2, <2>1 DEF ReqOK, ReadOK, WrittenOK, MovedOK, StillOK, Swapping, Moving,
                      Compared, NoRows, NoTags
<1>5. ASSUME NEW q \in Reqs, q # r PROVE ReqOK(q)'
  BY <1>5, BesideEnd
<1> QED
  BY <1>1, <1>3, <1>4, <1>5 DEF Inv

\* A request begins: it has read a row that is as it says.
LEMMA ReadInv ==
    ASSUME Constants, Inv, NEW r \in Reqs, NEW n \in Names,
           NEW label \in {"rename", "delete", "file", "default"},
           NEW asked \in Names \cup Tags \cup {None}, Read(r, n, label, asked),
           label = "rename" => asked \in Names,
           label = "file" => asked \in Tags,
           label = "delete" => n # cats[0]
    PROVE  Inv'
<1>1. TypeOK'
  BY ReadType DEF Inv, Labels
<1>2. cats' = cats /\ tags' = tags /\ last' = last /\ row' = row /\ move' = move
  BY DEF Read
<1>3. PICK i \in Ids : /\ cats[i] = n
                       /\ seen' = [seen EXCEPT ![r] = [id |-> i, name |-> n, default |-> None]]
  BY DEF Read
<1>4. /\ pc[r] = "idle" /\ pc'[r] = label /\ want'[r] = asked
      /\ seen'[r].id = i /\ seen'[r].name = n
  BY <1>3 DEF Read, Goto, Inv, TypeOK
<1>5. ASSUME NEW q \in Reqs, q # r PROVE Same(q) /\ raced'[q] = raced[q]
  BY <1>2, <1>3, <1>5 DEF Read, Goto, Inv, TypeOK, Same
<1>6. RowsOK'
  BY <1>2 DEF Inv, RowsOK
<1>7. OneSwaps'
  BY <1>4, <1>5 DEF Inv, OneSwaps, Swapping, Same
<1>8. ReqOK(r)'
  <2>1. ReqOK(r) /\ row[r] = NoRows /\ move[r] = NoTags
    BY <1>4 DEF Inv, ReqOK, WrittenOK, MovedOK, Swapping, Moving
  <2>2. ReadOK(r)'
    <3>1. /\ label = "delete" => i # 0
          /\ n # None /\ i <= last /\ last' = last
      BY <1>2, <1>3 DEF Inv, RowsOK, Constants
    <3> QED
      BY <1>4, <3>1 DEF ReadOK, Compared
  <2>3. WrittenOK(r)' /\ MovedOK(r)'
    BY <1>2, <1>4, <2>1 DEF WrittenOK, MovedOK, Swapping, Moving, NoRows, NoTags
  <2>4. StillOK(r)'
    BY <1>2, <1>3, <1>4 DEF StillOK, Still, Compared, Moved
  <2> QED
    BY <2>2, <2>3, <2>4 DEF ReqOK
<1>9. ASSUME NEW q \in Reqs, q # r PROVE ReqOK(q)'
  BY <1>2, <1>5, <1>9, BesideQuiet DEF Inv
<1> QED
  BY <1>1, <1>6, <1>7, <1>8, <1>9 DEF Inv

-----------------------------------------------------------------------------
(* Commits of create, update, delete, and of tags.                          *)

\* A free name is no committed category's but the row's own, nor one set_default gives.
LEMMA FreeName ==
    ASSUME Constants, Inv, NEW r \in Reqs, pc[r] \notin Swapping, NEW i \in Ids, NEW n \in Names,
           NameFree(r, i, n)
    PROVE  /\ \A j \in Ids \ {i} : cats[j] # n
           /\ \A q \in Reqs \ {r} : pc[q] = "name" => seen[q].default # n
<1>1. row[r] = NoRows
  BY DEF Inv, ReqOK, WrittenOK
<1>2. ASSUME NEW j \in Ids, j # i PROVE cats[j] # n
  BY <1>1, <1>2 DEF NameFree, Row, NoRows
<1>3. ASSUME NEW q \in Reqs, q # r, pc[q] = "name" PROVE seen[q].default # n
  <2>1. row[q] = Written(q) /\ seen[q].id \in Ids /\ seen[q].default \in Names
    BY <1>3 DEF Inv, TypeOK, ReqOK, ReadOK, WrittenOK, Compared
  <2>2. Written(q)[seen[q].id] = seen[q].default
    BY <2>1 DEF Written, Blank, NoRows
  <2> QED
    BY <1>3, <2>1, <2>2 DEF NameFree, Constants
<1> QED
  BY <1>2, <1>3

LEMMA CreateInv ==
    ASSUME Constants, Inv, NEW r \in Reqs, NEW n \in NewNames, Create(r, n)
    PROVE  Inv'
<1>0. last \in Ids /\ last < MaxId
  BY DEF Create, Inv, TypeOK
<1>1. n \in Names /\ n # None /\ last + 1 \in Ids /\ last \in Nat /\ pc[r] \notin Swapping
  BY <1>0, OneMore DEF Create, Constants, Swapping
<1>2. /\ \A j \in Ids \ {last + 1} : cats[j] # n
      /\ \A q \in Reqs \ {r} : pc[q] = "name" => seen[q].default # n
  BY <1>1, FreeName DEF Create
<1>3. cats \in [Ids -> Names \cup {None}] /\ tags \in [Tags -> Ids \cup {None}] /\ 0 \in Ids
  BY Numbers DEF Inv, TypeOK
<1>4. cats' = [cats EXCEPT ![last + 1] = n] /\ last' = last + 1 /\ tags' = tags /\ End(r)
  BY DEF Create
<1>5. cats[last + 1] = None
  <2>1. ~(last + 1 <= last)
    BY <1>1
  <2> QED
    BY <1>1, <2>1 DEF Inv, RowsOK
<1>6. RowsOK'
  <2>1. cats'[0] # None
    BY <1>1, <1>3, <1>4, <1>5 DEF Inv, RowsOK
  <2>2. ASSUME NEW i \in Ids, cats'[i] # None PROVE i <= last'
    <3>1. i = last + 1 \/ i <= last
      BY <1>3, <1>4, <2>2 DEF Inv, RowsOK
    <3>2. i \in Nat
      BY DEF Ids, Constants
    <3> QED
      BY <1>1, <1>4, <3>1, <3>2
  <2>3. ASSUME NEW i \in Ids, NEW j \in Ids, cats'[i] # None, cats'[i] = cats'[j] PROVE i = j
    BY <1>1, <1>2, <1>3, <1>4, <2>3 DEF Inv, RowsOK
  <2>4. ASSUME NEW t \in Tags, tags[t] # None PROVE cats'[tags[t]] # None
    BY <1>1, <1>3, <1>4, <2>4 DEF Inv, RowsOK
  <2> QED
    BY <1>4, <2>1, <2>2, <2>3, <2>4 DEF RowsOK
<1>7. \A q \in Reqs \ {r} : pc[q] = "name" =>
         \A k \in Ids : k # 0 /\ k # seen[q].id => cats'[k] # seen[q].default
  BY <1>2, <1>3, <1>4 DEF Inv, ReqOK, WrittenOK
<1>8. ASSUME NEW i \in Ids, i <= last PROVE i <= last'
  <2>1. i \in Nat
    BY DEF Ids, Constants
  <2> QED
    BY <1>1, <1>4, <1>8, <2>1
<1> QED
  BY <1>1, <1>3, <1>4, <1>6, <1>7, <1>8, EndInv

LEMMA UpdateInv ==
    ASSUME Constants, Inv, NEW r \in Reqs, Update(r)
    PROVE  Inv'
<1> DEFINE i == seen[r].id
<1>1. /\ want[r] \in Names /\ want[r] # None /\ i \in Ids /\ pc[r] \notin Swapping
      /\ cats[i] # None
  BY DEF Update, Constants, Inv, TypeOK, ReqOK, ReadOK, Swapping
<1>2. /\ \A j \in Ids \ {i} : cats[j] # want[r]
      /\ \A q \in Reqs \ {r} : pc[q] = "name" => seen[q].default # want[r]
  BY <1>1, FreeName DEF Update
<1>3. cats \in [Ids -> Names \cup {None}] /\ tags \in [Tags -> Ids \cup {None}] /\ last \in Ids
  BY DEF Inv, TypeOK
<1>4. cats' = [cats EXCEPT ![i] = want[r]] /\ last' = last /\ tags' = tags /\ End(r)
  BY DEF Update
<1> HIDE DEF i
<1>5. RowsOK'
  BY <1>1, <1>2, <1>3, <1>4 DEF Inv, RowsOK
<1>6. \A q \in Reqs \ {r} : pc[q] = "name" =>
         \A k \in Ids : k # 0 /\ k # seen[q].id => cats'[k] # seen[q].default
  BY <1>2, <1>3, <1>4 DEF Inv, ReqOK, WrittenOK
<1> QED
  BY <1>1, <1>3, <1>4, <1>5, <1>6, EndInv

LEMMA DeleteInv ==
    ASSUME Constants, Inv, NEW r \in Reqs, Delete(r)
    PROVE  Inv'
<1> DEFINE i == seen[r].id
<1>1. i \in Ids /\ i # 0 /\ 0 \in Ids /\ None \notin Names /\ None \notin Ids
  BY Numbers DEF Delete, Inv, TypeOK, ReqOK, ReadOK
<1>2. cats \in [Ids -> Names \cup {None}] /\ tags \in [Tags -> Ids \cup {None}] /\ last \in Ids
  BY DEF Inv, TypeOK
<1>3. /\ cats' = [cats EXCEPT ![i] = None] /\ last' = last
      /\ tags' = [t \in Tags |-> IF tags[t] = i THEN 0 ELSE tags[t]] /\ End(r)
  BY DEF Delete
<1> HIDE DEF i
<1>4. RowsOK'
  BY <1>1, <1>2, <1>3 DEF Inv, RowsOK
<1>5. ASSUME NEW q \in Reqs \ {r}, pc[q] = "name", NEW k \in Ids, k # 0, k # seen[q].id
      PROVE  cats'[k] # seen[q].default
  <2>1. seen[q].default \in Names /\ cats[k] # seen[q].default
    BY <1>5 DEF Inv, ReqOK, ReadOK, WrittenOK, Compared
  <2> QED
    BY <1>1, <1>2, <1>3, <2>1
<1>6. tags' \in [Tags -> Ids \cup {None}] /\ cats' \in [Ids -> Names \cup {None}]
  BY <1>1, <1>2, <1>3
<1> QED
  BY <1>2, <1>3, <1>4, <1>5, <1>6, EndInv

LEMMA FileInv ==
    ASSUME Constants, Inv, NEW r \in Reqs, File(r)
    PROVE  Inv'
<1> DEFINE i == seen[r].id
<1>1. i \in Ids /\ cats[i] # None /\ want[r] \in Tags
  BY DEF File, Inv, TypeOK, ReqOK, ReadOK
<1>2. cats \in [Ids -> Names \cup {None}] /\ tags \in [Tags -> Ids \cup {None}] /\ last \in Ids
  BY DEF Inv, TypeOK
<1>3. cats' = cats /\ last' = last /\ tags' = [tags EXCEPT ![want[r]] = i] /\ End(r)
  BY DEF File
<1> HIDE DEF i
<1>4. RowsOK'
  BY <1>1, <1>2, <1>3 DEF Inv, RowsOK
<1>5. \A q \in Reqs \ {r} : pc[q] = "name" =>
         \A k \in Ids : k # 0 /\ k # seen[q].id => cats'[k] # seen[q].default
  BY <1>3 DEF Inv, ReqOK, WrittenOK
<1> QED
  BY <1>1, <1>2, <1>3, <1>4, <1>5, EndInv

LEMMA AbortInv ==
    ASSUME Constants, Inv, NEW r \in Reqs, Abort(r)
    PROVE  Inv'
<1>1. cats' = cats /\ tags' = tags /\ last' = last /\ End(r)
  BY DEF Abort
<1>2. RowsOK'
  BY <1>1 DEF Inv, RowsOK
<1>3. \A q \in Reqs \ {r} : pc[q] = "name" =>
         \A k \in Ids : k # 0 /\ k # seen[q].id => cats'[k] # seen[q].default
  BY <1>1 DEF Inv, ReqOK, WrittenOK
<1> QED
  BY <1>1, <1>2, <1>3, EndInv DEF Inv, TypeOK

-----------------------------------------------------------------------------
(* set_default, statement by statement.                                     *)

\* A statement that commits nothing leaves what is committed, and the others.
LEMMA StatementInv ==
    ASSUME Inv, NEW r \in Reqs, TypeOK', UNCHANGED <<cats, tags, last>>,
           \A q \in Reqs \ {r} : Same(q) /\ raced'[q] = raced[q],
           pc'[r] \in Swapping => \A q \in Reqs \ {r} : pc[q] \notin Swapping,
           ReqOK(r)'
    PROVE  Inv'
<1>1. RowsOK'
  BY DEF Inv, RowsOK
<1>2. OneSwaps'
  BY DEF Inv, OneSwaps, Same
<1>3. ASSUME NEW q \in Reqs, q # r PROVE ReqOK(q)'
  BY <1>3, BesideQuiet DEF Inv
<1> QED
  BY <1>1, <1>2, <1>3 DEF Inv

LEMMA ReadDefaultInv ==
    ASSUME Constants, Inv, NEW r \in Reqs, ReadDefault(r)
    PROVE  Inv'
<1>0. /\ cats[0] \in Names /\ seen[r].name \in Names
      /\ row[r] = NoRows /\ move[r] = NoTags /\ ReqOK(r)
      /\ seen \in [Reqs -> [id : Ids, name : Names \cup {None}, default : Names \cup {None}]]
  BY Numbers
     DEF ReadDefault, Inv, TypeOK, RowsOK, ReqOK, ReadOK, WrittenOK, MovedOK, Swapping, Moving
<1>1. UNCHANGED <<cats, tags, last, row, move, want, raced>>
  BY DEF ReadDefault
<1>2. /\ pc[r] = "default" /\ pc'[r] = "to default"
      /\ seen' = [seen EXCEPT ![r].default = cats[0]]
  BY DEF ReadDefault, Goto, Inv, TypeOK
<1>3. seen'[r].id = seen[r].id /\ seen'[r].name = seen[r].name /\ seen'[r].default = cats[0]
  BY <1>0, <1>2
<1>4. TypeOK'
  <2>1. pc' \in [Reqs -> Labels]
    BY DEF ReadDefault, Goto, Inv, TypeOK, Labels
  <2>2. seen' \in [Reqs -> [id : Ids, name : Names \cup {None}, default : Names \cup {None}]]
    BY <1>0, <1>2
  <2> QED
    BY <1>1, <2>1, <2>2 DEF Inv, TypeOK, Labels
<1>5. ASSUME NEW q \in Reqs, q # r PROVE Same(q) /\ raced'[q] = raced[q]
  BY <1>0, <1>1, <1>2, <1>5 DEF ReadDefault, Goto, Inv, TypeOK, Same
<1>6. ReqOK(r)'
  BY <1>0, <1>1, <1>2, <1>3
     DEF ReqOK, ReadOK, WrittenOK, MovedOK, StillOK, Still, Swapping, Moving, Moved, Compared,
         NoRows, NoTags
<1> QED
  BY <1>1, <1>2, <1>4, <1>5, <1>6, StatementInv DEF Swapping

\* Tags a statement moves; all that have not been moved are as committed.
LEMMA MoveTagsInv ==
    ASSUME Constants, Inv, NEW r \in Reqs, NEW from \in {0, seen[r].id}, NEW to \in {0, seen[r].id},
           MoveTags(r, from, to), NEW label \in {"others", "save new"}, Goto(r, label),
           pc[r] \in {"to default", "others"},
           ~raced[r] =>
              \A t \in Tags : move'[r][t] =
                 IF tags[t] = seen[r].id THEN 0
                 ELSE IF label = "save new" /\ tags[t] = 0 THEN seen[r].id ELSE None
    PROVE  Inv'
<1>0. /\ seen[r].id \in Ids /\ 0 \in Ids /\ row[r] = NoRows /\ ReqOK(r)
      /\ move[r] \in [Tags -> Ids \cup {None}] /\ move \in [Reqs -> [Tags -> Ids \cup {None}]]
  BY Numbers DEF Inv, TypeOK, ReqOK, WrittenOK, Swapping
<1>1. UNCHANGED <<cats, tags, last, row, seen, want, raced>>
  BY DEF MoveTags
<1>2. PICK moving \in SUBSET Tags :
         move' = [move EXCEPT ![r] = [t \in Tags |-> IF t \in moving THEN to ELSE move[r][t]]]
  BY DEF MoveTags
<1>3. move' \in [Reqs -> [Tags -> Ids \cup {None}]]
  BY <1>0, <1>2
<1>4. \A t \in Tags : move'[r][t] \in {0, seen[r].id, None}
  BY <1>0, <1>2 DEF ReqOK, MovedOK
<1>5. pc' \in [Reqs -> Labels] /\ pc'[r] = label
  BY DEF Goto, Inv, TypeOK, Labels
<1>6. TypeOK'
  BY <1>1, <1>3, <1>5 DEF Inv, TypeOK, Labels
<1>7. ASSUME NEW q \in Reqs, q # r PROVE Same(q) /\ raced'[q] = raced[q]
  BY <1>0, <1>1, <1>2, <1>7 DEF Goto, Inv, TypeOK, Same
<1>8. ReqOK(r)'
  <2>1. ReadOK(r)'
    BY <1>0, <1>1, <1>5 DEF ReqOK, ReadOK, Compared
  <2>2. WrittenOK(r)'
    BY <1>0, <1>1, <1>5 DEF WrittenOK, Swapping, NoRows
  <2>3. MovedOK(r)'
    BY <1>1, <1>4, <1>5 DEF MovedOK, Moving
  <2>4. StillOK(r)'
    BY <1>0, <1>1, <1>5 DEF ReqOK, StillOK, Still, Compared, Moved
  <2> QED
    BY <2>1, <2>2, <2>3, <2>4 DEF ReqOK
<1> QED
  BY <1>1, <1>5, <1>6, <1>7, <1>8, StatementInv DEF Swapping

LEMMA MoveToDefaultInv ==
    ASSUME Constants, Inv, NEW r \in Reqs, MoveToDefault(r)
    PROVE  Inv'
<1>1. pc[r] = "to default" /\ MoveTags(r, seen[r].id, 0) /\ Goto(r, "others")
  BY DEF MoveToDefault
<1>2. move[r] = NoTags /\ move \in [Reqs -> [Tags -> Ids \cup {None}]]
  BY <1>1 DEF Inv, TypeOK, ReqOK, MovedOK, Moving
<1>3. ASSUME NEW t \in Tags PROVE move'[r][t] = IF tags[t] = seen[r].id THEN 0 ELSE None
  BY <1>1, <1>2 DEF MoveTags, Tag, NoTags
<1> QED
  BY <1>1, <1>3, MoveTagsInv

LEMMA MoveOthersInv ==
    ASSUME Constants, Inv, NEW r \in Reqs, MoveOthers(r)
    PROVE  Inv'
<1>1. pc[r] = "others" /\ MoveTags(r, 0, seen[r].id) /\ Goto(r, "save new")
  BY DEF MoveOthers
<1>2. move \in [Reqs -> [Tags -> Ids \cup {None}]] /\ 0 # None
  BY Numbers DEF Inv, TypeOK
<1>3. ASSUME ~raced[r], NEW t \in Tags
      PROVE  move'[r][t] = IF tags[t] = seen[r].id THEN 0
                           ELSE IF tags[t] = 0 THEN seen[r].id ELSE None
  <2>1. move[r][t] = IF tags[t] = seen[r].id THEN 0 ELSE None
    BY <1>1, <1>3 DEF Inv, ReqOK, StillOK, Still
  <2> QED
    BY <1>1, <1>2, <2>1 DEF MoveTags, Tag
<1> QED
  BY <1>1, <1>3, MoveTagsInv

LEMMA SaveNewDefaultInv ==
    ASSUME Constants, Inv, NEW r \in Reqs, SaveNewDefault(r)
    PROVE  Inv'
<1>0. /\ seen[r].id \in Ids /\ row[r] = NoRows /\ ReqOK(r) /\ pc[r] = "save new"
      /\ row \in [Reqs -> [Ids -> Names \cup {Empty, None}]]
  BY DEF SaveNewDefault, Inv, TypeOK, ReqOK, WrittenOK, Swapping
<1>1. UNCHANGED <<cats, tags, last, move, seen, want, raced>>
  BY DEF SaveNewDefault, SaveRow
<1>2. row' = [row EXCEPT ![r] = Blank]
  BY <1>0 DEF SaveNewDefault, SaveRow, Blank
<1>3. pc' \in [Reqs -> Labels] /\ pc'[r] = "save old"
  BY DEF SaveNewDefault, Goto, Inv, TypeOK, Labels
<1>4. Blank \in [Ids -> Names \cup {Empty, None}]
  BY Numbers DEF Blank, NoRows
<1>5. TypeOK'
  <2>1. row' \in [Reqs -> [Ids -> Names \cup {Empty, None}]]
    BY <1>0, <1>2, <1>4
  <2> QED
    BY <1>1, <1>3, <2>1 DEF Inv, TypeOK, Labels
<1>6. ASSUME NEW q \in Reqs, q # r PROVE Same(q) /\ raced'[q] = raced[q]
  BY <1>0, <1>1, <1>2, <1>6 DEF SaveNewDefault, Goto, Inv, TypeOK, Same
<1>7. ASSUME NEW q \in Reqs, q # r PROVE pc[q] \notin Swapping
  <2>1. row[q][0] = None
    BY <1>7, Numbers DEF SaveNewDefault, SaveRow, RowFree
  <2>2. CASE pc[q] = "save old"
    <3>1. row[q][0] = Empty
      BY <2>2, Numbers DEF Inv, ReqOK, WrittenOK, Blank, NoRows
    <3> QED
      BY <2>1, <3>1, Numbers
  <2>3. CASE pc[q] = "name"
    <3>1. seen[q].default \in Names /\ row[q] = Written(q) /\ seen[q].id \in Ids
      BY <2>3 DEF Inv, TypeOK, ReqOK, ReadOK, WrittenOK, Compared
    <3>2. Written(q)[0] \in {Empty, seen[q].default}
      BY <3>1, Numbers DEF Written, Blank, NoRows
    <3> QED
      BY <2>1, <3>1, <3>2, Numbers
  <2> QED
    BY <2>2, <2>3 DEF Swapping
<1>8. ReqOK(r)'
  <2>1. ReadOK(r)'
    BY <1>0, <1>1, <1>3 DEF ReqOK, ReadOK, Compared
  <2>2. WrittenOK(r)'
    BY <1>0, <1>2, <1>3 DEF WrittenOK, Swapping, Blank, NoRows
  <2>3. MovedOK(r)'
    BY <1>0, <1>1, <1>3 DEF ReqOK, MovedOK, Moving
  <2>4. StillOK(r)'
    BY <1>0, <1>1, <1>3 DEF ReqOK, StillOK, Still, Compared, Moved
  <2> QED
    BY <2>1, <2>2, <2>3, <2>4 DEF ReqOK
<1> QED
  BY <1>1, <1>5, <1>6, <1>7, <1>8, StatementInv

LEMMA SaveOldDefaultInv ==
    ASSUME Constants, Inv, NEW r \in Reqs, SaveOldDefault(r)
    PROVE  Inv'
<1>0. /\ seen[r].id \in Ids /\ row[r] = Blank /\ ReqOK(r) /\ pc[r] = "save old"
      /\ row \in [Reqs -> [Ids -> Names \cup {Empty, None}]] /\ seen[r].default \in Names
  BY DEF SaveOldDefault, Inv, TypeOK, ReqOK, ReadOK, WrittenOK, Compared
<1>1. UNCHANGED <<cats, tags, last, move, seen, want, raced>>
  BY DEF SaveOldDefault, SaveRow
<1>2. row' = [row EXCEPT ![r] = Written(r)]
  BY <1>0 DEF SaveOldDefault, SaveRow, Written
<1>3. pc' \in [Reqs -> Labels] /\ pc'[r] = "name"
  BY DEF SaveOldDefault, Goto, Inv, TypeOK, Labels
<1>4. Written(r) \in [Ids -> Names \cup {Empty, None}]
  BY <1>0, Numbers DEF Written, Blank, NoRows
<1>5. TypeOK'
  <2>1. row' \in [Reqs -> [Ids -> Names \cup {Empty, None}]]
    BY <1>0, <1>2, <1>4
  <2> QED
    BY <1>1, <1>3, <2>1 DEF Inv, TypeOK, Labels
<1>6. ASSUME NEW q \in Reqs, q # r PROVE Same(q) /\ raced'[q] = raced[q]
  BY <1>0, <1>1, <1>2, <1>6 DEF SaveOldDefault, Goto, Inv, TypeOK, Same
<1>7. ASSUME NEW q \in Reqs, q # r PROVE pc[q] \notin Swapping
  BY <1>0, <1>7 DEF Inv, OneSwaps, Swapping
<1>8. ReqOK(r)'
  <2>1. ReadOK(r)'
    BY <1>0, <1>1, <1>3 DEF ReqOK, ReadOK, Compared
  <2>2. WrittenOK(r)'
    <3>1. row'[r] = Written(r)'
      BY <1>0, <1>1, <1>2 DEF Written, Blank, NoRows
    <3>2. ASSUME NEW k \in Ids, k # 0, k # seen[r].id PROVE cats[k] # seen[r].default
      <4>1. Row(r, k) # seen[r].default
        BY <3>2 DEF SaveOldDefault, SaveRow, NameFree
      <4>2. Row(r, k) = cats[k]
        BY <1>0, <3>2 DEF Row, Blank, NoRows
      <4> QED
        BY <4>1, <4>2
    <3> QED
      BY <1>1, <1>3, <3>1, <3>2 DEF WrittenOK, Swapping
  <2>3. MovedOK(r)'
    BY <1>0, <1>1, <1>3 DEF ReqOK, MovedOK, Moving
  <2>4. StillOK(r)'
    BY <1>0, <1>1, <1>3 DEF ReqOK, StillOK, Still, Compared, Moved
  <2> QED
    BY <2>1, <2>2, <2>3, <2>4 DEF ReqOK
<1> QED
  BY <1>1, <1>5, <1>6, <1>7, <1>8, StatementInv

\* The commit of set_default: the two rows have each other's names.
LEMMA Swapped ==
    ASSUME Constants, Inv, NEW r \in Reqs, NameNewDefault(r)
    PROVE  /\ seen[r].id \in Ids /\ seen[r].id <= last
           /\ seen[r].name \in Names /\ seen[r].default \in Names
           /\ cats' = [i \in Ids |-> IF i = 0 THEN seen[r].name
                                     ELSE IF i = seen[r].id THEN seen[r].default ELSE cats[i]]
           /\ \A i \in Ids : i # 0 => cats'[i] # seen[r].name
           /\ \A k \in Ids : k # 0 /\ k # seen[r].id => cats[k] # seen[r].default
<1>1. /\ seen[r].id \in Ids /\ seen[r].id <= last
      /\ seen[r].name \in Names /\ seen[r].default \in Names
      /\ row[r] = Written(r) /\ cats \in [Ids -> Names \cup {None}]
      /\ \A k \in Ids : k # 0 /\ k # seen[r].id => cats[k] # seen[r].default
  BY DEF NameNewDefault, Inv, TypeOK, ReqOK, ReadOK, WrittenOK, Compared
<1> DEFINE written == [row[r] EXCEPT ![0] = seen[r].name]
<1>2. ASSUME NEW i \in Ids
      PROVE  written[i] = IF i = 0 THEN seen[r].name
                          ELSE IF i = seen[r].id THEN seen[r].default ELSE None
  BY <1>1, Numbers DEF Written, Blank, NoRows
<1>3. cats' = [i \in Ids |-> IF written[i] # None THEN written[i] ELSE cats[i]]
  BY DEF NameNewDefault
<1> HIDE DEF written
<1>4. cats' = [i \in Ids |-> IF i = 0 THEN seen[r].name
                             ELSE IF i = seen[r].id THEN seen[r].default ELSE cats[i]]
  BY <1>1, <1>2, <1>3, Numbers
<1>5. ASSUME NEW i \in Ids, i # 0 PROVE cats'[i] # seen[r].name
  <2>1. Row(r, i) # seen[r].name
    BY <1>5 DEF NameNewDefault, NameFree
  <2>2. Row(r, i) = IF i = seen[r].id THEN seen[r].default ELSE cats[i]
    BY <1>1, <1>5, Numbers DEF Row, Written, Blank, NoRows
  <2> QED
    BY <1>4, <1>5, <2>1, <2>2
<1> QED
  BY <1>1, <1>4, <1>5

LEMMA NameNewDefaultInv ==
    ASSUME Constants, Inv, NEW r \in Reqs, NameNewDefault(r)
    PROVE  Inv'
<1> DEFINE id == seen[r].id
           n  == seen[r].name
           d  == seen[r].default
<1>1. /\ id \in Ids /\ id <= last /\ n \in Names /\ d \in Names
      /\ cats' = [i \in Ids |-> IF i = 0 THEN n ELSE IF i = id THEN d ELSE cats[i]]
      /\ \A i \in Ids : i # 0 => cats'[i] # n
      /\ \A k \in Ids : k # 0 /\ k # id => cats[k] # d
  BY Swapped
<1>2. last' = last /\ End(r) /\ pc[r] = "name"
  BY DEF NameNewDefault
<1>3. ASSUME NEW t \in Tags PROVE tags'[t] \in {0, id, tags[t]}
  BY <1>3 DEF NameNewDefault, Tag, Inv, ReqOK, MovedOK
<1>4. /\ cats \in [Ids -> Names \cup {None}] /\ tags \in [Tags -> Ids \cup {None}]
      /\ last \in Ids /\ RowsOK
  BY DEF Inv, TypeOK
<1>5. tags' \in [Tags -> Ids \cup {None}]
  BY RowType DEF NameNewDefault, Inv
<1> HIDE DEF id, n, d
<1>6. cats' \in [Ids -> Names \cup {None}] /\ cats'[0] = n /\ n # None /\ d # None
  BY <1>1, <1>4, Numbers
<1>7. RowsOK'
  <2>1. \A i \in Ids : cats'[i] # None => i <= last'
    <3>1. \A i \in Ids : i = 0 => i <= last
      BY <1>4 DEF RowsOK
    <3> QED
      BY <1>1, <1>2, <1>4, <3>1 DEF RowsOK
  <2>2. ASSUME NEW i \in Ids, NEW j \in Ids, cats'[i] # None, cats'[i] = cats'[j] PROVE i = j
    <3>1. CASE i = 0 \/ j = 0
      BY <1>1, <1>6, <2>2, <3>1
    <3>2. CASE i # 0 /\ j # 0
      BY <1>1, <1>4, <2>2, <3>2 DEF RowsOK
    <3> QED
      BY <3>1, <3>2
  <2>3. ASSUME NEW t \in Tags, tags'[t] # None PROVE cats'[tags'[t]] # None
    <3>1. cats'[0] # None /\ cats'[id] # None
      BY <1>1, <1>6
    <3>2. CASE tags'[t] = tags[t]
      <4>1. tags[t] \in Ids /\ cats[tags[t]] # None
        BY <1>4, <2>3, <3>2 DEF RowsOK
      <4> QED
        BY <1>1, <1>6, <3>2, <4>1
    <3> QED
      BY <1>3, <3>1, <3>2
  <2> QED
    BY <1>6, <2>1, <2>2, <2>3 DEF RowsOK
<1>8. \A q \in Reqs \ {r} : pc[q] # "name"
  BY <1>2 DEF Inv, OneSwaps, Swapping
<1> QED
  BY <1>2, <1>4, <1>5, <1>6, <1>7, <1>8, EndInv

-----------------------------------------------------------------------------
(* The invariant holds.                                                     *)

LEMMA StepInv ==
    ASSUME Constants, Inv, [Next]_catVars
    PROVE  Inv'
<1>1. CASE Next
  <2>1. PICK r \in Reqs :
           \/ \E n \in Names :
                 \/ n \in NewNames /\ Create(r, n)
                 \/ StartDelete(r, n)
                 \/ StartSetDefault(r, n)
                 \/ \E m \in NewNames \cup {n} : StartUpdate(r, n, m)
                 \/ \E t \in Tags : StartFile(r, t, n)
           \/ \E t \in Tags : StartKeep(r, t)
           \/ Update(r) \/ Delete(r) \/ File(r)
           \/ ReadDefault(r) \/ MoveToDefault(r) \/ MoveOthers(r)
           \/ SaveNewDefault(r) \/ SaveOldDefault(r) \/ NameNewDefault(r)
           \/ Abort(r)
    BY <1>1 DEF Next
  <2>2. ASSUME NEW n \in NewNames, Create(r, n) PROVE Inv'
    BY <2>2, CreateInv
  <2>3. ASSUME NEW n \in Names, StartDelete(r, n) PROVE Inv'
    BY <2>3, ReadInv DEF StartDelete
  <2>4. ASSUME NEW n \in Names, StartSetDefault(r, n) PROVE Inv'
    BY <2>4, ReadInv DEF StartSetDefault
  <2>5. ASSUME NEW n \in Names, NEW m \in NewNames \cup {n}, StartUpdate(r, n, m) PROVE Inv'
    <3>1. m \in Names
      BY DEF Constants
    <3> QED
      BY <2>5, <3>1, ReadInv DEF StartUpdate
  <2>6. ASSUME NEW n \in Names, NEW t \in Tags, StartFile(r, t, n) PROVE Inv'
    BY <2>6, ReadInv DEF StartFile
  <2>7. ASSUME NEW t \in Tags, StartKeep(r, t) PROVE Inv'
    <3>1. tags[t] \in Ids /\ cats[tags[t]] \in Names
      BY <2>7 DEF StartKeep, Inv, TypeOK, RowsOK
    <3> QED
      BY <2>7, <3>1, ReadInv DEF StartKeep
  <2> QED
    BY <2>1, <2>2, <2>3, <2>4, <2>5, <2>6, <2>7, UpdateInv, DeleteInv, FileInv, ReadDefaultInv,
       MoveToDefaultInv, MoveOthersInv, SaveNewDefaultInv, SaveOldDefaultInv, NameNewDefaultInv,
       AbortInv
<1>2. CASE UNCHANGED catVars
  <2>1. TypeOK'
    BY <1>2 DEF Inv, TypeOK, catVars
  <2>2. RowsOK' /\ OneSwaps'
    BY <1>2 DEF Inv, RowsOK, OneSwaps, catVars
  <2>3. ASSUME NEW q \in Reqs PROVE ReqOK(q)'
    BY <1>2, BesideQuiet DEF Inv, Same, catVars
  <2> QED
    BY <2>1, <2>2, <2>3 DEF Inv
<1> QED
  BY <1>1, <1>2

LEMMA Invariance ==
    ASSUME Constants, NEW CONSTANT names, NEW CONSTANT filed, Possible(names, filed)
    PROVE  Spec(names, filed) => []Inv
<1>1. Start(names, filed) => Inv
  BY StartInv
<1>2. Inv /\ [Next]_catVars => Inv'
  BY StepInv
<1> QED
  BY <1>1, <1>2, PTL DEF Spec

\* Every variable keeps its type, from any rows the tables can hold: an ID read from a
\* row stays an ID, and "" is never a committed category's name (api/tag_category.rs).
THEOREM TypeCorrect ==
    ASSUME Constants, NEW CONSTANT names, NEW CONSTANT filed, Possible(names, filed)
    PROVE  Spec(names, filed) => []TypeOK
<1>1. Inv => TypeOK
  BY DEF Inv
<1> QED
  BY <1>1, Invariance, PTL

-----------------------------------------------------------------------------
(* Every commit that was not overtaken is a step of the book.               *)

\* The category of each tag by its name, before and after a commit.
LEMMA OfTags ==
    ASSUME Inv, NEW t \in Tags
    PROVE  /\ tags[t] \in Ids \cup {None} /\ (tags[t] # None => cats[tags[t]] \in Names)
           /\ \A i \in Ids : cats[i] # None /\ tags[t] # None /\ cats[tags[t]] = cats[i]
                               => tags[t] = i
<1>1. tags \in [Tags -> Ids \cup {None}] /\ cats \in [Ids -> Names \cup {None}] /\ RowsOK
  BY DEF Inv, TypeOK
<1> QED
  BY <1>1 DEF RowsOK

LEMMA CreateBook ==
    ASSUME Constants, Inv, NEW r \in Reqs, NEW n \in NewNames, Create(r, n)
    PROVE  Book!Next
<1>0. last \in Ids /\ last < MaxId
  BY DEF Create, Inv, TypeOK
<1>1. n \in Names /\ n # None /\ last + 1 \in Ids /\ last \in Nat /\ pc[r] \notin Swapping
  BY <1>0, OneMore DEF Create, Constants, Swapping
<1>2. \A j \in Ids \ {last + 1} : cats[j] # n
  BY <1>1, FreeName DEF Create
<1>3. cats \in [Ids -> Names \cup {None}] /\ tags \in [Tags -> Ids \cup {None}]
  BY DEF Inv, TypeOK
<1>4. cats' = [cats EXCEPT ![last + 1] = n] /\ tags' = tags
  BY DEF Create
<1>5. cats[last + 1] = None
  <2>1. ~(last + 1 <= last)
    BY <1>1
  <2> QED
    BY <1>1, <2>1 DEF Inv, RowsOK
<1>6. n \notin {cats[i] : i \in Ids} \ {None}
  BY <1>1, <1>2, <1>5
<1>7. {cats'[i] : i \in Ids} \ {None} = ({cats[i] : i \in Ids} \ {None}) \cup {n}
  BY <1>1, <1>3, <1>4, <1>5
<1>8. cats'[0] = cats[0]
  BY <1>1, <1>3, <1>4, <1>5, Numbers DEF Inv, RowsOK
<1>9. ASSUME NEW t \in Tags, tags[t] # None PROVE cats'[tags[t]] = cats[tags[t]]
  BY <1>1, <1>3, <1>4, <1>5, <1>9 DEF Inv, RowsOK
<1>10. Book!Create(n)
  BY <1>4, <1>6, <1>7, <1>8, <1>9 DEF Book!Create
<1> QED
  BY <1>1, <1>10 DEF Book!Next

LEMMA UpdateBook ==
    ASSUME Constants, Inv, NEW r \in Reqs, Update(r), ~raced[r]
    PROVE  [Book!Next]_(Book!bookVars)
<1> DEFINE i == seen[r].id
<1>0. PICK n \in Names, m \in Names : n = seen[r].name /\ m = want[r]
  BY DEF Update, Inv, ReqOK, ReadOK
<1>1. /\ m # None /\ n # None /\ i \in Ids /\ cats[i] = n
      /\ pc[r] \notin Swapping /\ 0 \in Ids
  BY <1>0, Numbers DEF Update, Inv, TypeOK, ReqOK, StillOK, Still, Swapping
<1>2. \A j \in Ids \ {i} : cats[j] # m
  BY <1>0, <1>1, FreeName DEF Update
<1>3. cats \in [Ids -> Names \cup {None}] /\ tags \in [Tags -> Ids \cup {None}] /\ RowsOK
  BY DEF Inv, TypeOK
<1>4. cats' = [cats EXCEPT ![i] = m] /\ tags' = tags
  BY <1>0 DEF Update
<1> HIDE DEF i
<1>5. CASE m = n
  <2>1. cats' = cats
    BY <1>1, <1>3, <1>4, <1>5
  <2> QED
    BY <1>4, <2>1 DEF Book!bookVars
<1>6. CASE m # n
  <2>1. n \in {cats[j] : j \in Ids} \ {None} /\ m \notin {cats[j] : j \in Ids} \ {None}
    BY <1>1, <1>2, <1>6
  <2>2. {cats'[j] : j \in Ids} \ {None} = (({cats[j] : j \in Ids} \ {None}) \ {n}) \cup {m}
    <3>1. \A j \in Ids : j # i => cats[j] # n
      BY <1>1, <1>3 DEF RowsOK
    <3> QED
      BY <1>1, <1>3, <1>4, <3>1
  <2>3. cats'[0] = IF cats[0] = n THEN m ELSE cats[0]
    BY <1>1, <1>3, <1>4 DEF RowsOK
  <2>4. ASSUME NEW t \in Tags
        PROVE  (IF tags'[t] = None THEN None ELSE cats'[tags'[t]])
                 = IF (IF tags[t] = None THEN None ELSE cats[tags[t]]) = n
                   THEN m ELSE IF tags[t] = None THEN None ELSE cats[tags[t]]
    <3>1. CASE tags[t] = None
      BY <1>1, <1>4, <3>1
    <3>2. CASE tags[t] # None /\ tags[t] = i
      BY <1>1, <1>3, <1>4, <3>2
    <3>3. CASE tags[t] # None /\ tags[t] # i
      BY <1>1, <1>3, <1>4, <3>3, OfTags
    <3> QED
      BY <3>1, <3>2, <3>3
  <2>5. Book!Rename(n, m)
    BY <2>1, <2>2, <2>3, <2>4 DEF Book!Rename
  <2> QED
    BY <1>1, <2>5 DEF Book!Next
<1> QED
  BY <1>5, <1>6

LEMMA DeleteBook ==
    ASSUME Constants, Inv, NEW r \in Reqs, Delete(r), ~raced[r]
    PROVE  Book!Next
<1> DEFINE i == seen[r].id
<1>0. PICK n \in Names : n = seen[r].name
  BY DEF Delete, Inv, ReqOK, ReadOK
<1>1. /\ n # None /\ i \in Ids /\ cats[i] = n /\ i # 0 /\ cats[0] # n
      /\ 0 \in Ids /\ 0 # None
  BY <1>0, Numbers DEF Delete, Inv, TypeOK, ReqOK, ReadOK, StillOK, Still
<1>2. cats \in [Ids -> Names \cup {None}] /\ tags \in [Tags -> Ids \cup {None}] /\ RowsOK
  BY DEF Inv, TypeOK
<1>3. /\ cats' = [cats EXCEPT ![i] = None]
      /\ tags' = [t \in Tags |-> IF tags[t] = i THEN 0 ELSE tags[t]]
  BY DEF Delete
<1> HIDE DEF i
<1>4. n \in ({cats[j] : j \in Ids} \ {None}) \ {cats[0]}
  BY <1>1
<1>5. {cats'[j] : j \in Ids} \ {None} = ({cats[j] : j \in Ids} \ {None}) \ {n}
  <2>1. \A j \in Ids : j # i => cats[j] # n
    BY <1>1, <1>2 DEF RowsOK
  <2> QED
    BY <1>1, <1>2, <1>3, <2>1
<1>6. cats'[0] = cats[0]
  BY <1>1, <1>2, <1>3
<1>7. ASSUME NEW t \in Tags
      PROVE  (IF tags'[t] = None THEN None ELSE cats'[tags'[t]])
               = IF (IF tags[t] = None THEN None ELSE cats[tags[t]]) = n
                 THEN cats[0] ELSE IF tags[t] = None THEN None ELSE cats[tags[t]]
  <2>1. CASE tags[t] = None
    BY <1>1, <1>3, <2>1, Numbers
  <2>2. CASE tags[t] # None /\ tags[t] = i
    BY <1>1, <1>2, <1>3, <1>6, <2>2
  <2>3. CASE tags[t] # None /\ tags[t] # i
    BY <1>1, <1>2, <1>3, <2>3, OfTags
  <2> QED
    BY <2>1, <2>2, <2>3
<1>8. Book!Delete(n)
  BY <1>4, <1>5, <1>6, <1>7 DEF Book!Delete
<1> QED
  BY <1>1, <1>8 DEF Book!Next

LEMMA FileBook ==
    ASSUME Constants, Inv, NEW r \in Reqs, File(r), ~raced[r]
    PROVE  Book!Next
<1> DEFINE i == seen[r].id
<1>0. PICK n \in Names, u \in Tags : n = seen[r].name /\ u = want[r]
  BY DEF File, Inv, ReqOK, ReadOK
<1>1. n # None /\ i \in Ids /\ cats[i] = n /\ i # None
  <2>1. i \in Ids /\ cats[i] = n
    BY <1>0 DEF File, Inv, TypeOK, ReqOK, StillOK, Still
  <2> QED
    BY <2>1, Numbers
<1>2. tags \in [Tags -> Ids \cup {None}]
  BY DEF Inv, TypeOK
<1>3. cats' = cats /\ tags' = [tags EXCEPT ![u] = i]
  BY <1>0 DEF File
<1> HIDE DEF i
<1>4. n \in {cats[j] : j \in Ids} \ {None}
  BY <1>1
<1>5. ASSUME NEW t \in Tags
      PROVE  (IF tags'[t] = None THEN None ELSE cats'[tags'[t]])
               = IF t = u THEN n ELSE IF tags[t] = None THEN None ELSE cats[tags[t]]
  BY <1>1, <1>2, <1>3
<1>6. Book!File(u, n)
  BY <1>1, <1>3, <1>4, <1>5 DEF Book!File
<1> QED
  BY <1>1, <1>6 DEF Book!Next

LEMMA NameNewDefaultBook ==
    ASSUME Constants, Inv, NEW r \in Reqs, NameNewDefault(r), ~raced[r]
    PROVE  Book!Next
<1> DEFINE id == seen[r].id
           n  == seen[r].name
           d  == seen[r].default
<1>1. /\ id \in Ids /\ n \in Names /\ d \in Names
      /\ cats' = [i \in Ids |-> IF i = 0 THEN n ELSE IF i = id THEN d ELSE cats[i]]
  BY Swapped
<1>2. /\ cats[id] = n /\ cats[0] = d
      /\ \A t \in Tags : move[r][t] = IF tags[t] = id THEN 0
                                      ELSE IF tags[t] = 0 THEN id ELSE None
  BY DEF NameNewDefault, Inv, ReqOK, StillOK, Still, Compared, Moved
<1>3. /\ cats \in [Ids -> Names \cup {None}] /\ tags \in [Tags -> Ids \cup {None}]
      /\ 0 \in Ids /\ 0 # None /\ None \notin Ids /\ n # None /\ d # None
  BY <1>1, Numbers DEF Inv, TypeOK
<1>4. tags' = [t \in Tags |-> IF tags[t] = id THEN 0 ELSE IF tags[t] = 0 THEN id ELSE tags[t]]
  BY <1>1, <1>2, <1>3 DEF NameNewDefault, Tag
<1> HIDE DEF id, n, d
<1>5. n \in {cats[i] : i \in Ids} \ {None}
  BY <1>1, <1>2, <1>3
<1>6. {cats'[i] : i \in Ids} \ {None} = {cats[i] : i \in Ids} \ {None}
  <2>1. ASSUME NEW i \in Ids PROVE \E j \in Ids : cats'[i] = cats[j]
    <3>1. cats'[i] \in {cats[0], cats[id], cats[i]}
      BY <1>1, <1>2, <1>3
    <3> QED
      BY <1>1, <1>3, <3>1
  <2>2. ASSUME NEW i \in Ids PROVE \E j \in Ids : cats[i] = cats'[j]
    <3>1. cats'[0] = cats[id] /\ cats'[id] \in {cats[0], cats[id]} /\ (id # 0 => cats'[id] = cats[0])
      BY <1>1, <1>2, <1>3
    <3>2. i # 0 /\ i # id => cats'[i] = cats[i]
      BY <1>1
    <3> QED
      BY <1>1, <1>3, <3>1, <3>2
  <2> QED
    BY <2>1, <2>2
<1>7. cats'[0] = n
  BY <1>1, <1>3
<1>8. ASSUME NEW t \in Tags
      PROVE  (IF tags'[t] = None THEN None ELSE cats'[tags'[t]])
               = IF tags[t] = None THEN None ELSE cats[tags[t]]
  BY <1>1, <1>2, <1>3, <1>4
<1>9. Book!SetDefault(n)
  BY <1>5, <1>6, <1>7, <1>8 DEF Book!SetDefault
<1> QED
  BY <1>1, <1>9 DEF Book!Next

\* A request that no other one's commit overtook between its first read and its commit
\* does to the categories, as users know them by name, what it says (api/tag_category.rs,
\* the category of api/tag.rs): the swap of rows in set_default does not show, for any
\* number of requests beside it.
THEOREM ImplementsBook ==
    ASSUME Constants, NEW CONSTANT names, NEW CONSTANT filed, Possible(names, filed)
    PROVE  Spec(names, filed) => CategoriesByName
<1>1. ASSUME Inv, [Next]_catVars PROVE [Book!Next \/ RacedCommit]_(Book!bookVars)
  <2>1. ASSUME UNCHANGED <<cats, tags>> PROVE UNCHANGED Book!bookVars
    BY <2>1 DEF Book!bookVars
  <2>2. ASSUME NEW r \in Reqs, raced[r], pc[r] # "idle", End(r) PROVE RacedCommit
    BY <1>1, <2>2 DEF RacedCommit, End, Goto, Inv, TypeOK
  <2>3. ASSUME NEW r \in Reqs, Update(r) \/ Delete(r) \/ File(r) \/ NameNewDefault(r)
        PROVE  [Book!Next \/ RacedCommit]_(Book!bookVars)
    <3>1. pc[r] # "idle" /\ End(r)
      BY <2>3 DEF Update, Delete, File, NameNewDefault
    <3> QED
      BY <1>1, <2>2, <2>3, <3>1, UpdateBook, DeleteBook, FileBook, NameNewDefaultBook
  <2>4. ASSUME NEW r \in Reqs, NEW n \in NewNames, Create(r, n) PROVE Book!Next
    BY <1>1, <2>4, CreateBook
  <2>5. CASE \A r \in Reqs : /\ ~(Update(r) \/ Delete(r) \/ File(r) \/ NameNewDefault(r))
                             /\ \A n \in NewNames : ~Create(r, n)
    <3>1. UNCHANGED <<cats, tags>>
      BY <1>1, <2>5
         DEF Next, catVars, StartDelete, StartSetDefault, StartUpdate, StartFile, StartKeep, Read,
             ReadDefault, MoveToDefault, MoveOthers, MoveTags, SaveNewDefault, SaveOldDefault,
             SaveRow, Abort
    <3> QED
      BY <2>1, <3>1
  <2> QED
    BY <2>3, <2>4, <2>5
<1> QED
  BY <1>1, Invariance, PTL DEF Spec, CategoriesByName
=============================================================================
