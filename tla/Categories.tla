---------------------------- MODULE Categories ----------------------------
(***************************************************************************)
(* Categories of tags (api/tag_category.rs; api/pool_category.rs is the    *)
(* same for pools).  The default category is the row with ID 0, so making  *)
(* another one the default swaps the two rows' contents and moves the tags *)
(* of both, statement by statement, while other requests, which have read  *)
(* a category's ID by its name, go on to use that ID.                      *)
(*                                                                         *)
(* Order, colour and version of a category go where its name goes.  Only   *)
(* set_default has statements between its first change and its commit that *)
(* others can be seen to interleave with; the last change of the other     *)
(* requests and their commit are one step, which waits for row locks.      *)
(***************************************************************************)
EXTENDS Naturals

CONSTANTS
    Reqs,     \* concurrent requests
    MaxId,    \* bound: the category IDs a behaviour may draw, besides 0
    Names,    \* category names
    NewNames, \* names a request may give a category
    Tags,     \* tags
    None,     \* no category, no tag
    Empty     \* the temporary name ""

Ids == 0..MaxId

\* Nothing is neither an ID, a name nor a tag, and "" is no category's name.
Constants ==
    /\ MaxId \in Nat
    /\ None \notin Nat \cup Names \cup Tags \cup {Empty}
    /\ Empty \notin Names
    /\ NewNames \subseteq Names

VARIABLES
    cats,    \* committed categories: the name of each row
    tags,    \* committed tags: the category ID of each
    last,    \* the last ID drawn
    row,     \* rows set_default has written, not committed
    move,    \* tags set_default has moved, not committed
    pc,      \* where each request is
    seen,    \* what it has read: a category ID, its name, the default's name
    want,    \* what it asks for: a new name, or a tag
    raced    \* history: another request has committed since its first read

catVars == <<cats, tags, last, row, move, pc, seen, want, raced>>

NoRows  == [i \in Ids |-> None]
NoTags  == [t \in Tags |-> None]
Nothing == [id |-> 0, name |-> None, default |-> None]

TypeOK ==
    /\ cats \in [Ids -> Names \cup {None}]
    /\ tags \in [Tags -> Ids \cup {None}]
    /\ last \in Ids
    /\ row \in [Reqs -> [Ids -> Names \cup {Empty, None}]]
    /\ move \in [Reqs -> [Tags -> Ids \cup {None}]]
    /\ pc \in [Reqs -> {"idle", "rename", "delete", "file", "default", "to default",
                        "others", "save new", "save old", "name"}]
    /\ seen \in [Reqs -> [id : Ids, name : Names \cup {None}, default : Names \cup {None}]]
    /\ want \in [Reqs -> Names \cup Tags \cup {None}]
    /\ raced \in [Reqs -> BOOLEAN]

\* Names that rows can have, and tags they can be the categories of.
Possible(names, filed) ==
    /\ names \in [Ids -> Names \cup {None}]
    /\ names[0] # None
    /\ \A i, j \in Ids : names[i] # None /\ names[i] = names[j] => i = j
    /\ filed \in [Tags -> Ids \cup {None}]
    /\ \A t \in Tags : filed[t] # None => names[filed[t]] # None

\* One default category, and others; some tags in them.
Start(names, filed) ==
    /\ cats = names
    /\ tags = filed
    /\ last \in Ids
    /\ \A i \in Ids : (cats[i] # None) <=> i <= last
    /\ row = [r \in Reqs |-> NoRows]
    /\ move = [r \in Reqs |-> NoTags]
    /\ pc = [r \in Reqs |-> "idle"]
    /\ seen = [r \in Reqs |-> Nothing]
    /\ want = [r \in Reqs |-> None]
    /\ raced = [r \in Reqs |-> FALSE]

-----------------------------------------------------------------------------
(* Rows as a transaction sees them, and the locks of the others.            *)

Row(r, i) == IF row[r][i] # None THEN row[r][i] ELSE cats[i]
Tag(r, t) == IF move[r][t] # None THEN move[r][t] ELSE tags[t]

RowFree(r, i) == \A s \in Reqs \ {r} : row[s][i] = None
TagFree(r, t) == \A s \in Reqs \ {r} : move[s][t] = None

\* UNIQUE: the name is no other row's, nor is one about to get or lose it.
NameFree(r, i, n) ==
    /\ \A j \in Ids \ {i} : Row(r, j) # n
    /\ \A s \in Reqs \ {r}, j \in Ids : row[s][j] # None => n \notin {row[s][j], cats[j]}

Goto(r, label) == pc' = [pc EXCEPT ![r] = label]

\* verify_visibility: the row with a name.
Read(r, n, label, asked) ==
    /\ pc[r] = "idle"
    /\ \E i \in Ids :
          /\ cats[i] = n
          /\ seen' = [seen EXCEPT ![r] = [id |-> i, name |-> n, default |-> None]]
    /\ want' = [want EXCEPT ![r] = asked]
    /\ raced' = [raced EXCEPT ![r] = FALSE]
    /\ Goto(r, label)
    /\ UNCHANGED <<cats, tags, last, row, move>>

\* The transaction ends; the others have been raced if it changed anything.
End(r) ==
    /\ Goto(r, "idle")
    /\ row' = [row EXCEPT ![r] = NoRows]
    /\ move' = [move EXCEPT ![r] = NoTags]
    /\ seen' = [seen EXCEPT ![r] = Nothing]
    /\ want' = [want EXCEPT ![r] = None]
    /\ raced' = [s \in Reqs |-> s # r /\ pc[s] # "idle"
                                /\ (raced[s] \/ <<cats, tags>>' # <<cats, tags>>)]

Abort(r) ==
    /\ pc[r] # "idle"
    /\ UNCHANGED <<cats, tags, last>>
    /\ End(r)

-----------------------------------------------------------------------------
(* create, update, delete, and the categories of tags (api/tag.rs).         *)

\* INSERT ... ON CONFLICT (name) DO NOTHING.
Create(r, n) ==
    /\ pc[r] = "idle" /\ last < MaxId
    /\ NameFree(r, last + 1, n)
    /\ cats' = [cats EXCEPT ![last + 1] = n]
    /\ last' = last + 1
    /\ UNCHANGED tags
    /\ End(r)

\* update reads the row and saves all its columns, the name with them.
StartUpdate(r, n, m) == n \in Names /\ Read(r, n, "rename", m)

Update(r) ==
    LET i == seen[r].id IN
    /\ pc[r] = "rename"
    /\ RowFree(r, i) /\ cats[i] # None
    /\ NameFree(r, i, want[r])
    /\ cats' = [cats EXCEPT ![i] = want[r]]
    /\ UNCHANGED <<tags, last>>
    /\ End(r)

StartDelete(r, n) == n # cats[0] /\ Read(r, n, "delete", None)

\* DELETE by ID; ON DELETE SET DEFAULT gives its tags the category 0.
Delete(r) ==
    LET i == seen[r].id IN
    /\ pc[r] = "delete"
    /\ RowFree(r, i)
    /\ \A t \in Tags : tags[t] = i => TagFree(r, t)
    /\ cats' = [cats EXCEPT ![i] = None]
    /\ tags' = [t \in Tags |-> IF tags[t] = i THEN 0 ELSE tags[t]]
    /\ UNCHANGED last
    /\ End(r)

\* A tag is created in, or moved to, the category a request names.
StartFile(r, t, n) == n \in Names /\ Read(r, n, "file", t)

\* Another edit of a tag saves the category it has read with the rest of the row.
StartKeep(r, t) == tags[t] # None /\ Read(r, cats[tags[t]], "file", t)

File(r) ==
    LET i == seen[r].id IN
    /\ pc[r] = "file"
    /\ RowFree(r, i) /\ cats[i] # None
    /\ TagFree(r, want[r])
    /\ tags' = [tags EXCEPT ![want[r]] = i]
    /\ UNCHANGED <<cats, last>>
    /\ End(r)

-----------------------------------------------------------------------------
(* set_default.                                                             *)

StartSetDefault(r, n) == n \in Names /\ Read(r, n, "default", None)

ReadDefault(r) ==
    /\ pc[r] = "default"
    /\ seen' = [seen EXCEPT ![r].default = cats[0]]
    /\ Goto(r, "to default")
    /\ UNCHANGED <<cats, tags, last, row, move, want, raced>>

\* UPDATE tag SET category_id = to WHERE category_id = from, but for those moved already.
MoveTags(r, from, to) ==
    LET moving == {t \in Tags : Tag(r, t) = from /\ move[r][t] = None} IN
    /\ \A t \in moving : TagFree(r, t)
    /\ move' = [move EXCEPT ![r] =
          [t \in Tags |-> IF t \in moving THEN to ELSE move[r][t]]]
    /\ UNCHANGED <<cats, tags, last, row, seen, want, raced>>

MoveToDefault(r) ==
    /\ pc[r] = "to default"
    /\ MoveTags(r, seen[r].id, 0)
    /\ Goto(r, "others")

\* Mutant: the tags of the old default category are forgotten.
MoveNoOthers(r) ==
    /\ pc[r] = "others"
    /\ Goto(r, "save new")
    /\ UNCHANGED <<cats, tags, last, row, move, seen, want, raced>>

MoveOthers(r) ==
    /\ pc[r] = "others"
    /\ MoveTags(r, 0, seen[r].id)
    /\ Goto(r, "save new")

\* save_changes of one row; it fails if the row is gone.
SaveRow(r, i, n) ==
    /\ Row(r, i) # None
    /\ RowFree(r, i)
    /\ NameFree(r, i, n)
    /\ row' = [row EXCEPT ![r][i] = n]
    /\ UNCHANGED <<cats, tags, last, move, seen, want, raced>>

SaveNewDefault(r) ==
    /\ pc[r] = "save new"
    /\ SaveRow(r, 0, Empty)
    /\ Goto(r, "save old")

SaveOldDefault(r) ==
    /\ pc[r] = "save old"
    /\ SaveRow(r, seen[r].id, seen[r].default)
    /\ Goto(r, "name")

\* The new default gets its name back, and the transaction commits.
NameNewDefault(r) ==
    LET written == [row[r] EXCEPT ![0] = seen[r].name] IN
    /\ pc[r] = "name"
    /\ NameFree(r, 0, seen[r].name)
    /\ cats' = [i \in Ids |-> IF written[i] # None THEN written[i] ELSE cats[i]]
    /\ tags' = [t \in Tags |-> Tag(r, t)]
    /\ UNCHANGED last
    /\ End(r)

Next ==
    \E r \in Reqs :
        \/ \E n \in Names :
              \/ n \in NewNames /\ Create(r, n)
              \/ StartDelete(r, n)
              \/ StartSetDefault(r, n)
              \/ \E m \in NewNames \cup {n} : StartUpdate(r, n, m)
              \/ \E t \in Tags : StartFile(r, t, n)
        \/ \E t \in Tags : StartKeep(r, t)
        \/ Update(r)
        \/ Delete(r)
        \/ File(r)
        \/ ReadDefault(r)
        \/ MoveToDefault(r)
        \/ MoveOthers(r)
        \/ SaveNewDefault(r)
        \/ SaveOldDefault(r)
        \/ NameNewDefault(r)
        \/ Abort(r)

Spec(names, filed) == Start(names, filed) /\ [][Next]_catVars

-----------------------------------------------------------------------------
(* Properties.                                                              *)

\* Categories as users know them: by name.
Book == INSTANCE CategoryBook WITH
    names   <- {cats[i] : i \in Ids} \ {None},
    default <- cats[0],
    of      <- [t \in Tags |-> IF tags[t] = None THEN None ELSE cats[tags[t]]]

RacedCommit == \E r \in Reqs : raced[r] /\ pc[r] # "idle" /\ pc'[r] = "idle"

\* A request that no other one's commit overtook between its first read and its
\* commit does to the categories, as users know them by name, what it says: the
\* swap of rows in set_default does not show, whatever was in progress beside it.
CategoriesByName == [][Book!Next \/ RacedCommit]_(Book!bookVars)
=============================================================================
