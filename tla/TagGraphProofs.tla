-------------------------- MODULE TagGraphProofs --------------------------
(***************************************************************************)
(* Proofs about the implications of tags, for any number of requests, tags *)
(* and names.  An edit loads the committed implications turn by turn into  *)
(* a graph, which gives what the tag is to imply, and then replaces its    *)
(* implications statement by statement.                                    *)
(* The invariant says what is known of the committed rows meanwhile: as    *)
(* long as no other commit has touched the implications, what the edit is  *)
(* about to insert is closed under them, has no cycle among them and does  *)
(* not contain the tag itself.                                             *)
(* The last part is about names: a request that deletes a tag's names has  *)
(* put a primary one there, or deletes the tag with them.                  *)
(***************************************************************************)
EXTENDS TagGraph, FiniteSetTheorems, TLAPS

EditKinds == {"create", "update", "tag"}

\* IDs the sequence has given.
Used == 1..next - 1

-----------------------------------------------------------------------------
(* The inductive invariant.                                                 *)

Bounds ==
    /\ next \in 1..MaxTag + 1
    /\ begun \in 0..MaxReqs
    /\ pc \in [Reqs -> Labels]
    /\ graph \in [Reqs -> Graphs]
    /\ raced \in [Reqs -> SUBSET {"tag_implication", "post_tag"}]
    /\ unchecked \subseteq Tags \X Tags

Shapes ==
    /\ DOMAIN ins = Reqs /\ DOMAIN del = Reqs
    /\ DOMAIN op = Reqs /\ DOMAIN fresh = Reqs /\ DOMAIN found = Reqs

\* A row refers to tags the sequence has given.
KnownRow(row) ==
    /\ row.table = "tag" => row.id \in Used
    /\ row.table = "tag_name" => row.tag \in Used
    /\ row.table = "tag_implication" => row.parent \in Used /\ row.child \in Used

Known(rows) == \A row \in rows : KnownRow(row)

KnownOK(r) == Known(ins[r]) /\ Known(del[r]) /\ Known(fresh[r]) /\ Known(found[r])

\* Which requests get to which statement, and the tags and names they are about.
OpOK(r) ==
    /\ pc[r] = "idle" => op[r].kind = "none"
    /\ pc[r] \in {"close", "load", "missing", "make"} => op[r].kind \in EditKinds
    /\ pc[r] \in {"find", "replace"} => op[r].kind \in EditKinds \cup {"merge"}
    /\ pc[r] \in {"involved", "usages"} => op[r].kind = "merge"
    /\ pc[r] \in {"find names", "names"} => op[r].kind \in {"rename", "update", "merge"}
    /\ op[r].kind \in {"create", "update", "rename", "merge"} => op[r].tag \in Used
    /\ op[r].kind = "merge" => op[r].absorbed \in Used
    /\ op[r].kind \in EditKinds => op[r].implied \subseteq Names
    /\ op[r].kind \in {"rename", "update"} /\ pc[r] = "find names" => op[r].names \in Seq(Names)

Graphic(row) == row.table \in {"tag_implication", "post_tag"}

\* The table an edit is about, the rows of it that are its own, and the tags it puts there.
Table(r) == IF op[r].kind = "tag" THEN "post_tag" ELSE "tag_implication"

Mine(r, row) ==
    IF op[r].kind = "tag" THEN row.table = "post_tag" /\ row.post = op[r].post
                          ELSE row.table = "tag_implication" /\ row.parent = op[r].tag

Put(r, t) == IF op[r].kind = "tag" THEN Usage(op[r].post, t) ELSE Implies(op[r].tag, t)

New(r) == {t \in Tags : Put(r, t) \in fresh[r]}

From(E, S) == {e \in E : e[1] \in S}

\* If the implications are as it read them: while they are loaded, those of every tag of the
\* graph are in it or come next; then the graph is complete.
GraphOK(r) ==
    /\ pc[r] = "load" =>
          /\ \A e \in graph[r].links : e[2] \in graph[r].nodes
          /\ graph[r].links = {} => graph[r].nodes \subseteq graph[r].ahead
          /\ "tag_implication" \notin raced[r] =>
                \A e \in From(Edges(db), graph[r].nodes) :
                   e[1] \in graph[r].ahead \/ e \in graph[r].links
    /\ pc[r] \in {"missing", "make"} /\ "tag_implication" \notin raced[r] =>
          /\ Closed(Edges(db), graph[r].nodes)
          /\ op[r].kind # "tag" => Acyclic(From(Edges(db), graph[r].nodes))

\* An edit changes no implication or usage before it replaces its own.
QuietOK(r) ==
    /\ op[r].kind # "merge" /\ ~(op[r].kind \in EditKinds /\ pc[r] = "commit") =>
          \A row \in ins[r] \cup del[r] : ~Graphic(row)
    /\ op[r].kind # "merge" /\ pc[r] = "names" =>
          \A row \in fresh[r] \cup found[r] : ~Graphic(row)

\* What it is to insert agrees with the committed implications, if they are as it read them.
FreshOK(r) ==
    op[r].kind \in EditKinds /\ pc[r] \in {"find", "replace", "commit"} =>
        /\ \A row \in fresh[r] : Mine(r, row)
        /\ "tag_implication" \notin raced[r] =>
              /\ Closed(Edges(db), New(r))
              /\ op[r].kind # "tag" => Acyclic(From(Edges(db), New(r)))
        /\ pc[r] # "find" => \A t \in Tags : Implies(t, t) \notin fresh[r]

\* It deletes all the rows it replaces, if its table is as it found it.
FoundOK(r) ==
    op[r].kind \in EditKinds /\ Table(r) \notin raced[r] =>
        \A row \in db : Mine(r, row) =>
            /\ pc[r] = "replace" => row \in found[r]
            /\ pc[r] = "commit" => row \in del[r]

\* At its commit it has inserted that and no other implications or usages.
PutOK(r) ==
    op[r].kind \in EditKinds /\ pc[r] = "commit" =>
        /\ fresh[r] \subseteq ins[r]
        /\ \A row \in ins[r] : Graphic(row) => row \in fresh[r]

EditOK(r) == QuietOK(r) /\ FreshOK(r) /\ FoundOK(r) /\ PutOK(r)

\* A merge deletes no usage before its commit, and inserts those the other tag lacks.
MergeOK(r) ==
    op[r].kind = "merge" =>
        /\ op[r].tag # op[r].absorbed
        /\ \A row \in del[r] : row.table # "post_tag"
        /\ pc[r] \in {"find", "replace", "names"} => \A row \in fresh[r] : row.table # "post_tag"
        /\ pc[r] \in {"replace", "names"} => \A row \in found[r] : row.table # "post_tag"
        /\ pc[r] \in {"involved", "find", "replace", "usages"} =>
              \A row \in ins[r] : row.table # "post_tag"
        /\ pc[r] \in {"find names", "names", "commit"} /\ "post_tag" \notin raced[r] =>
              \A p \in Posts : Usage(p, op[r].tag) \in ins[r] <=>
                 /\ Usage(p, op[r].absorbed) \in db
                 /\ Usage(p, op[r].tag) \notin db

ReqOK(r) == KnownOK(r) /\ OpOK(r) /\ GraphOK(r) /\ EditOK(r) /\ MergeOK(r)

Inv == Bounds /\ Shapes /\ Known(db) /\ (\A r \in Reqs : ReqOK(r)) /\ CheckedAcyclic

-----------------------------------------------------------------------------
(* Graphs.                                                                  *)

LEMMA SubgraphAcyclic ==
    ASSUME NEW E, NEW F, F \subseteq E, Acyclic(E)
    PROVE  Acyclic(F)
BY DEF Acyclic

\* New edges of one node close no cycle, if they lead into a part of the graph that is
\* closed, has no cycle and does not contain the node.
LEMMA NewEdgesAcyclic ==
    ASSUME NEW E \in SUBSET (Tags \X Tags), NEW A \in SUBSET E, Acyclic(A),
           NEW N \in SUBSET Tags, Closed(E, N), Acyclic(From(E, N)),
           NEW t \in Tags \ N, NEW F \in SUBSET (Tags \X Tags),
           \A e \in F : e \in A \/ (e[1] = t /\ e[2] \in N)
    PROVE  Acyclic(F)
<1> SUFFICES ASSUME NEW S \in SUBSET Tags \ {{}},
                    \A v \in S : \E u \in S : <<v, u>> \in F
             PROVE  FALSE
  BY DEF Acyclic
<1>1. S \cap N = {}
  <2> SUFFICES ASSUME S \cap N # {} PROVE FALSE
    OBVIOUS
  <2>1. ASSUME NEW v \in S \cap N PROVE \E u \in S \cap N : <<v, u>> \in From(E, N)
    <3>1. PICK u \in S : <<v, u>> \in F
      BY <2>1
    <3>2. <<v, u>> \in E
      BY <2>1, <3>1
    <3> QED
      BY <2>1, <3>1, <3>2 DEF Closed, From
  <2> QED
    BY <2>1 DEF Acyclic
<1>2. ASSUME NEW v \in S PROVE \E u \in S : <<v, u>> \in A
  <2>1. PICK u \in S : <<v, u>> \in F
    OBVIOUS
  <2>2. u \notin N
    BY <1>1
  <2> QED
    BY <2>1, <2>2
<1> QED
  BY <1>2 DEF Acyclic

\* Implications of rows.
LEMMA EdgeRows ==
    ASSUME NEW rows
    PROVE  /\ Edges(rows) \subseteq Tags \X Tags
           /\ \A t, u \in Tags : <<t, u>> \in Edges(rows) <=> Implies(t, u) \in rows
BY DEF Edges

LEMMA Rows ==
    ASSUME NEW t, NEW u, NEW o, NEW n
    PROVE  /\ TagRow(t).table = "tag" /\ TagRow(t).id = t
           /\ NameRow(t, o, n).table = "tag_name" /\ NameRow(t, o, n).tag = t
           /\ Implies(t, u).table = "tag_implication"
           /\ Implies(t, u).parent = t /\ Implies(t, u).child = u
           /\ Usage(t, u).table = "post_tag" /\ Usage(t, u).post = t /\ Usage(t, u).tag = u
BY DEF TagRow, NameRow, Implies, Usage

LEMMA UsageRow ==
    ASSUME NEW p, NEW t
    PROVE  /\ Usage(p, t).table = "post_tag" /\ Usage(p, t).post = p /\ Usage(p, t).tag = t
           /\ TagRow(t).table = "tag" /\ TagRow(t).id = t
BY Rows

-----------------------------------------------------------------------------
(* IDs.                                                                     *)

LEMMA UsedTags ==
    ASSUME next \in 1..MaxTag + 1
    PROVE  Used \subseteq Tags
BY BoundAssumption DEF Used, Tags

\* IDs drawn are new, and then used.
LEMMA DrawnIds ==
    ASSUME next \in 1..MaxTag + 1, NEW n \in Nat, next + n <= MaxTag + 1, next' = next + n
    PROVE  /\ Drawn(n) \subseteq Tags /\ Drawn(n) \cap Used = {}
           /\ Drawn(n) \subseteq Used' /\ Used \subseteq Used' /\ next' \in 1..MaxTag + 1
BY BoundAssumption DEF Drawn, Used, Tags

LEMMA DrawnOne ==
    ASSUME next \in 1..MaxTag + 1, next <= MaxTag, next' = next + 1
    PROVE  next \in Used' /\ Used \subseteq Used' /\ next' \in 1..MaxTag + 1
BY BoundAssumption DEF Used, Tags

LEMMA KnownGrows ==
    ASSUME Used \subseteq Used', NEW rows, Known(rows)
    PROVE  \A row \in rows : KnownRow(row)'
BY DEF Known, KnownRow

LEMMA GraphsGrow ==
    ASSUME Used \subseteq Used'
    PROVE  Graphs \subseteq Graphs'
BY DEF Graphs, Used

LEMMA KnownEdges ==
    ASSUME NEW rows, Known(rows)
    PROVE  Edges(rows) \subseteq Used \X Used
<1> SUFFICES ASSUME NEW t \in Tags, NEW u \in Tags, Implies(t, u) \in rows
             PROVE  t \in Used /\ u \in Used
  BY DEF Edges
<1> QED
  BY Rows DEF Known, KnownRow

\* The type invariant says that every row refers to tags that were drawn.
LEMMA InvType ==
    ASSUME Inv
    PROVE  TypeOK
<1>1. ASSUME NEW r \in Reqs
      PROVE  Edges(ins[r] \cup del[r] \cup fresh[r] \cup found[r] \cup db)
                \subseteq (1..next - 1) \X (1..next - 1)
  <2>1. Known(ins[r] \cup del[r] \cup fresh[r] \cup found[r] \cup db)
    BY DEF Inv, ReqOK, KnownOK, Known
  <2> QED
    BY <2>1, KnownEdges DEF Used
<1> QED
  BY <1>1 DEF Inv, Bounds, TypeOK

-----------------------------------------------------------------------------
(* The start.                                                               *)

LEMMA InitInv == Init => Inv
<1> SUFFICES ASSUME Init PROVE Inv
  OBVIOUS
<1>1. Possible(db)
  BY StartAssumption DEF Init
<1>2. PICK n \in 0..MaxTag : {row \in db : row.table = "tag"} = {TagRow(t) : t \in 1..n}
  BY <1>1 DEF Possible
<1>3. ASSUME NEW t, TagRow(t) \in db PROVE t \in 1..n
  <2>1. TagRow(t) \in {row \in db : row.table = "tag"}
    BY <1>3, Rows
  <2>2. PICK u \in 1..n : TagRow(t) = TagRow(u)
    BY <1>2, <2>1
  <2> QED
    BY <2>2, Rows
<1>4. {t \in Tags : TagRow(t) \in db} = 1..n
  <2>1. 1..n \subseteq Tags
    BY <1>2, BoundAssumption DEF Tags
  <2>2. ASSUME NEW t \in 1..n PROVE TagRow(t) \in db
    BY <1>2
  <2> QED
    BY <1>3, <2>1, <2>2
<1>5. next = n + 1 /\ next \in 1..MaxTag + 1 /\ Used = 1..n
  <2>1. n \in Nat /\ n <= MaxTag
    BY BoundAssumption
  <2>2. Cardinality(1..n) = n
    BY <2>1, FS_Interval
  <2>3. next = 1 + n
    BY <1>4, <2>2 DEF Init
  <2> QED
    BY <2>1, <2>3, BoundAssumption DEF Used
<1>6. Known(db)
  <2> SUFFICES ASSUME NEW row \in db PROVE KnownRow(row)
    BY DEF Known
  <2>1. Parents(row) \subseteq db
    BY <1>1 DEF Possible
  <2>2. CASE row.table = "tag"
    <3>1. PICK t \in 1..n : row = TagRow(t)
      BY <1>2, <2>2
    <3> QED
      BY <1>5, <3>1, Rows DEF KnownRow
  <2>3. CASE row.table = "tag_name"
    BY <1>3, <1>5, <2>1, <2>3 DEF Parents, KnownRow
  <2>4. CASE row.table = "tag_implication"
    BY <1>3, <1>5, <2>1, <2>4 DEF Parents, KnownRow
  <2>5. CASE row.table \notin {"tag", "tag_name", "tag_implication"}
    BY <2>5 DEF KnownRow
  <2> QED
    BY <2>2, <2>3, <2>4, <2>5
<1>7. ASSUME NEW r \in Reqs PROVE ReqOK(r)
  BY DEF Init, DB!NothingPending, NoOp, ReqOK, KnownOK, Known, OpOK, GraphOK, EditOK, QuietOK,
         FreshOK, FoundOK, PutOK, MergeOK, EditKinds
<1>8. Bounds /\ Shapes
  <2>1. NoGraph \in Graphs
    BY DEF NoGraph, Graphs
  <2> QED
    BY <1>5, <2>1, BoundAssumption DEF Init, DB!NothingPending, Bounds, Shapes, Labels
<1>9. CheckedAcyclic
  <2>1. Edges(db) \ unchecked \subseteq Edges(db)
    OBVIOUS
  <2> QED
    BY <1>1, <2>1, SubgraphAcyclic DEF Possible, CheckedAcyclic
<1> QED
  BY <1>6, <1>7, <1>8, <1>9 DEF Inv

-----------------------------------------------------------------------------
(* What a statement does, and requests beside it.                           *)

LEMMA ReplaceDoes ==
    ASSUME Inv, NEW r \in Reqs, NEW gone, NEW new, DB!Replace(r, gone, new)
    PROVE  /\ db' = db /\ DOMAIN ins' = Reqs /\ DOMAIN del' = Reqs
           /\ \A q \in Reqs \ {r} : ins'[q] = ins[q] /\ del'[q] = del[q]
           /\ ins'[r] = (ins[r] \ (gone \cap DB!View(r))) \cup new
           /\ del'[r] = del[r] \cup (gone \cap DB!View(r) \cap db)
BY DEF DB!Replace, Inv, Shapes

LEMMA InsertDoes ==
    ASSUME Inv, NEW r \in Reqs, NEW new, DB!Insert(r, new)
    PROVE  /\ db' = db /\ DOMAIN ins' = Reqs /\ DOMAIN del' = Reqs
           /\ \A q \in Reqs \ {r} : ins'[q] = ins[q] /\ del'[q] = del[q]
           /\ ins'[r] = ins[r] \cup new /\ del'[r] = del[r]
<1>1. DB!Replace(r, {}, new)
  BY DEF DB!Insert
<1> QED
  BY <1>1, ReplaceDoes

LEMMA KnownView ==
    ASSUME Inv, NEW r \in Reqs
    PROVE  Known(DB!View(r))
BY DEF Inv, ReqOK, KnownOK, Known, DB!View

\* Before its commit, an edit sees the committed implications and usages.
LEMMA QuietView ==
    ASSUME Inv, NEW r \in Reqs, op[r].kind \in EditKinds, pc[r] # "commit"
    PROVE  /\ \A row : Graphic(row) => (row \in DB!View(r) <=> row \in db)
           /\ Edges(DB!View(r)) = Edges(db)
<1>1. \A row \in ins[r] \cup del[r] : ~Graphic(row)
  BY DEF Inv, ReqOK, EditOK, QuietOK, EditKinds
<1>2. \A row : Graphic(row) => (row \in DB!View(r) <=> row \in db)
  BY <1>1 DEF DB!View
<1>3. ASSUME NEW t \in Tags, NEW u \in Tags
      PROVE  Implies(t, u) \in DB!View(r) <=> Implies(t, u) \in db
  BY <1>2, Rows DEF Graphic
<1> QED
  BY <1>2, <1>3 DEF Edges

\* What is kept of another request.
Same(q) ==
    /\ ins'[q] = ins[q] /\ del'[q] = del[q] /\ op'[q] = op[q] /\ fresh'[q] = fresh[q]
    /\ found'[q] = found[q] /\ graph'[q] = graph[q] /\ pc'[q] = pc[q] /\ raced'[q] = raced[q]

LEMMA Beside ==
    ASSUME Used \subseteq Used', db' = db, NEW q \in Reqs, ReqOK(q), Same(q)
    PROVE  ReqOK(q)'
<1>1. KnownOK(q)'
  BY DEF ReqOK, KnownOK, Known, KnownRow, Same
<1>2. OpOK(q)'
  BY DEF ReqOK, OpOK, Same
<1>3. QuietOK(q)' /\ FoundOK(q)' /\ PutOK(q)'
  BY DEF ReqOK, EditOK, QuietOK, FoundOK, PutOK, Same, Mine, Table
<1>4. FreshOK(q)'
  <2>1. New(q)' = New(q) /\ Edges(db)' = Edges(db)
    BY DEF New, Put, Same, Edges
  <2> QED
    BY <2>1 DEF ReqOK, EditOK, FreshOK, Same, Mine
<1>5. MergeOK(q)'
  BY DEF ReqOK, MergeOK, Same
<1>6. GraphOK(q)'
  <2>1. Edges(db)' = Edges(db)
    BY DEF Edges
  <2> QED
    BY <2>1 DEF ReqOK, GraphOK, Same
<1> QED
  BY <1>1, <1>2, <1>3, <1>4, <1>5, <1>6 DEF ReqOK, EditOK

\* A step of a request that commits nothing.
LEMMA StatementInv ==
    ASSUME Inv, NEW r \in Reqs, db' = db, unchecked' = unchecked, Bounds', Shapes',
           Used \subseteq Used', \A q \in Reqs \ {r} : Same(q), ReqOK(r)'
    PROVE  Inv'
<1>1. Known(db)'
  BY DEF Inv, Known, KnownRow
<1>2. ASSUME NEW q \in Reqs, q # r PROVE ReqOK(q)'
  BY <1>2, Beside DEF Inv
<1>3. CheckedAcyclic'
  BY DEF Inv, CheckedAcyclic, Edges
<1> QED
  BY <1>1, <1>2, <1>3 DEF Inv

-----------------------------------------------------------------------------
(* Requests begin.                                                          *)

LEMMA OneMoreRequest ==
    ASSUME begun \in 0..MaxReqs, begun < MaxReqs, begun' = begun + 1
    PROVE  begun' \in 0..MaxReqs
BY BoundAssumption

LEMMA BeginInv ==
    ASSUME Inv, NEW r \in Reqs, NEW label \in Labels, NEW asked, Begin(r, label, asked),
           NEW new, \A row \in new : KnownRow(row)' /\ ~Graphic(row),
           db' = db, DOMAIN ins' = Reqs, DOMAIN del' = Reqs,
           \A q \in Reqs \ {r} : ins'[q] = ins[q] /\ del'[q] = del[q],
           ins'[r] = ins[r] \cup new, del'[r] = del[r],
           next' \in 1..MaxTag + 1, Used \subseteq Used',
           label = "close" => asked.kind \in EditKinds,
           label = "find names" =>
              asked.kind \in {"rename", "update"} /\ asked.names \in Seq(Names),
           label = "involved" => asked.kind = "merge",
           label = "commit" => asked.kind = "delete",
           label \in {"close", "find names", "involved", "commit"},
           asked.kind \in {"create", "update", "rename", "merge"} => asked.tag \in Used',
           asked.kind = "merge" => asked.absorbed \in Used' /\ asked.tag # asked.absorbed,
           asked.kind \in EditKinds => asked.implied \subseteq Names
    PROVE  Inv'
<1>1. /\ pc[r] = "idle" /\ pc'[r] = label /\ op'[r] = asked /\ DOMAIN op' = Reqs
      /\ fresh' = fresh /\ found' = found /\ graph' = graph
      /\ raced' = raced /\ unchecked' = unchecked /\ pc' \in [Reqs -> Labels]
  BY DEF Begin, Goto, Inv, Bounds, Shapes
<1>2. \A q \in Reqs \ {r} : Same(q)
  BY <1>1 DEF Begin, Goto, Inv, Bounds, Shapes, Same
<1>3. begun' \in 0..MaxReqs
  <2>1. begun \in 0..MaxReqs /\ begun < MaxReqs /\ begun' = begun + 1
    BY DEF Begin, Inv, Bounds
  <2> QED
    BY <2>1, OneMoreRequest
<1>4. Bounds' /\ Shapes'
  BY <1>1, <1>3, GraphsGrow DEF Inv, Bounds, Shapes
<1>5. ReqOK(r) /\ op[r].kind = "none"
  BY <1>1 DEF Inv, ReqOK, OpOK
<1>6. KnownOK(r)'
  BY <1>1, <1>5, KnownGrows DEF ReqOK, KnownOK, Known
<1>7. OpOK(r)'
  BY <1>1 DEF OpOK, EditKinds
<1>8. EditOK(r)'
  <2>1. \A row \in ins'[r] \cup del'[r] : ~Graphic(row)
    BY <1>5 DEF ReqOK, EditOK, QuietOK, EditKinds
  <2>2. asked.kind \in EditKinds => label # "commit"
    BY DEF EditKinds
  <2> QED
    BY <1>1, <2>1, <2>2 DEF EditOK, QuietOK, FreshOK, FoundOK, PutOK
<1>9. MergeOK(r)'
  <2>1. \A row \in ins'[r] \cup del'[r] : row.table # "post_tag"
    BY <1>5 DEF ReqOK, EditOK, QuietOK, EditKinds, Graphic
  <2>2. asked.kind = "merge" => label = "involved"
    BY DEF EditKinds
  <2> QED
    BY <1>1, <2>1, <2>2 DEF MergeOK
<1>10. GraphOK(r)'
  BY <1>1 DEF GraphOK
<1> QED
  BY <1>1, <1>2, <1>4, <1>6, <1>7, <1>8, <1>9, <1>10, StatementInv DEF ReqOK

LEMMA CreateInv ==
    ASSUME Inv, NEW r \in Reqs, NEW names \in NameLists, NEW implied \in NameSets,
           Create(r, names, implied)
    PROVE  Inv'
<1>0. PICK asked, new : /\ asked = [kind |-> "create", tag |-> next, implied |-> implied]
                        /\ new = {TagRow(next)} \cup Added(next, 0, names)
  OBVIOUS
<1>1. Begin(r, "close", asked) /\ DB!Insert(r, new) /\ next <= MaxTag /\ next' = next + 1
  BY <1>0 DEF Create
<1>2. next \in Used' /\ Used \subseteq Used' /\ next' \in 1..MaxTag + 1
  BY <1>1, DrawnOne DEF Inv, Bounds
<1>3. \A row \in new : KnownRow(row)' /\ ~Graphic(row)
  BY <1>0, <1>2, Rows DEF Added, KnownRow, Graphic
<1>4. asked.kind = "create" /\ asked.tag = next /\ asked.implied = implied
  BY <1>0
<1>5. implied \subseteq Names
  BY NamesAssumption
<1>6. "close" \in Labels /\ "create" \in EditKinds
  BY DEF Labels, EditKinds
<1>7. /\ db' = db /\ DOMAIN ins' = Reqs /\ DOMAIN del' = Reqs
      /\ \A q \in Reqs \ {r} : ins'[q] = ins[q] /\ del'[q] = del[q]
      /\ ins'[r] = ins[r] \cup new /\ del'[r] = del[r]
  BY <1>1, InsertDoes
<1> QED
  BY <1>1, <1>2, <1>3, <1>4, <1>5, <1>6, <1>7, BeginInv

\* The others insert nothing when they begin.
LEMMA BeginPlainInv ==
    ASSUME Inv, NEW r \in Reqs, NEW label \in Labels, NEW asked, Begin(r, label, asked),
           UNCHANGED <<dbVars, next>>,
           label = "close" => asked.kind \in EditKinds,
           label = "find names" =>
              asked.kind \in {"rename", "update"} /\ asked.names \in Seq(Names),
           label = "involved" => asked.kind = "merge",
           label = "commit" => asked.kind = "delete",
           label \in {"close", "find names", "involved", "commit"},
           asked.kind \in {"create", "update", "rename", "merge"} => asked.tag \in Used,
           asked.kind = "merge" => asked.absorbed \in Used /\ asked.tag # asked.absorbed,
           asked.kind \in EditKinds => asked.implied \subseteq Names
    PROVE  Inv'
<1>1. Used' = Used /\ db' = db /\ ins' = ins /\ del' = del /\ next' = next
  BY DEF Used, dbVars
<1>2. PICK none : none = {}
  OBVIOUS
<1>3. /\ DOMAIN ins' = Reqs /\ DOMAIN del' = Reqs /\ next' \in 1..MaxTag + 1
      /\ ins'[r] = ins[r] \cup none /\ del'[r] = del[r]
      /\ \A q \in Reqs \ {r} : ins'[q] = ins[q] /\ del'[q] = del[q]
      /\ \A row \in none : KnownRow(row)' /\ ~Graphic(row)
  BY <1>1, <1>2 DEF Inv, Shapes, Bounds
<1>4. Used \subseteq Used'
  BY <1>1
<1> QED
  BY <1>1, <1>3, <1>4, BeginInv

\* A tag that a request sees is known.
LEMMA LiveUsed ==
    ASSUME Inv, NEW r \in Reqs, NEW t \in Live(r)
    PROVE  t \in Used
BY KnownView, Rows DEF Live, Known, KnownRow

LEMMA RequestsInv ==
    ASSUME Inv, NEW r \in Reqs,
           \/ \E t \in Tags :
                 \/ Delete(r, t)
                 \/ \E names \in NameLists : Rename(r, t, names)
                 \/ \E implied \in NameSets : Imply(r, t, implied)
                 \/ \E names \in NameLists, implied \in NameSets :
                       RenameAndImply(r, t, names, implied)
                 \/ \E to \in Tags : Merge(r, t, to)
           \/ \E p \in Posts, names \in NameSets : TagPost(r, p, names)
    PROVE  Inv'
<1>0. /\ {"close", "find names", "involved", "commit"} \subseteq Labels
      /\ EditKinds = {"create", "update", "tag"}
      /\ \A implied \in NameSets : implied \subseteq Names
      /\ \A names \in NameLists : names \in Seq(Names)
  BY NamesAssumption DEF Labels, EditKinds
<1>1. ASSUME NEW t \in Tags, NEW names \in NameLists, Rename(r, t, names) PROVE Inv'
  <2> DEFINE asked == [kind |-> "rename", tag |-> t, names |-> names]
  <2>1. Begin(r, "find names", asked) /\ t \in Used /\ UNCHANGED <<dbVars, next>>
    BY <1>1, LiveUsed DEF Rename
  <2>2. asked.kind = "rename" /\ asked.tag = t /\ asked.names = names
    OBVIOUS
  <2> HIDE DEF asked
  <2> QED
    BY <1>0, <2>1, <2>2, BeginPlainInv
<1>2. ASSUME NEW t \in Tags, NEW implied \in NameSets, Imply(r, t, implied) PROVE Inv'
  <2> DEFINE asked == [kind |-> "update", tag |-> t, implied |-> implied]
  <2>1. Begin(r, "close", asked) /\ t \in Used /\ UNCHANGED <<dbVars, next>>
    BY <1>2, LiveUsed DEF Imply
  <2>2. asked.kind = "update" /\ asked.tag = t /\ asked.implied = implied
    OBVIOUS
  <2> HIDE DEF asked
  <2> QED
    BY <1>0, <2>1, <2>2, BeginPlainInv
<1>3. ASSUME NEW t \in Tags, NEW names \in NameLists, NEW implied \in NameSets,
             RenameAndImply(r, t, names, implied)
      PROVE  Inv'
  <2> DEFINE asked == [kind |-> "update", tag |-> t, names |-> names, implied |-> implied]
  <2>1. Begin(r, "find names", asked) /\ t \in Used /\ UNCHANGED <<dbVars, next>>
    BY <1>3, LiveUsed DEF RenameAndImply
  <2>2. /\ asked.kind = "update" /\ asked.tag = t /\ asked.names = names
        /\ asked.implied = implied
    OBVIOUS
  <2> HIDE DEF asked
  <2> QED
    BY <1>0, <2>1, <2>2, BeginPlainInv
<1>4. ASSUME NEW p \in Posts, NEW implied \in NameSets, TagPost(r, p, implied) PROVE Inv'
  <2> DEFINE asked == [kind |-> "tag", post |-> p, implied |-> implied]
  <2>1. Begin(r, "close", asked) /\ UNCHANGED <<dbVars, next>>
    BY <1>4 DEF TagPost
  <2>2. asked.kind = "tag" /\ asked.implied = implied
    OBVIOUS
  <2> HIDE DEF asked
  <2> QED
    BY <1>0, <2>1, <2>2, BeginPlainInv
<1>5. ASSUME NEW t \in Tags, NEW to \in Tags, Merge(r, t, to) PROVE Inv'
  <2> DEFINE asked == [kind |-> "merge", tag |-> to, absorbed |-> t]
  <2>1. /\ Begin(r, "involved", asked) /\ t \in Used /\ to \in Used /\ t # to
        /\ UNCHANGED <<dbVars, next>>
    BY <1>5, LiveUsed DEF Merge
  <2>2. asked.kind = "merge" /\ asked.tag = to /\ asked.absorbed = t
    OBVIOUS
  <2> HIDE DEF asked
  <2> QED
    BY <1>0, <2>1, <2>2, BeginPlainInv
<1>6. ASSUME NEW t \in Tags, Delete(r, t) PROVE Inv'
  <2> DEFINE asked == [kind |-> "delete", tag |-> t]
  <2>1. Begin(r, "commit", asked) /\ UNCHANGED <<dbVars, next>>
    BY <1>6 DEF Delete
  <2>2. asked.kind = "delete"
    OBVIOUS
  <2> HIDE DEF asked
  <2> QED
    BY <1>0, <2>1, <2>2, BeginPlainInv
<1> QED
  BY <1>1, <1>2, <1>3, <1>4, <1>5, <1>6

-----------------------------------------------------------------------------
(* get_or_create_tags.                                                      *)

\* A statement that draws no ID, and inserts and deletes known rows.
LEMMA StageInv ==
    ASSUME Inv, NEW r \in Reqs, NEW label \in Labels, Goto(r, label),
           UNCHANGED <<db, next, begun, op, unchecked>>,
           DOMAIN ins' = Reqs, DOMAIN del' = Reqs, DOMAIN fresh' = Reqs, DOMAIN found' = Reqs,
           graph' \in [Reqs -> Graphs],
           raced' \in [Reqs -> SUBSET {"tag_implication", "post_tag"}],
           \A q \in Reqs \ {r} :
              /\ ins'[q] = ins[q] /\ del'[q] = del[q] /\ fresh'[q] = fresh[q]
              /\ found'[q] = found[q] /\ graph'[q] = graph[q] /\ raced'[q] = raced[q],
           \A row \in ins'[r] \cup del'[r] \cup fresh'[r] \cup found'[r] : KnownRow(row),
           OpOK(r)', GraphOK(r)', EditOK(r)', MergeOK(r)'
    PROVE  Inv'
<1>1. pc' \in [Reqs -> Labels] /\ \A q \in Reqs \ {r} : pc'[q] = pc[q]
  BY DEF Goto, Inv, Bounds
<1>2. Used' = Used
  BY DEF Used
<1>3. Bounds' /\ Shapes'
  <2>1. Graphs \subseteq Graphs'
    BY <1>2, GraphsGrow
  <2>2. graph' \in [Reqs -> Graphs']
    BY <2>1
  <2> QED
    BY <1>1, <2>2 DEF Inv, Bounds, Shapes
<1>4. \A q \in Reqs \ {r} : Same(q)
  BY <1>1 DEF Same
<1>5. KnownOK(r)'
  BY <1>2 DEF KnownOK, Known, KnownRow
<1> QED
  BY <1>2, <1>3, <1>4, <1>5, StatementInv DEF ReqOK

\* What a request knows stays known.
LEMMA KnownHere ==
    ASSUME Inv, NEW r \in Reqs
    PROVE  \A row \in ins[r] \cup del[r] \cup fresh[r] \cup found[r] \cup db \cup DB!View(r) :
              KnownRow(row)
BY DEF Inv, ReqOK, KnownOK, Known, DB!View

\* An edit that has only read.
LEMMA GraphStepInv ==
    ASSUME Inv, NEW r \in Reqs, op[r].kind \in EditKinds, pc[r] # "commit",
           NEW label \in {"load", "missing", "make"}, Goto(r, label),
           NEW g \in Graphs, graph' = [graph EXCEPT ![r] = g],
           UNCHANGED <<dbVars, next, begun, op, fresh, found, unchecked>>,
           \/ raced' = raced
           \/ raced' = [raced EXCEPT ![r] = @ \ {"tag_implication"}],
           GraphOK(r)'
    PROVE  Inv'
<1>1. /\ DOMAIN ins = Reqs /\ DOMAIN del = Reqs /\ DOMAIN fresh = Reqs /\ DOMAIN found = Reqs
      /\ graph \in [Reqs -> Graphs] /\ ReqOK(r)
      /\ raced \in [Reqs -> SUBSET {"tag_implication", "post_tag"}]
      /\ ins' = ins /\ del' = del /\ db' = db /\ label \in Labels /\ pc'[r] = label
  BY DEF Inv, Bounds, Shapes, dbVars, Labels, Goto
<1>2. /\ graph' \in [Reqs -> Graphs]
      /\ raced' \in [Reqs -> SUBSET {"tag_implication", "post_tag"}]
      /\ \A q \in Reqs \ {r} : graph'[q] = graph[q] /\ raced'[q] = raced[q]
  BY <1>1
<1>3. \A row \in ins'[r] \cup del'[r] \cup fresh'[r] \cup found'[r] : KnownRow(row)
  BY <1>1, KnownHere
<1>4. OpOK(r)'
  BY <1>1 DEF ReqOK, OpOK, EditKinds, Used
<1>5. EditOK(r)' /\ MergeOK(r)'
  <2>1. \A row \in ins'[r] \cup del'[r] : ~Graphic(row)
    BY <1>1 DEF ReqOK, EditOK, QuietOK, EditKinds
  <2> QED
    BY <1>1, <2>1 DEF EditOK, QuietOK, FreshOK, FoundOK, PutOK, MergeOK, EditKinds
<1> QED
  BY <1>1, <1>2, <1>3, <1>4, <1>5, StageInv

\* Tags with a name are used.
LEMMA NamedUsed ==
    ASSUME Inv, NEW r \in Reqs, NEW names
    PROVE  Named(DB!View(r), names) \subseteq Used
<1> SUFFICES ASSUME NEW t \in Named(DB!View(r), names) PROVE t \in Used
  OBVIOUS
<1>1. PICK n \in names, o \in 0..Cardinality(Names) : NameRow(t, o, n) \in DB!View(r)
  BY DEF Named
<1> QED
  BY <1>1, KnownView, Rows DEF Known, KnownRow

LEMMA FindNamedInv ==
    ASSUME Inv, NEW r \in Reqs, FindNamed(r)
    PROVE  Inv'
<1>1. PICK named : named = Named(DB!View(r), op[r].implied)
  OBVIOUS
<1>2. PICK g : g = [NoGraph EXCEPT !.nodes = named, !.ahead = named]
  OBVIOUS
<1>3. /\ pc[r] = "close" /\ Goto(r, "load") /\ raced' = raced
      /\ graph' = [graph EXCEPT ![r] = g]
      /\ UNCHANGED <<dbVars, next, begun, op, fresh, found, unchecked>>
  BY <1>1, <1>2 DEF FindNamed
<1>4. op[r].kind \in EditKinds /\ pc'[r] = "load" /\ graph'[r] = g
  BY <1>3 DEF Inv, Bounds, ReqOK, OpOK, Goto
<1>5. g \in Graphs
  BY <1>1, <1>2, NamedUsed DEF NoGraph, Graphs, Used
<1>6. g.nodes = named /\ g.links = {} /\ g.ahead = named
  BY <1>2 DEF NoGraph
<1>7. GraphOK(r)'
  BY <1>4, <1>6 DEF GraphOK, From
<1> QED
  BY <1>3, <1>4, <1>5, <1>7, GraphStepInv

\* What a turn of the loop makes of the graph.
LEMMA GrownIs ==
    ASSUME NEW g \in Graphs, NEW loaded \in SUBSET (Used \X Used), NEW h, h = Grown(g, loaded)
    PROVE  /\ h \in Graphs
           /\ h.nodes = g.nodes \cup {e[2] : e \in loaded}
           /\ h.links = g.links \cup loaded
           /\ h.ahead = {e[2] : e \in loaded} \ {e[2] : e \in g.links}
<1>1. PICK new, old : new = {e[2] : e \in loaded} /\ old = {e[2] : e \in g.links}
  OBVIOUS
<1>2. h = [g EXCEPT !.nodes = g.nodes \cup new, !.links = g.links \cup loaded,
                    !.ahead = new \ old]
  BY <1>1 DEF Grown
<1>3. /\ h.nodes = g.nodes \cup new /\ h.links = g.links \cup loaded /\ h.ahead = new \ old
  BY <1>2 DEF Graphs
<1>4. /\ g.nodes \cup new \subseteq Used /\ new \ old \subseteq Used
      /\ g.links \cup loaded \subseteq Used \X Used
  BY <1>1 DEF Graphs, Used
<1>5. h \in Graphs
  BY <1>2, <1>4 DEF Graphs, Used
<1> QED
  BY <1>1, <1>3, <1>5

LEMMA LoadImplicationsInv ==
    ASSUME Inv, NEW r \in Reqs, LoadImplications(r)
    PROVE  Inv'
<1>1. PICK loaded : loaded = {e \in Edges(DB!View(r)) : e[1] \in graph[r].ahead}
  OBVIOUS
<1>2. PICK g, h : g = graph[r] /\ h = Grown(g, loaded)
  OBVIOUS
<1>3. /\ pc[r] = "load" /\ graph' = [graph EXCEPT ![r] = h]
      /\ UNCHANGED <<dbVars, next, begun, op, fresh, found, unchecked>>
      /\ raced' = IF g.links = {} THEN [raced EXCEPT ![r] = @ \ {"tag_implication"}] ELSE raced
      /\ \/ graph'[r].nodes # graph[r].nodes /\ UNCHANGED pc
         \/ /\ graph'[r].nodes = graph[r].nodes
            /\ op[r].kind # "tag" => Acyclic(graph'[r].links)
            /\ Goto(r, "missing")
  BY <1>1, <1>2 DEF LoadImplications, Reads
<1>4. /\ g \in Graphs /\ graph'[r] = h /\ op[r].kind \in EditKinds /\ GraphOK(r)
      /\ pc \in [Reqs -> Labels] /\ raced \in [Reqs -> SUBSET {"tag_implication", "post_tag"}]
  BY <1>2, <1>3 DEF Inv, Bounds, ReqOK, OpOK
<1>5. loaded = {e \in Edges(db) : e[1] \in g.ahead} /\ Edges(db) \subseteq Used \X Used
  BY <1>1, <1>2, <1>3, <1>4, QuietView, KnownEdges DEF Inv
<1>6. /\ h.nodes = g.nodes \cup {e[2] : e \in loaded} /\ h.links = g.links \cup loaded
      /\ h.ahead = {e[2] : e \in loaded} \ {e[2] : e \in g.links}
      /\ h \in Graphs
  <2>1. loaded \in SUBSET (Used \X Used)
    BY <1>5
  <2> QED
    BY <1>2, <1>4, <2>1, GrownIs
<1>7. \A e \in g.links : e[2] \in g.nodes
  BY <1>2, <1>3, <1>4 DEF GraphOK
<1>8. \A e \in h.links : e[2] \in h.nodes
  BY <1>6, <1>7
<1>9. ASSUME "tag_implication" \notin raced'[r], NEW e \in Edges(db), e[1] \in g.nodes
       PROVE  e \in h.links
  <2>1. e[1] \in g.ahead \/ e \in g.links
    BY <1>2, <1>3, <1>4, <1>9 DEF GraphOK, From
  <2> QED
    BY <1>5, <1>6, <2>1
<1>10. ASSUME "tag_implication" \notin raced'[r], NEW e \in Edges(db), e[1] \in h.nodes
       PROVE  e[1] \in h.ahead \/ e \in h.links
  BY <1>6, <1>7, <1>9, <1>10
<1>11. CASE h.nodes # g.nodes
  <2>1. Goto(r, "load") /\ pc'[r] = "load"
    BY <1>2, <1>3, <1>4, <1>11 DEF Goto
  <2>2. h.links # {}
    BY <1>6, <1>11
  <2>3. GraphOK(r)'
    BY <1>3, <1>4, <1>8, <1>10, <2>1, <2>2 DEF GraphOK, From, Edges, dbVars
  <2> QED
    BY <1>3, <1>4, <1>6, <2>1, <2>3, GraphStepInv
<1>12. CASE h.nodes = g.nodes
  <2>1. /\ Goto(r, "missing") /\ pc'[r] = "missing"
        /\ op[r].kind # "tag" => Acyclic(h.links)
    BY <1>2, <1>3, <1>4, <1>12 DEF Goto
  <2>2. ASSUME "tag_implication" \notin raced'[r]
        PROVE  From(Edges(db), h.nodes) \subseteq h.links
    BY <1>9, <1>12, <2>2 DEF From
  <2>3. ASSUME "tag_implication" \notin raced'[r]
        PROVE  /\ Closed(Edges(db), h.nodes)
               /\ op[r].kind # "tag" => Acyclic(From(Edges(db), h.nodes))
    BY <1>8, <2>1, <2>2, <2>3, SubgraphAcyclic DEF Closed, From
  <2>4. Edges(db)' = Edges(db)
    BY <1>3 DEF Edges, dbVars
  <2>5. GraphOK(r)'
    BY <1>3, <1>4, <2>1, <2>3, <2>4 DEF GraphOK
  <2> QED
    BY <1>3, <1>4, <1>6, <2>1, <2>5, GraphStepInv
<1> QED
  BY <1>11, <1>12

\* A row an edit puts there is its own, and of one tag.
LEMMA PutRows ==
    ASSUME NEW r \in Reqs, NEW t, NEW u
    PROVE  /\ Mine(r, Put(r, t)) /\ Graphic(Put(r, t))
           /\ Put(r, t) = Put(r, u) => t = u
           /\ Implies(t, u) = Put(r, u) => op[r].kind # "tag" /\ t = op[r].tag
           /\ op[r].tag \in Used /\ t \in Used => KnownRow(Put(r, t))
           /\ op[r].kind = "tag" => KnownRow(Put(r, t))
<1>1. CASE op[r].kind = "tag"
  <2>1. Put(r, t) = Usage(op[r].post, t) /\ Put(r, u) = Usage(op[r].post, u)
    BY <1>1 DEF Put
  <2>2. Implies(t, u).table = "tag_implication"
    BY Rows
  <2> QED
    BY <1>1, <2>1, <2>2, Rows DEF Mine, Graphic, KnownRow
<1>2. CASE op[r].kind # "tag"
  <2>1. Put(r, t) = Implies(op[r].tag, t) /\ Put(r, u) = Implies(op[r].tag, u)
    BY <1>2 DEF Put
  <2> QED
    BY <1>2, <2>1, Rows DEF Mine, Graphic, KnownRow
<1> QED
  BY <1>1, <1>2

\* The edit is about to insert the tags returned to it, the graph's and new ones.
LEMMA ReturnInv ==
    ASSUME Inv, NEW r \in Reqs, NEW N \in SUBSET Tags, Return(r, N), N \subseteq Used',
           op[r].kind \in EditKinds, pc[r] # "commit",
           next' \in 1..MaxTag + 1, Used \subseteq Used',
           UNCHANGED <<db, begun, op, found, raced, unchecked>>,
           NEW inserted, \A row \in inserted : KnownRow(row)' /\ ~Graphic(row),
           DOMAIN ins' = Reqs, DOMAIN del' = Reqs,
           \A q \in Reqs \ {r} : ins'[q] = ins[q] /\ del'[q] = del[q],
           ins'[r] = ins[r] \cup inserted, del'[r] = del[r],
           "tag_implication" \notin raced[r] =>
              /\ Closed(Edges(db), N)
              /\ op[r].kind # "tag" => Acyclic(From(Edges(db), N))
    PROVE  Inv'
<1>1. fresh' = [fresh EXCEPT ![r] = {Put(r, t) : t \in N}]
  <2>1. CASE op[r].kind = "tag"
    BY <2>1 DEF Return, Put
  <2>2. CASE op[r].kind # "tag"
    BY <2>2 DEF Return, Put
  <2> QED
    BY <2>1, <2>2
<1>2. pc' = [pc EXCEPT ![r] = "find"] /\ graph' = [graph EXCEPT ![r] = NoGraph]
  BY DEF Return, Goto
<1>3. /\ pc \in [Reqs -> Labels] /\ DOMAIN op = Reqs /\ DOMAIN fresh = Reqs /\ DOMAIN found = Reqs
      /\ graph \in [Reqs -> Graphs] /\ ReqOK(r)
  BY DEF Inv, Bounds, Shapes
<1>4. pc'[r] = "find" /\ fresh'[r] = {Put(r, t) : t \in N} /\ pc' \in [Reqs -> Labels]
  BY <1>1, <1>2, <1>3 DEF Labels
<1>5. Bounds' /\ Shapes'
  <2>1. NoGraph \in Graphs' /\ Graphs \subseteq Graphs'
    BY GraphsGrow DEF NoGraph, Graphs
  <2>2. graph' \in [Reqs -> Graphs']
    BY <1>2, <1>3, <2>1
  <2> QED
    BY <1>1, <1>3, <1>4, <2>2 DEF Inv, Bounds, Shapes
<1>6. \A q \in Reqs \ {r} : Same(q)
  BY <1>1, <1>2, <1>3 DEF Same
<1>7. \A t : Put(r, t)' = Put(r, t)
  BY DEF Put
<1>8. New(r)' = N
  <2>1. \A t \in Tags : Put(r, t) \in fresh'[r] <=> t \in N
    BY <1>4, PutRows
  <2> QED
    BY <1>7, <2>1 DEF New
<1>9. KnownOK(r)'
  <2>1. \A row \in fresh'[r] : KnownRow(row)'
    <3> SUFFICES ASSUME NEW row \in fresh'[r] PROVE KnownRow(row)'
      OBVIOUS
    <3>1. PICK t \in N : row = Put(r, t)
      BY <1>4
    <3>2. t \in Used' /\ (op[r].kind # "tag" => op[r].tag \in Used')
      BY <1>3 DEF ReqOK, OpOK, EditKinds
    <3>3. CASE op[r].kind = "tag"
      BY <3>1, <3>3, Rows DEF Put, KnownRow
    <3>4. CASE op[r].kind # "tag"
      BY <3>1, <3>2, <3>4, Rows DEF Put, KnownRow
    <3> QED
      BY <3>3, <3>4
  <2>2. \A row \in ins[r] \cup del[r] \cup found[r] : KnownRow(row)'
    BY <1>3, KnownGrows DEF ReqOK, KnownOK
  <2> QED
    BY <2>1, <2>2 DEF KnownOK, Known
<1>10. OpOK(r)'
  BY <1>3, <1>4 DEF ReqOK, OpOK, EditKinds
<1>11. QuietOK(r)' /\ FoundOK(r)' /\ PutOK(r)'
  BY <1>3, <1>4 DEF ReqOK, EditOK, QuietOK, FoundOK, PutOK, EditKinds
<1>12. FreshOK(r)'
  <2>1. \A row \in fresh'[r] : Mine(r, row)'
    <3>1. \A row \in fresh'[r] : Mine(r, row)
      BY <1>4, PutRows
    <3> QED
      BY <3>1 DEF Mine
  <2>2. Edges(db)' = Edges(db)
    BY DEF Edges
  <2> QED
    BY <1>4, <1>8, <2>1, <2>2 DEF FreshOK
<1>13. MergeOK(r)'
  BY DEF MergeOK, EditKinds
<1>14. GraphOK(r)'
  BY <1>4 DEF GraphOK
<1>15. ReqOK(r)'
  BY <1>9, <1>10, <1>11, <1>12, <1>13, <1>14 DEF ReqOK, EditOK
<1> QED
  BY <1>5, <1>6, <1>15, StatementInv

LEMMA FindMissingInv ==
    ASSUME Inv, NEW r \in Reqs, FindMissing(r)
    PROVE  Inv'
<1>1. PICK missing : missing = {n \in op[r].implied : Named(DB!View(r), {n}) = {}}
  OBVIOUS
<1>2. /\ pc[r] = "missing" /\ UNCHANGED <<dbVars, next, begun, op, found, raced, unchecked>>
      /\ \/ missing = {} /\ Return(r, graph[r].nodes)
         \/ /\ graph' = [graph EXCEPT ![r].missing = missing]
            /\ Goto(r, "make")
            /\ UNCHANGED fresh
  BY <1>1 DEF FindMissing
<1>3. /\ graph \in [Reqs -> Graphs] /\ op[r].kind \in EditKinds /\ op[r].implied \subseteq Names
      /\ GraphOK(r) /\ DOMAIN ins = Reqs /\ DOMAIN del = Reqs /\ next \in 1..MaxTag + 1
  BY <1>2 DEF Inv, Bounds, Shapes, ReqOK, OpOK
<1>4. Used' = Used /\ db' = db /\ ins' = ins /\ del' = del /\ next' = next
  BY <1>2 DEF Used, dbVars
<1>5. CASE Return(r, graph[r].nodes)
  <2>1. graph[r].nodes \subseteq Used /\ Used \subseteq Tags
    BY <1>3, UsedTags DEF Graphs, Used
  <2>2. PICK N \in SUBSET Tags : N = graph[r].nodes /\ N \subseteq Used'
    BY <1>4, <2>1
  <2>3. "tag_implication" \notin raced[r] =>
           /\ Closed(Edges(db), N)
           /\ op[r].kind # "tag" => Acyclic(From(Edges(db), N))
    BY <1>2, <1>3, <2>2 DEF GraphOK
  <2>4. PICK none : none = {}
    OBVIOUS
  <2>5. ins'[r] = ins[r] \cup none /\ \A row \in none : KnownRow(row)' /\ ~Graphic(row)
    BY <1>4, <2>4
  <2>6. /\ DOMAIN ins' = Reqs /\ DOMAIN del' = Reqs /\ next' \in 1..MaxTag + 1
        /\ del'[r] = del[r] /\ \A q \in Reqs \ {r} : ins'[q] = ins[q] /\ del'[q] = del[q]
        /\ UNCHANGED <<db, begun, op, found, raced, unchecked>>
        /\ Return(r, N) /\ Used \subseteq Used' /\ pc[r] # "commit"
    BY <1>2, <1>3, <1>4, <1>5, <2>2
  <2> QED
    BY <1>3, <2>2, <2>3, <2>5, <2>6, ReturnInv
<1>6. CASE /\ graph' = [graph EXCEPT ![r].missing = missing]
           /\ Goto(r, "make") /\ UNCHANGED fresh
  <2>1. PICK g : g = [graph[r] EXCEPT !.missing = missing]
    OBVIOUS
  <2>2. g \in Graphs /\ g.nodes = graph[r].nodes
    BY <1>1, <1>3, <2>1 DEF Graphs
  <2>3. graph' = [graph EXCEPT ![r] = g] /\ graph'[r] = g /\ pc'[r] = "make"
    BY <1>3, <1>6, <2>1 DEF Goto, Inv, Bounds
  <2>4. Edges(db)' = Edges(db)
    BY <1>4 DEF Edges
  <2>5. GraphOK(r)'
    BY <1>2, <1>3, <2>2, <2>3, <2>4 DEF GraphOK
  <2> QED
    BY <1>2, <1>3, <1>6, <2>2, <2>3, <2>5, GraphStepInv
<1> QED
  BY <1>2, <1>5, <1>6

\* The new tags are known, and no implication is about them.
LEMMA CreateMissingDoes ==
    ASSUME Inv, NEW r \in Reqs, CreateMissing(r)
    PROVE  /\ op[r].kind \in EditKinds /\ next' \in 1..MaxTag + 1 /\ Used \subseteq Used'
           /\ graph[r].missing \subseteq Names
           /\ \E new \in SUBSET Tags :
                 /\ new \cap Used = {} /\ new \subseteq Used' /\ Return(r, graph[r].nodes \cup new)
                 /\ \E id \in [graph[r].missing -> new] :
                       DB!Insert(r, UNION {{TagRow(id[n]), NameRow(id[n], 0, n)} :
                                              n \in graph[r].missing})
<1>1. PICK missing : missing = graph[r].missing
  OBVIOUS
<1>2. PICK new : new = Drawn(Cardinality(missing))
  OBVIOUS
<1>3. /\ pc[r] = "make" /\ next + Cardinality(missing) <= MaxTag + 1
      /\ next' = next + Cardinality(missing) /\ Return(r, graph[r].nodes \cup new)
      /\ \E id \in [missing -> new] :
            DB!Insert(r, UNION {{TagRow(id[n]), NameRow(id[n], 0, n)} : n \in missing})
  BY <1>1, <1>2 DEF CreateMissing
<1>4. op[r].kind \in EditKinds /\ missing \subseteq Names /\ next \in 1..MaxTag + 1
  <2>1. graph[r] \in Graphs
    BY DEF Inv, Bounds
  <2> QED
    BY <1>1, <1>3, <2>1 DEF Inv, Bounds, ReqOK, OpOK, Graphs
<1>5. Cardinality(missing) \in Nat
  BY <1>4, NamesAssumption, FS_Subset, FS_CardinalityType
<1>6. /\ new \subseteq Tags /\ new \cap Used = {} /\ new \subseteq Used' /\ Used \subseteq Used'
      /\ next' \in 1..MaxTag + 1
  BY <1>2, <1>3, <1>4, <1>5, DrawnIds
<1> QED
  BY <1>1, <1>3, <1>4, <1>6

LEMMA CreateMissingInv ==
    ASSUME Inv, NEW r \in Reqs, CreateMissing(r)
    PROVE  Inv'
<1>0. op[r].kind \in EditKinds /\ next' \in 1..MaxTag + 1 /\ Used \subseteq Used'
  BY CreateMissingDoes
<1>1. PICK new \in SUBSET Tags :
         /\ new \cap Used = {} /\ new \subseteq Used' /\ Return(r, graph[r].nodes \cup new)
         /\ \E id \in [graph[r].missing -> new] :
               DB!Insert(r, UNION {{TagRow(id[n]), NameRow(id[n], 0, n)} :
                                      n \in graph[r].missing})
  BY CreateMissingDoes
<1>2. PICK id \in [graph[r].missing -> new] :
         DB!Insert(r, UNION {{TagRow(id[n]), NameRow(id[n], 0, n)} : n \in graph[r].missing})
  BY <1>1
<1>3. PICK inserted :
         inserted = UNION {{TagRow(id[n]), NameRow(id[n], 0, n)} : n \in graph[r].missing}
  OBVIOUS
<1>4. ASSUME NEW row \in inserted PROVE KnownRow(row)' /\ ~Graphic(row)
  <2>1. PICK n \in graph[r].missing : row \in {TagRow(id[n]), NameRow(id[n], 0, n)}
    BY <1>3
  <2>2. id[n] \in Used'
    BY <1>1, <1>2
  <2> QED
    BY <2>1, <2>2, Rows DEF KnownRow, Graphic
<1>5. /\ db' = db /\ DOMAIN ins' = Reqs /\ DOMAIN del' = Reqs
      /\ \A q \in Reqs \ {r} : ins'[q] = ins[q] /\ del'[q] = del[q]
      /\ ins'[r] = ins[r] \cup inserted /\ del'[r] = del[r]
  BY <1>2, <1>3, InsertDoes
<1>6. /\ pc[r] = "make" /\ UNCHANGED <<begun, op, found, raced, unchecked>>
  BY DEF CreateMissing
<1>7. graph[r].nodes \subseteq Used /\ Used \subseteq Tags /\ GraphOK(r)
  <2>1. graph[r] \in Graphs /\ GraphOK(r) /\ next \in 1..MaxTag + 1
    BY DEF Inv, Bounds, ReqOK
  <2> QED
    BY <2>1, UsedTags DEF Graphs, Used
<1>8. PICK N \in SUBSET Tags : N = graph[r].nodes \cup new /\ N \subseteq Used'
  BY <1>0, <1>1, <1>7
<1>9. ASSUME "tag_implication" \notin raced[r]
      PROVE  /\ Closed(Edges(db), N)
             /\ op[r].kind # "tag" => Acyclic(From(Edges(db), N))
  <2>1. Edges(db) \subseteq Used \X Used
    BY KnownEdges DEF Inv
  <2>2. From(Edges(db), N) = From(Edges(db), graph[r].nodes)
    BY <1>1, <1>8, <2>1 DEF From
  <2> QED
    BY <1>1, <1>6, <1>7, <1>8, <1>9, <2>1, <2>2 DEF GraphOK, Closed
<1>10. Return(r, N) /\ pc[r] # "commit"
  BY <1>1, <1>6, <1>8
<1> QED
  BY <1>0, <1>4, <1>5, <1>6, <1>8, <1>9, <1>10, ReturnInv

-----------------------------------------------------------------------------
(* The other statements draw no ID and leave the graph alone.               *)

LEMMA PhaseInv ==
    ASSUME Inv, NEW r \in Reqs, NEW label \in Labels \ {"load", "missing", "make"},
           Goto(r, label), UNCHANGED <<db, next, begun, op, graph, unchecked>>,
           DOMAIN ins' = Reqs, DOMAIN del' = Reqs, DOMAIN fresh' = Reqs, DOMAIN found' = Reqs,
           raced' \in [Reqs -> SUBSET {"tag_implication", "post_tag"}],
           \A q \in Reqs \ {r} :
              /\ ins'[q] = ins[q] /\ del'[q] = del[q] /\ fresh'[q] = fresh[q]
              /\ found'[q] = found[q] /\ raced'[q] = raced[q],
           \A row \in ins'[r] \cup del'[r] \cup fresh'[r] \cup found'[r] : KnownRow(row),
           OpOK(r)', EditOK(r)', MergeOK(r)'
    PROVE  Inv'
<1>1. graph' \in [Reqs -> Graphs] /\ \A q \in Reqs \ {r} : graph'[q] = graph[q]
  BY DEF Inv, Bounds
<1>2. GraphOK(r)'
  BY DEF Goto, Inv, Bounds, GraphOK
<1> QED
  BY <1>1, <1>2, StageInv

\* A merge is no edit, and an edit no merge.
LEMMA MergeEdit ==
    ASSUME NEW r \in Reqs
    PROVE  /\ op'[r].kind = "merge" => EditOK(r)'
           /\ op'[r].kind # "merge" => MergeOK(r)'
BY DEF EditOK, QuietOK, FreshOK, FoundOK, PutOK, EditKinds, MergeOK

LEMMA RedirectInv ==
    ASSUME Inv, NEW r \in Reqs, RedirectImplications(r)
    PROVE  Inv'
<1> DEFINE both     == {op[r].tag, op[r].absorbed}
           involved == {e \in Edges(DB!View(r)) : {e[1], e[2]} \cap both # {}}
           moved    == {Redirect(op[r].absorbed, op[r].tag, e) : e \in involved}
<1>1. /\ pc[r] = "involved" /\ Goto(r, "find")
      /\ fresh' = [fresh EXCEPT ![r] = {row \in moved : row.parent # row.child}]
      /\ raced' = [raced EXCEPT ![r] = @ \ {"tag_implication"}]
      /\ UNCHANGED <<db, ins, del, next, begun, op, found, graph, unchecked>>
  BY DEF RedirectImplications, Reads, dbVars
<1>2. op[r].kind = "merge" /\ op[r].tag \in Used /\ op[r].absorbed \in Used
  BY <1>1 DEF Inv, ReqOK, OpOK
<1>3. ASSUME NEW row \in moved PROVE KnownRow(row)
  <2>1. PICK e \in involved : row = Redirect(op[r].absorbed, op[r].tag, e)
    OBVIOUS
  <2>2. e[1] \in Used /\ e[2] \in Used
    BY KnownView, KnownEdges
  <2> QED
    BY <1>2, <2>1, <2>2, Rows DEF Redirect, KnownRow
<1>10. \A row \in moved : row.table # "post_tag"
  BY Rows DEF Redirect
<1> HIDE DEF moved
<1>4. DOMAIN fresh = Reqs /\ raced \in [Reqs -> SUBSET {"tag_implication", "post_tag"}]
  BY DEF Inv, Shapes, Bounds
<1>5. DOMAIN fresh' = Reqs /\ raced' \in [Reqs -> SUBSET {"tag_implication", "post_tag"}]
  BY <1>1, <1>4
<1>6. \A q \in Reqs \ {r} :
         /\ ins'[q] = ins[q] /\ del'[q] = del[q] /\ fresh'[q] = fresh[q]
         /\ found'[q] = found[q] /\ raced'[q] = raced[q]
  BY <1>1, <1>4
<1>7. \A row \in ins'[r] \cup del'[r] \cup fresh'[r] \cup found'[r] : KnownRow(row)
  BY <1>1, <1>3, <1>4, KnownHere
<1>8. OpOK(r)' /\ EditOK(r)'
  <2>1. pc'[r] = "find"
    BY <1>1 DEF Goto, Inv, Bounds
  <2> QED
    BY <1>1, <1>2, <2>1, MergeEdit DEF OpOK, EditKinds, Used
<1>9. "find" \in Labels \ {"load", "missing", "make"}
  BY DEF Labels
<1>11. MergeOK(r)'
  <2>1. pc'[r] = "find" /\ MergeOK(r)
    BY <1>1 DEF Goto, Inv, Bounds, ReqOK
  <2>2. \A row \in fresh'[r] : row.table # "post_tag"
    BY <1>1, <1>4, <1>10
  <2> QED
    BY <1>1, <1>2, <2>1, <2>2 DEF MergeOK
<1> QED
  BY <1>1, <1>5, <1>6, <1>7, <1>8, <1>9, <1>11, PhaseInv DEF Inv, Shapes

LEMMA FindOldRowsInv ==
    ASSUME Inv, NEW r \in Reqs, FindOldRows(r)
    PROVE  Inv'
<1>1. /\ pc[r] = "find" /\ Goto(r, "replace") /\ pc'[r] = "replace"
      /\ \A t \in Tags : Implies(t, t) \notin fresh[r]
      /\ found' = [found EXCEPT ![r] = OldRows(r)]
      /\ raced' = [raced EXCEPT ![r] = IF op[r].kind = "tag" THEN @ \ {"post_tag"} ELSE @]
      /\ UNCHANGED <<db, ins, del, next, begun, op, fresh, graph, unchecked>>
  BY DEF FindOldRows, Reads, dbVars, Goto, Inv, Bounds
<1>2. /\ DOMAIN found = Reqs /\ raced \in [Reqs -> SUBSET {"tag_implication", "post_tag"}]
      /\ ReqOK(r)
  BY DEF Inv, Shapes, Bounds
<1>3. OldRows(r) \subseteq DB!View(r)
  BY DEF OldRows
<1>4. DOMAIN found' = Reqs /\ raced' \in [Reqs -> SUBSET {"tag_implication", "post_tag"}]
  BY <1>1, <1>2
<1>5. \A q \in Reqs \ {r} :
         /\ ins'[q] = ins[q] /\ del'[q] = del[q] /\ fresh'[q] = fresh[q]
         /\ found'[q] = found[q] /\ raced'[q] = raced[q]
  BY <1>1, <1>2
<1>6. \A row \in ins'[r] \cup del'[r] \cup fresh'[r] \cup found'[r] : KnownRow(row)
  BY <1>1, <1>2, <1>3, KnownHere
<1>7. OpOK(r)'
  BY <1>1, <1>2 DEF ReqOK, OpOK, Used
<1>8. EditOK(r)'
  <2>1. CASE op[r].kind = "merge"
    BY <1>1, <2>1, MergeEdit
  <2>2. CASE op[r].kind \in EditKinds
    <3>1. QuietOK(r)' /\ PutOK(r)'
      BY <1>1, <1>2, <2>2 DEF ReqOK, EditOK, QuietOK, PutOK
    <3>2. "tag_implication" \notin raced'[r] => "tag_implication" \notin raced[r]
      BY <1>1, <1>2
    <3>3. New(r)' = New(r) /\ Edges(db)' = Edges(db)
      BY <1>1 DEF New, Put, Edges
    <3>4. FreshOK(r)'
      BY <1>1, <1>2, <2>2, <3>2, <3>3 DEF ReqOK, EditOK, FreshOK, Mine
    <3>5. ASSUME NEW row \in db, Mine(r, row) PROVE row \in OldRows(r)
      <4>1. row \in DB!View(r)
        BY <1>1, <2>2, <3>5, QuietView DEF Mine, Graphic
      <4> QED
        BY <2>2, <3>5, <4>1 DEF OldRows, Mine, EditKinds
    <3>6. FoundOK(r)'
      BY <1>1, <1>2, <3>5 DEF FoundOK, Mine
    <3> QED
      BY <3>1, <3>4, <3>6 DEF EditOK
  <2> QED
    BY <1>1, <1>2, <2>1, <2>2 DEF ReqOK, OpOK
<1>9. "replace" \in Labels \ {"load", "missing", "make"}
  BY DEF Labels
<1>10. MergeOK(r)'
  <2>1. op[r].kind = "merge" => \A row \in OldRows(r) : row.table # "post_tag"
    BY DEF OldRows
  <2> QED
    BY <1>1, <1>2, <2>1 DEF ReqOK, MergeOK
<1> QED
  BY <1>1, <1>4, <1>5, <1>6, <1>7, <1>8, <1>9, <1>10, PhaseInv DEF Inv, Shapes

LEMMA ReplaceRowsInv ==
    ASSUME Inv, NEW r \in Reqs, ReplaceRows(r)
    PROVE  Inv'
<1> DEFINE label == IF op[r].kind = "merge" THEN "usages" ELSE "commit"
<1>1. /\ pc[r] = "replace" /\ Goto(r, label) /\ pc'[r] = label
      /\ label \in Labels \ {"load", "missing", "make"}
      /\ DB!Replace(r, found[r], fresh[r])
      /\ UNCHANGED <<next, begun, op, fresh, found, raced, graph, unchecked>>
  BY DEF ReplaceRows, Goto, Inv, Bounds, Labels
<1>2. /\ db' = db /\ DOMAIN ins' = Reqs /\ DOMAIN del' = Reqs
      /\ \A q \in Reqs \ {r} : ins'[q] = ins[q] /\ del'[q] = del[q]
      /\ ins'[r] = (ins[r] \ (found[r] \cap DB!View(r))) \cup fresh[r]
      /\ del'[r] = del[r] \cup (found[r] \cap DB!View(r) \cap db)
  BY <1>1, ReplaceDoes
<1>3. \A row \in ins'[r] \cup del'[r] \cup fresh'[r] \cup found'[r] : KnownRow(row)
  BY <1>1, <1>2, KnownHere
<1>4. ReqOK(r) /\ op[r].kind \in EditKinds \cup {"merge"}
  BY <1>1 DEF Inv, ReqOK, OpOK
<1>5. OpOK(r)'
  BY <1>1, <1>4 DEF ReqOK, OpOK, EditKinds, Used
<1>6. EditOK(r)'
  <2>1. CASE op[r].kind = "merge"
    BY <1>1, <2>1, MergeEdit
  <2>2. CASE op[r].kind \in EditKinds
    <3>0. pc'[r] = "commit"
      BY <1>1, <2>2 DEF EditKinds
    <3>1. QuietOK(r)'
      BY <1>1, <2>2, <3>0 DEF QuietOK
    <3>2. New(r)' = New(r) /\ Edges(db)' = Edges(db)
      BY <1>1, <1>2 DEF New, Put, Edges
    <3>3. FreshOK(r)'
      BY <1>1, <1>2, <1>4, <2>2, <3>0, <3>2 DEF ReqOK, EditOK, FreshOK, Mine
    <3>4. \A row \in ins[r] \cup del[r] : ~Graphic(row)
      BY <1>1, <1>4, <2>2 DEF ReqOK, EditOK, QuietOK, EditKinds
    <3>5. PutOK(r)'
      BY <1>1, <1>2, <3>4 DEF PutOK
    <3>6. ASSUME Table(r) \notin raced[r], NEW row \in db, Mine(r, row) PROVE row \in del'[r]
      <4>1. row \in found[r]
        BY <1>1, <1>4, <2>2, <3>6 DEF ReqOK, EditOK, FoundOK
      <4>2. row \in DB!View(r)
        BY <1>1, <2>2, <3>6, QuietView DEF Mine, Graphic
      <4> QED
        BY <1>2, <3>6, <4>1, <4>2
    <3>7. FoundOK(r)'
      BY <1>1, <1>2, <3>0, <3>6 DEF FoundOK, Mine, Table
    <3> QED
      BY <3>1, <3>3, <3>5, <3>7 DEF EditOK
  <2> QED
    BY <1>4, <2>1, <2>2
<1>7. MergeOK(r)'
  BY <1>1, <1>2, <1>4 DEF ReqOK, MergeOK
<1> HIDE DEF label
<1> QED
  BY <1>1, <1>2, <1>3, <1>5, <1>6, <1>7, PhaseInv DEF Inv, Shapes, Bounds

LEMMA MergeUsagesInv ==
    ASSUME Inv, NEW r \in Reqs, MergeUsages(r)
    PROVE  Inv'
<1>1. PICK posts : posts = UsedBy(DB!View(r), op[r].absorbed) \ UsedBy(DB!View(r), op[r].tag)
  OBVIOUS
<1>2. /\ pc[r] = "usages" /\ Goto(r, "find names") /\ pc'[r] = "find names"
      /\ DB!Insert(r, {Usage(p, op[r].tag) : p \in posts})
      /\ raced' = [raced EXCEPT ![r] = @ \ {"post_tag"}]
      /\ UNCHANGED <<next, begun, op, fresh, found, graph, unchecked>>
  BY <1>1 DEF MergeUsages, Reads, Goto, Inv, Bounds
<1>3. /\ db' = db /\ DOMAIN ins' = Reqs /\ DOMAIN del' = Reqs
      /\ \A q \in Reqs \ {r} : ins'[q] = ins[q] /\ del'[q] = del[q]
      /\ ins'[r] = ins[r] \cup {Usage(p, op[r].tag) : p \in posts} /\ del'[r] = del[r]
  BY <1>2, InsertDoes
<1>4. \A row \in ins'[r] \cup del'[r] \cup fresh'[r] \cup found'[r] : KnownRow(row)
  <2>1. \A p \in posts : KnownRow(Usage(p, op[r].tag))
    BY Rows DEF KnownRow
  <2> QED
    BY <1>2, <1>3, <2>1, KnownHere
<1>5. raced \in [Reqs -> SUBSET {"tag_implication", "post_tag"}] /\ op[r].kind = "merge" /\ OpOK(r)
  BY <1>2 DEF Inv, Bounds, ReqOK, OpOK
<1>6. /\ raced' \in [Reqs -> SUBSET {"tag_implication", "post_tag"}]
      /\ \A q \in Reqs \ {r} : raced'[q] = raced[q]
  BY <1>2, <1>5
<1>7. OpOK(r)' /\ EditOK(r)'
  BY <1>2, <1>5, MergeEdit DEF OpOK, EditKinds, Used
<1>8. "find names" \in Labels \ {"load", "missing", "make"}
  BY DEF Labels
<1>9. MergeOK(r)'
  <2>1. /\ \A row \in ins[r] \cup del[r] : row.table # "post_tag"
        /\ op[r].tag # op[r].absorbed
    BY <1>2, <1>5 DEF Inv, ReqOK, MergeOK
  <2>2. ASSUME NEW p \in Posts
        PROVE  Usage(p, op[r].tag) \in ins'[r] <=>
                  /\ Usage(p, op[r].absorbed) \in db
                  /\ Usage(p, op[r].tag) \notin db
    <3>1. Usage(p, op[r].tag) \in ins'[r] <=> p \in posts
      BY <1>3, <2>1, UsageRow
    <3>2. \A t : Usage(p, t) \in DB!View(r) <=> Usage(p, t) \in db
      BY <2>1, Rows DEF DB!View
    <3> QED
      BY <1>1, <3>1, <3>2 DEF UsedBy
  <2> QED
    BY <1>2, <1>3, <2>1, <2>2 DEF MergeOK
<1> QED
  BY <1>2, <1>3, <1>4, <1>6, <1>7, <1>8, <1>9, PhaseInv DEF Inv, Shapes

LEMMA FindNamesInv ==
    ASSUME Inv, NEW r \in Reqs, FindNames(r)
    PROVE  Inv'
<1>0. ReqOK(r) /\ DOMAIN found = Reqs /\ DOMAIN fresh = Reqs
  BY DEF Inv, Shapes
<1>1. PICK t : t = IF op[r].kind = "merge" THEN op[r].absorbed ELSE op[r].tag
  OBVIOUS
<1>2. PICK gone : gone = TagNames(DB!View(r), t)
  OBVIOUS
<1>3. /\ pc[r] = "find names" /\ Goto(r, "names") /\ pc'[r] = "names"
      /\ found' = [found EXCEPT ![r] = gone]
      /\ UNCHANGED <<db, ins, del, next, begun, op, raced, graph, unchecked>>
  BY <1>1, <1>2 DEF FindNames, Goto, dbVars, Inv, Bounds
<1>4. PICK names, from : fresh' = [fresh EXCEPT ![r] = Added(op[r].tag, from, names)]
  BY DEF FindNames
<1>5. gone \subseteq DB!View(r) /\ \A row \in gone : ~Graphic(row)
  BY <1>2, Rows DEF TagNames, Graphic
<1>6. op[r].tag \in Used
  BY <1>0, <1>3 DEF ReqOK, OpOK
<1>7. \A row \in fresh'[r] : KnownRow(row) /\ ~Graphic(row)
  BY <1>0, <1>4, <1>6, Rows DEF Added, KnownRow, Graphic
<1>8. \A row \in ins'[r] \cup del'[r] \cup fresh'[r] \cup found'[r] : KnownRow(row)
  BY <1>0, <1>3, <1>5, <1>7, KnownHere
<1>9. /\ DOMAIN found' = Reqs /\ DOMAIN fresh' = Reqs
      /\ \A q \in Reqs \ {r} : found'[q] = found[q] /\ fresh'[q] = fresh[q]
  BY <1>0, <1>3, <1>4
<1>10. OpOK(r)'
  BY <1>0, <1>3 DEF ReqOK, OpOK, Used
<1>11. EditOK(r)'
  BY <1>0, <1>3, <1>5, <1>7
     DEF ReqOK, EditOK, QuietOK, FreshOK, FoundOK, PutOK
<1>12. "names" \in Labels \ {"load", "missing", "make"}
  BY DEF Labels
<1>13. MergeOK(r)'
  BY <1>0, <1>3, <1>5, <1>7 DEF ReqOK, MergeOK, Graphic
<1> QED
  BY <1>3, <1>8, <1>9, <1>10, <1>11, <1>12, <1>13, PhaseInv DEF Inv, Shapes, Bounds

LEMMA ReplaceNamesInv ==
    ASSUME Inv, NEW r \in Reqs, ReplaceNames(r)
    PROVE  Inv'
<1> DEFINE label == IF op[r].kind = "update" THEN "close" ELSE "commit"
<1>1. /\ pc[r] = "names" /\ Goto(r, label) /\ pc'[r] = label
      /\ label \in Labels \ {"load", "missing", "make"}
      /\ UNCHANGED <<next, begun, op, fresh, found, raced, graph, unchecked>>
  BY DEF ReplaceNames, Goto, Inv, Bounds, Labels
<1>2. PICK new : new \subseteq fresh[r] /\ DB!Replace(r, found[r], new)
  BY DEF ReplaceNames
<1>3. /\ db' = db /\ DOMAIN ins' = Reqs /\ DOMAIN del' = Reqs
      /\ \A q \in Reqs \ {r} : ins'[q] = ins[q] /\ del'[q] = del[q]
      /\ ins'[r] = (ins[r] \ (found[r] \cap DB!View(r))) \cup new
      /\ del'[r] = del[r] \cup (found[r] \cap DB!View(r) \cap db)
  BY <1>2, ReplaceDoes
<1>4. \A row \in ins'[r] \cup del'[r] \cup fresh'[r] \cup found'[r] : KnownRow(row)
  BY <1>1, <1>2, <1>3, KnownHere
<1>5. ReqOK(r) /\ op[r].kind \in {"rename", "update", "merge"}
  BY <1>1 DEF Inv, ReqOK, OpOK
<1>6. OpOK(r)'
  BY <1>1, <1>5 DEF ReqOK, OpOK, EditKinds, Used
<1>7. EditOK(r)'
  <2>1. CASE op[r].kind = "merge"
    BY <1>1, <2>1, MergeEdit
  <2>2. CASE op[r].kind # "merge"
    <3>1. \A row \in ins'[r] \cup del'[r] : ~Graphic(row)
      BY <1>1, <1>2, <1>3, <1>5, <2>2 DEF ReqOK, EditOK, QuietOK, EditKinds
    <3>2. pc'[r] # "names" /\ ~(op[r].kind \in EditKinds /\ pc'[r] \in {"find", "replace", "commit"})
      BY <1>1, <1>5, <2>2 DEF EditKinds
    <3> QED
      BY <1>1, <3>1, <3>2 DEF EditOK, QuietOK, FreshOK, FoundOK, PutOK
  <2> QED
    BY <2>1, <2>2
<1>8. MergeOK(r)'
  <2> SUFFICES ASSUME op[r].kind = "merge" PROVE MergeOK(r)'
    BY <1>1, MergeEdit
  <2>1. /\ \A row \in del[r] \cup fresh[r] \cup found[r] : row.table # "post_tag"
        /\ op[r].tag # op[r].absorbed
        /\ "post_tag" \notin raced[r] =>
              \A p \in Posts : Usage(p, op[r].tag) \in ins[r] <=>
                 /\ Usage(p, op[r].absorbed) \in db
                 /\ Usage(p, op[r].tag) \notin db
    BY <1>1, <1>5 DEF ReqOK, MergeOK
  <2>2. \A p \in Posts : Usage(p, op[r].tag) \in ins'[r] <=> Usage(p, op[r].tag) \in ins[r]
    BY <1>2, <1>3, <2>1, Rows
  <2> QED
    BY <1>1, <1>2, <1>3, <2>1, <2>2 DEF MergeOK
<1> HIDE DEF label
<1> QED
  BY <1>1, <1>3, <1>4, <1>6, <1>7, <1>8, PhaseInv DEF Inv, Shapes, Bounds

-----------------------------------------------------------------------------
(* Ends.                                                                    *)

\* A request that has ended has nothing.
LEMMA Ended ==
    ASSUME Inv, NEW r \in Reqs, End(r), ins'[r] = {}, del'[r] = {}, found'[r] = {}
    PROVE  /\ ReqOK(r)' /\ Used' = Used
           /\ pc' \in [Reqs -> Labels] /\ DOMAIN op' = Reqs /\ DOMAIN fresh' = Reqs
           /\ graph' \in [Reqs -> Graphs']
           /\ \A q \in Reqs \ {r} : /\ pc'[q] = pc[q] /\ op'[q] = op[q] /\ fresh'[q] = fresh[q]
                                    /\ graph'[q] = graph[q]
<1>1. /\ pc \in [Reqs -> Labels] /\ DOMAIN op = Reqs /\ DOMAIN fresh = Reqs
      /\ graph \in [Reqs -> Graphs] /\ "idle" \in Labels
  BY DEF Inv, Bounds, Shapes, Labels
<1>2. pc'[r] = "idle" /\ op'[r].kind = "none" /\ fresh'[r] = {}
  BY <1>1 DEF End, Goto, NoOp
<1>3. ReqOK(r)'
  BY <1>2
     DEF ReqOK, KnownOK, Known, OpOK, GraphOK, EditOK, QuietOK, FreshOK, FoundOK, PutOK, MergeOK,
         EditKinds
<1>4. graph' = [graph EXCEPT ![r] = NoGraph] /\ NoGraph \in Graphs /\ Graphs' = Graphs
  BY DEF End, NoGraph, Graphs
<1>5. graph' \in [Reqs -> Graphs'] /\ \A q \in Reqs \ {r} : graph'[q] = graph[q]
  BY <1>1, <1>4
<1> QED
  BY <1>1, <1>3, <1>5 DEF End, Goto, Used

LEMMA AbortInv ==
    ASSUME Inv, NEW r \in Reqs, Abort(r)
    PROVE  Inv'
<1>1. /\ ins' = [ins EXCEPT ![r] = {}] /\ del' = [del EXCEPT ![r] = {}] /\ db' = db
      /\ found' = [found EXCEPT ![r] = {}] /\ raced' = [raced EXCEPT ![r] = {}]
      /\ End(r) /\ unchecked' = unchecked /\ UNCHANGED <<next, begun>>
  BY DEF Abort, DB!Rollback, DB!Forget, End
<1>2. /\ DOMAIN ins = Reqs /\ DOMAIN del = Reqs /\ DOMAIN found = Reqs
      /\ raced \in [Reqs -> SUBSET {"tag_implication", "post_tag"}]
  BY DEF Inv, Shapes, Bounds
<1>3. ins'[r] = {} /\ del'[r] = {} /\ found'[r] = {}
  BY <1>1, <1>2
<1>4. /\ ReqOK(r)' /\ Used' = Used
      /\ pc' \in [Reqs -> Labels] /\ DOMAIN op' = Reqs /\ DOMAIN fresh' = Reqs
      /\ graph' \in [Reqs -> Graphs']
      /\ \A q \in Reqs \ {r} : /\ pc'[q] = pc[q] /\ op'[q] = op[q] /\ fresh'[q] = fresh[q]
                               /\ graph'[q] = graph[q]
  BY <1>1, <1>3, Ended
<1>5. \A q \in Reqs \ {r} : Same(q)
  BY <1>1, <1>2, <1>4 DEF Same
<1>6. Bounds' /\ Shapes'
  BY <1>1, <1>2, <1>4 DEF Inv, Bounds, Shapes
<1> QED
  BY <1>1, <1>4, <1>5, <1>6, StatementInv

\* What a commit changes.
Touched(r) == ins[r] \cup del[r] \cup DB!Cascade(r, Gone(r))

LEMMA CommitDoes ==
    ASSUME Inv, NEW r \in Reqs, Commit(r)
    PROVE  /\ db' \subseteq DB!View(r) /\ \A row : row \notin Touched(r) => (row \in db' <=> row \in db)
           /\ Gone(r) = {} => db' = DB!View(r)
           /\ DOMAIN ins' = Reqs /\ DOMAIN del' = Reqs /\ DOMAIN found' = Reqs
           /\ ins'[r] = {} /\ del'[r] = {} /\ found'[r] = {}
           /\ \A q \in Reqs \ {r} : /\ ins'[q] = ins[q] /\ del'[q] = del[q]
                                    /\ found'[q] = found[q] \ Touched(r)
<1>1. DB!Publish(r, Gone(r)) /\ found' = [s \in Reqs |-> IF s = r THEN {} ELSE found[s] \ Touched(r)]
  BY DEF Commit, Touched
<1>2. DOMAIN ins = Reqs /\ DOMAIN del = Reqs
  BY DEF Inv, Shapes
<1>3. /\ db' = DB!View(r) \ DB!Cascade(r, Gone(r) \cap DB!View(r))
      /\ ins' = [ins EXCEPT ![r] = {}] /\ del' = [del EXCEPT ![r] = {}]
  BY <1>1 DEF DB!Publish, DB!Forget
<1>4. DB!Cascade(r, Gone(r) \cap DB!View(r)) \subseteq DB!Cascade(r, Gone(r))
  BY DEF DB!Cascade
<1>5. ASSUME NEW row, row \notin Touched(r) PROVE row \in db' <=> row \in db
  BY <1>3, <1>4, <1>5 DEF Touched, DB!View
<1>6. ASSUME Gone(r) = {} PROVE db' = DB!View(r)
  <2>1. DB!Cascade(r, {}) = {}
    BY DEF DB!Cascade
  <2> QED
    BY <1>3, <1>6, <2>1
<1> QED
  BY <1>1, <1>2, <1>3, <1>5, <1>6

\* A table another request has not been raced in is as it was.
LEMMA CommitTables ==
    ASSUME Inv, NEW r \in Reqs, Commit(r), NEW q \in Reqs, q # r, pc[q] # "idle",
           NEW table \in {"tag_implication", "post_tag"}, table \notin raced'[q]
    PROVE  /\ table \notin raced[q]
           /\ \A row : row.table = table => row \notin Touched(r) /\ (row \in db' <=> row \in db)
<1>1. raced'[q] = raced[q] \cup
         ({row.table : row \in Touched(r)} \cap {"tag_implication", "post_tag"})
  BY DEF Commit, Touched
<1>2. ASSUME NEW row, row.table = table PROVE row \notin Touched(r)
  BY <1>1, <1>2
<1> QED
  BY <1>1, <1>2, CommitDoes

LEMMA CommitBeside ==
    ASSUME Inv, NEW r \in Reqs, Commit(r), NEW q \in Reqs, q # r
    PROVE  ReqOK(q)'
<1>1. /\ ins'[q] = ins[q] /\ del'[q] = del[q] /\ found'[q] = found[q] \ Touched(r)
      /\ ins'[r] = {} /\ del'[r] = {} /\ found'[r] = {}
  BY CommitDoes
<1>2. /\ pc'[q] = pc[q] /\ op'[q] = op[q] /\ fresh'[q] = fresh[q] /\ graph'[q] = graph[q]
      /\ Used' = Used /\ ReqOK(q)
  BY <1>1, Ended DEF Commit, Inv
<1>3. KnownOK(q)'
  BY <1>1, <1>2 DEF ReqOK, KnownOK, Known, KnownRow
<1>4. OpOK(q)'
  BY <1>2 DEF ReqOK, OpOK
<1>5. QuietOK(q)' /\ PutOK(q)'
  BY <1>1, <1>2 DEF ReqOK, EditOK, QuietOK, PutOK
<1>6. FreshOK(q)'
  <2> SUFFICES ASSUME op[q].kind \in EditKinds, pc[q] \in {"find", "replace", "commit"}
               PROVE  FreshOK(q)'
    BY <1>2 DEF FreshOK
  <2>1. ASSUME "tag_implication" \notin raced'[q]
        PROVE  "tag_implication" \notin raced[q] /\ Edges(db)' = Edges(db)
    BY <2>1, CommitTables, Rows DEF Edges
  <2>2. New(q)' = New(q)
    BY <1>2 DEF New, Put
  <2> QED
    BY <1>2, <2>1, <2>2 DEF ReqOK, EditOK, FreshOK, Mine
<1>7. FoundOK(q)'
  <2> SUFFICES ASSUME op[q].kind \in EditKinds, Table(q) \notin raced'[q],
                      pc[q] \in {"replace", "commit"}
               PROVE  FoundOK(q)'
    BY <1>2 DEF FoundOK, Table
  <2>1. Table(q) \in {"tag_implication", "post_tag"} /\ \A row : Mine(q, row) => row.table = Table(q)
    BY DEF Table, Mine
  <2>2. /\ Table(q) \notin raced[q]
        /\ \A row : Mine(q, row) => row \notin Touched(r) /\ (row \in db' <=> row \in db)
    BY <2>1, CommitTables
  <2> QED
    BY <1>1, <1>2, <2>2 DEF ReqOK, EditOK, FoundOK, Mine, Table
<1>8. MergeOK(q)'
  <2> SUFFICES ASSUME op[q].kind = "merge" PROVE MergeOK(q)'
    BY <1>2 DEF MergeOK
  <2>1. MergeOK(q) /\ pc[q] # "idle"
    BY <1>2 DEF ReqOK, OpOK
  <2>2. ASSUME "post_tag" \notin raced'[q]
        PROVE  /\ "post_tag" \notin raced[q]
               /\ \A p, t : Usage(p, t) \in db' <=> Usage(p, t) \in db
    BY <2>1, <2>2, CommitTables, Rows
  <2> QED
    BY <1>1, <1>2, <2>1, <2>2 DEF MergeOK
<1>9. GraphOK(q)'
  <2> SUFFICES ASSUME pc[q] \in {"load", "missing", "make"} PROVE GraphOK(q)'
    BY <1>2 DEF GraphOK
  <2>1. ASSUME "tag_implication" \notin raced'[q]
        PROVE  "tag_implication" \notin raced[q] /\ Edges(db)' = Edges(db)
    BY <2>1, CommitTables, Rows DEF Edges
  <2> QED
    BY <1>2, <2>1 DEF ReqOK, GraphOK
<1> QED
  BY <1>3, <1>4, <1>5, <1>6, <1>7, <1>8, <1>9 DEF ReqOK, EditOK

\* What an edit that was not raced adds closes no cycle with what was checked before.
LEMMA CommitAcyclic ==
    ASSUME Inv, NEW r \in Reqs, Commit(r)
    PROVE  CheckedAcyclic'
<1> DEFINE old == Edges(db) \ unchecked
           new == Edges(db') \ unchecked'
<1>1. unchecked' = (unchecked \cap Edges(db')) \cup Unchecked(r) /\ pc[r] = "commit"
  BY DEF Commit
<1>2. Acyclic(old) /\ old \subseteq Edges(db) /\ Edges(db) \subseteq Tags \X Tags
  BY EdgeRows DEF Inv, CheckedAcyclic
<1>3. ASSUME NEW e \in new PROVE e \in old \/ (e \in Edges(ins[r]) /\ e \notin Unchecked(r))
  <2>1. e \in Edges(db) \/ e \in Edges(ins[r])
    BY CommitDoes DEF Edges, DB!View
  <2> QED
    BY <1>1, <2>1
<1>4. ASSUME Edges(ins[r]) \subseteq Unchecked(r) PROVE Acyclic(new)
  BY <1>2, <1>3, <1>4, SubgraphAcyclic
<1>5. ASSUME op[r].kind = "merge" \/ "tag_implication" \in raced[r] PROVE Acyclic(new)
  BY <1>4, <1>5 DEF Unchecked
<1>6. ASSUME op[r].kind \notin {"create", "update", "merge"} PROVE Acyclic(new)
  <2>1. ASSUME NEW row \in ins[r] PROVE row.table # "tag_implication"
    <3>1. CASE op[r].kind = "tag"
      BY <1>1, <2>1, <3>1 DEF Inv, ReqOK, EditOK, PutOK, FreshOK, Mine, EditKinds, Graphic
    <3>2. CASE op[r].kind # "tag"
      BY <1>1, <1>6, <2>1, <3>2 DEF Inv, ReqOK, EditOK, QuietOK, EditKinds, Graphic
    <3> QED
      BY <3>1, <3>2
  <2>2. Edges(ins[r]) = {}
    BY <2>1, Rows DEF Edges
  <2> QED
    BY <1>4, <2>2
<1>7. ASSUME op[r].kind \in {"create", "update"}, "tag_implication" \notin raced[r]
      PROVE  Acyclic(new)
  <2>1. PICK t \in Tags : t = op[r].tag
    BY <1>1, <1>7, UsedTags DEF Inv, Bounds, ReqOK, OpOK
  <2>2. PICK N \in SUBSET Tags : N = New(r)
    BY DEF New
  <2>3. /\ Closed(Edges(db), N) /\ Acyclic(From(Edges(db), N))
        /\ \A u \in Tags : Implies(u, u) \notin fresh[r]
        /\ \A row \in fresh[r] : Mine(r, row)
        /\ \A row \in ins[r] : Graphic(row) => row \in fresh[r]
    BY <1>1, <1>7, <2>2 DEF Inv, ReqOK, EditOK, FreshOK, PutOK, EditKinds
  <2>4. t \notin N
    BY <1>7, <2>1, <2>2, <2>3 DEF New, Put
  <2>5. ASSUME NEW e \in new PROVE e \in old \/ (e[1] = t /\ e[2] \in N)
    <3>1. CASE e \in Edges(ins[r])
      <4>1. /\ e[1] \in Tags /\ e[2] \in Tags /\ Implies(e[1], e[2]) \in ins[r]
            /\ Implies(e[1], e[2]).table = "tag_implication"
            /\ Implies(e[1], e[2]).parent = e[1]
        BY <3>1, Rows DEF Edges
      <4>2. Implies(e[1], e[2]) \in fresh[r] /\ e[1] = t
        BY <1>7, <2>1, <2>3, <4>1 DEF Graphic, Mine
      <4> QED
        BY <1>7, <2>1, <2>2, <4>1, <4>2 DEF New, Put
    <3> QED
      BY <1>3, <3>1
  <2>6. new \in SUBSET (Tags \X Tags)
    BY DEF Edges
  <2> HIDE DEF old, new
  <2> QED
    BY <1>2, <2>1, <2>2, <2>3, <2>4, <2>5, <2>6, NewEdgesAcyclic
<1>8. Acyclic(new)
  BY <1>5, <1>6, <1>7
<1> QED
  BY <1>8 DEF CheckedAcyclic, Acyclic, Edges

LEMMA CommitInv ==
    ASSUME Inv, NEW r \in Reqs, Commit(r)
    PROVE  Inv'
<1>1. /\ DOMAIN ins' = Reqs /\ DOMAIN del' = Reqs /\ DOMAIN found' = Reqs
      /\ ins'[r] = {} /\ del'[r] = {} /\ found'[r] = {} /\ db' \subseteq DB!View(r)
  BY CommitDoes
<1>2. /\ ReqOK(r)' /\ Used' = Used
      /\ pc' \in [Reqs -> Labels] /\ DOMAIN op' = Reqs /\ DOMAIN fresh' = Reqs
      /\ graph' \in [Reqs -> Graphs']
  BY <1>1, Ended DEF Commit
<1>3. ASSUME NEW q \in Reqs, q # r PROVE ReqOK(q)'
  BY <1>3, CommitBeside
<1>4. Known(db)'
  BY <1>1, <1>2, KnownHere DEF Known, KnownRow
<1>5. Bounds'
  <2>1. raced' \in [Reqs -> SUBSET {"tag_implication", "post_tag"}]
    <3>1. raced \in [Reqs -> SUBSET {"tag_implication", "post_tag"}]
      BY DEF Inv, Bounds
    <3> QED
      BY <3>1 DEF Commit
  <2>2. unchecked' \subseteq Tags \X Tags
    BY EdgeRows DEF Commit, Unchecked
  <2>3. UNCHANGED <<next, begun>>
    BY DEF Commit, End
  <2> QED
    BY <1>2, <2>1, <2>2, <2>3 DEF Inv, Bounds
<1> QED
  BY <1>1, <1>2, <1>3, <1>4, <1>5, CommitAcyclic DEF Inv, Shapes

-----------------------------------------------------------------------------
(* The invariant holds.                                                     *)

LEMMA StepInv == Inv /\ [Next]_vars => Inv'
<1> SUFFICES ASSUME Inv, [Next]_vars PROVE Inv'
  OBVIOUS
<1>1. CASE Next
  <2>1. PICK r \in Reqs :
           \/ \E names \in NameLists, implied \in NameSets : Create(r, names, implied)
           \/ \E t \in Tags :
                 \/ Delete(r, t)
                 \/ \E names \in NameLists : Rename(r, t, names)
                 \/ \E implied \in NameSets : Imply(r, t, implied)
                 \/ \E names \in NameLists, implied \in NameSets :
                       RenameAndImply(r, t, names, implied)
                 \/ \E to \in Tags : Merge(r, t, to)
           \/ \E p \in Posts, names \in NameSets : TagPost(r, p, names)
           \/ FindNamed(r) \/ LoadImplications(r) \/ FindMissing(r) \/ CreateMissing(r)
           \/ RedirectImplications(r) \/ FindOldRows(r) \/ ReplaceRows(r)
           \/ MergeUsages(r) \/ FindNames(r) \/ ReplaceNames(r) \/ Commit(r) \/ Abort(r)
    BY <1>1 DEF Next
  <2>2. CASE \E names \in NameLists, implied \in NameSets : Create(r, names, implied)
    BY <2>2, CreateInv
  <2> QED
    BY <2>1, <2>2, RequestsInv, FindNamedInv, LoadImplicationsInv, FindMissingInv,
       CreateMissingInv, RedirectInv, FindOldRowsInv, ReplaceRowsInv, MergeUsagesInv,
       FindNamesInv, ReplaceNamesInv, CommitInv, AbortInv
<1>2. CASE UNCHANGED vars
  <2>1. Used' = Used /\ db' = db /\ \A q \in Reqs : Same(q)
    BY <1>2 DEF vars, dbVars, Used, Same
  <2>2. \A q \in Reqs : ReqOK(q)'
    BY <2>1, Beside DEF Inv
  <2>3. Bounds' /\ Shapes'
    BY <1>2 DEF vars, dbVars, Inv, Bounds, Shapes, Graphs
  <2>4. Known(db)' /\ CheckedAcyclic'
    BY <1>2, <2>1 DEF vars, dbVars, Inv, Known, KnownRow, CheckedAcyclic, Edges
  <2> QED
    BY <2>2, <2>3, <2>4 DEF Inv
<1> QED
  BY <1>1, <1>2

LEMMA Invariance == Spec => []Inv
<1> QED
  BY InitInv, StepInv, PTL DEF Spec

\* Every variable keeps its type: in particular every row of a tag, of a transaction or
\* committed, is of an ID the sequence has given (api/tag.rs, update/tag.rs).
THEOREM TypeCorrect == Spec => []TypeOK
<1>1. Inv => TypeOK
  BY InvType
<1> QED
  BY <1>1, Invariance, PTL

\* The implications that has_cycle has seen (update/tag.rs) never form a cycle, however
\* many edits, merges and deletions interleave: only those a merge moved and those of an
\* edit that another commit raced can close one.
THEOREM NoCheckedCycle == Spec => []CheckedAcyclic
<1>1. Inv => CheckedAcyclic
  BY DEF Inv
<1> QED
  BY <1>1, Invariance, PTL

-----------------------------------------------------------------------------
(* What edits leave is complete.                                            *)

LEMMA CommitComplete ==
    ASSUME Inv, NEW r \in Reqs, Commit(r), op[r].kind \in EditKinds, raced[r] = {}
    PROVE  /\ op[r].kind # "tag" =>
                 Closed(Edges(db'), {t \in Tags : <<op[r].tag, t>> \in Edges(db')})
           /\ op[r].kind = "tag" =>
                 Closed(Edges(db'), {t \in Tags : Usage(op[r].post, t) \in db'})
<1>1. pc[r] = "commit" /\ db' = (db \ del[r]) \cup ins[r]
  <2>1. Gone(r) = {}
    BY DEF Gone, EditKinds
  <2> QED
    BY <2>1, CommitDoes DEF Commit, DB!View
<1>2. /\ Closed(Edges(db), New(r))
      /\ \A u \in Tags : Implies(u, u) \notin fresh[r]
      /\ \A row \in fresh[r] : Mine(r, row)
      /\ fresh[r] \subseteq ins[r]
      /\ \A row \in ins[r] : Graphic(row) => row \in fresh[r]
      /\ \A row \in db : Mine(r, row) => row \in del[r]
  BY <1>1 DEF Inv, ReqOK, EditOK, FreshOK, PutOK, FoundOK
<1>3. ASSUME NEW t \in Tags PROVE Put(r, t) \in db' <=> t \in New(r)
  <2>1. Mine(r, Put(r, t)) /\ Graphic(Put(r, t))
    BY PutRows
  <2> QED
    BY <1>1, <1>2, <2>1 DEF New
<1>4. ASSUME NEW e \in Edges(db'), op[r].kind = "tag" \/ e[1] # op[r].tag
      PROVE  e \in Edges(db)
  <2>1. /\ e \in Tags \X Tags /\ Implies(e[1], e[2]) \in db'
        /\ Implies(e[1], e[2]).table = "tag_implication" /\ Implies(e[1], e[2]).parent = e[1]
    BY Rows DEF Edges
  <2>2. Implies(e[1], e[2]) \notin fresh[r]
    BY <1>2, <1>4, <2>1 DEF Mine
  <2>3. Implies(e[1], e[2]) \in db
    BY <1>1, <1>2, <2>1, <2>2 DEF Graphic
  <2> QED
    BY <2>1, <2>3 DEF Edges
<1>5. CASE op[r].kind = "tag"
  <2>1. {t \in Tags : Usage(op[r].post, t) \in db'} = New(r)
    <3>1. \A t : Put(r, t) = Usage(op[r].post, t)
      BY <1>5 DEF Put
    <3> QED
      BY <1>3, <3>1 DEF New
  <2>2. Closed(Edges(db'), New(r))
    BY <1>2, <1>4, <1>5 DEF Closed
  <2> QED
    BY <1>5, <2>1, <2>2
<1>6. CASE op[r].kind # "tag"
  <2>0. op[r].tag \in Tags
    BY <1>6, UsedTags DEF Inv, Bounds, ReqOK, OpOK, EditKinds
  <2>1. {t \in Tags : <<op[r].tag, t>> \in Edges(db')} = New(r)
    <3>1. ASSUME NEW t \in Tags PROVE <<op[r].tag, t>> \in Edges(db') <=> Put(r, t) \in db'
      BY <1>6, <2>0 DEF Put, Edges
    <3> QED
      BY <1>3, <3>1 DEF New
  <2>2. op[r].tag \notin New(r)
    BY <1>2, <1>6, <2>0 DEF New, Put
  <2>3. Closed(Edges(db'), New(r))
    BY <1>2, <1>4, <2>2 DEF Closed
  <2> QED
    BY <1>6, <2>1, <2>3
<1> QED
  BY <1>5, <1>6

\* A step that changes what is committed is the commit of the request that ends.
LEMMA ChangedBy ==
    ASSUME Inv, [Next]_vars, db' # db, NEW r \in Reqs, pc'[r] # pc[r]
    PROVE  Commit(r)
<1>1. PICK s \in Reqs :
         \/ \E names \in NameLists, implied \in NameSets : Create(s, names, implied)
         \/ \E t \in Tags :
               \/ Delete(s, t)
               \/ \E names \in NameLists : Rename(s, t, names)
               \/ \E implied \in NameSets : Imply(s, t, implied)
               \/ \E names \in NameLists, implied \in NameSets :
                     RenameAndImply(s, t, names, implied)
               \/ \E to \in Tags : Merge(s, t, to)
         \/ \E p \in Posts, names \in NameSets : TagPost(s, p, names)
         \/ FindNamed(s) \/ LoadImplications(s) \/ FindMissing(s) \/ CreateMissing(s)
         \/ RedirectImplications(s) \/ FindOldRows(s) \/ ReplaceRows(s)
         \/ MergeUsages(s) \/ FindNames(s) \/ ReplaceNames(s) \/ Commit(s) \/ Abort(s)
  BY DEF Next, vars, dbVars
<1>2. Commit(s)
  BY <1>1 DEF Create, Delete, Rename, Imply, RenameAndImply, Merge, TagPost, FindNamed,
     LoadImplications, FindMissing, CreateMissing, RedirectImplications, FindOldRows, ReplaceRows, MergeUsages, FindNames, ReplaceNames, Abort,
     dbVars, DB!Insert, DB!Replace, DB!Rollback
<1>3. pc' = [pc EXCEPT ![s] = "idle"]
  BY <1>2 DEF Commit, End, Goto
<1> QED
  BY <1>2, <1>3 DEF Inv, Bounds

\* What set_implications and set_tags (update/tag.rs, update/post.rs) leave is complete when
\* it is committed: a tag implies all that its implications imply and a post has all that its
\* tags imply, unless another commit touched these tables after they were read.
THEOREM EditsLeaveClosed == Spec => EditsComplete
<1> DEFINE Complete ==
        \A r \in Reqs :
          pc[r] = "commit" /\ pc'[r] = "idle" /\ db' # db /\ raced[r] = {} =>
             LET E == Edges(db') IN
             CASE op[r].kind \in {"create", "update"} ->
                     Closed(E, {t \in Tags : <<op[r].tag, t>> \in E})
               [] op[r].kind = "tag" ->
                     Closed(E, {t \in Tags : Usage(op[r].post, t) \in db'})
               [] OTHER -> TRUE
<1>1. Inv /\ [Next]_vars => [Complete]_vars
  <2> SUFFICES ASSUME Inv, [Next]_vars, NEW r \in Reqs, pc[r] = "commit", pc'[r] = "idle",
                      db' # db, raced[r] = {}
               PROVE  LET E == Edges(db') IN
                      CASE op[r].kind \in {"create", "update"} ->
                              Closed(E, {t \in Tags : <<op[r].tag, t>> \in E})
                        [] op[r].kind = "tag" ->
                              Closed(E, {t \in Tags : Usage(op[r].post, t) \in db'})
                        [] OTHER -> TRUE
    OBVIOUS
  <2>1. Commit(r)
    BY ChangedBy
  <2>2. CASE op[r].kind \in {"create", "update"}
    BY <2>1, <2>2, CommitComplete DEF EditKinds
  <2>3. CASE op[r].kind = "tag"
    BY <2>1, <2>3, CommitComplete DEF EditKinds
  <2>4. CASE op[r].kind \notin {"create", "update", "tag"}
    BY <2>4
  <2> QED
    BY <2>2, <2>3, <2>4 DEF EditKinds
<1> QED
  BY <1>1, Invariance, PTL DEF Spec, EditsComplete

\* A merge leaves the other tag with the usages of both.
LEMMA CommitMerged ==
    ASSUME Inv, NEW r \in Reqs, Commit(r), op[r].kind = "merge", "post_tag" \notin raced[r]
    PROVE  UsedBy(db, op[r].absorbed) \cup UsedBy(db, op[r].tag) = UsedBy(db', op[r].tag)
<1>1. /\ op[r].tag # op[r].absorbed
      /\ \A row \in del[r] : row.table # "post_tag"
      /\ \A p \in Posts : Usage(p, op[r].tag) \in ins[r] <=>
            /\ Usage(p, op[r].absorbed) \in db
            /\ Usage(p, op[r].tag) \notin db
  BY DEF Commit, Inv, ReqOK, MergeOK
<1>2. db' = DB!View(r) \ DB!Cascade(r, Gone(r) \cap DB!View(r))
  BY DEF Commit, DB!Publish
<1>3. ASSUME NEW p \in Posts
      PROVE  Usage(p, op[r].tag) \notin DB!Cascade(r, Gone(r) \cap DB!View(r))
  <2>1. Gone(r) = {TagRow(op[r].absorbed)}
    BY DEF Gone
  <2>2. Parents(Usage(p, op[r].tag)) = {TagRow(op[r].tag)}
    BY DEF Parents, Usage
  <2>3. TagRow(op[r].tag) # TagRow(op[r].absorbed)
    BY <1>1, UsageRow
  <2>4. Usage(p, op[r].tag) # TagRow(op[r].absorbed)
    BY Rows
  <2> QED
    BY <2>1, <2>2, <2>3, <2>4 DEF DB!Cascade
<1>4. ASSUME NEW p \in Posts
      PROVE  Usage(p, op[r].tag) \in db' <=>
                Usage(p, op[r].absorbed) \in db \/ Usage(p, op[r].tag) \in db
  <2>1. Usage(p, op[r].tag) \notin del[r]
    BY <1>1, UsageRow
  <2>2. Usage(p, op[r].tag) \in db' <=> Usage(p, op[r].tag) \in DB!View(r)
    BY <1>2, <1>3
  <2> QED
    BY <1>1, <2>1, <2>2 DEF DB!View
<1> QED
  BY <1>4 DEF UsedBy

\* "Merges all usages ... from the source to the target tag" (api/tag.rs): no post loses the
\* absorbed tag without getting the other, whatever commits beside the merge, but for posts
\* whose tags another request changed after merge had read them.
THEOREM MergesKeepUsages == Spec => MergeKeepsUsages
<1> DEFINE Kept ==
        \A r \in Reqs :
          pc[r] = "commit" /\ pc'[r] = "idle" /\ op[r].kind = "merge" /\ db' # db
             /\ "post_tag" \notin raced[r] =>
             UsedBy(db, op[r].absorbed) \cup UsedBy(db, op[r].tag)
                = UsedBy(db', op[r].tag)
<1>1. Inv /\ [Next]_vars => [Kept]_vars
  BY ChangedBy, CommitMerged
<1> QED
  BY <1>1, Invariance, PTL DEF Spec, MergeKeepsUsages

-----------------------------------------------------------------------------
(* Names.                                                                   *)

\* What a request knows of names: the tags it has inserted have a primary one; what it has
\* deleted of them it replaces, or deletes with the tag; its other statements move no names.
NamesOK(r) ==
    /\ \A t : TagRow(t) \in ins[r] => \E n \in Names : NameRow(t, 0, n) \in ins[r]
    /\ pc[r] \in {"idle", "find names", "names"} \/ op[r].kind = "merge" =>
          \A row \in ins[r] : row.table # "tag"
    /\ \A row \in del[r] : row.table = "tag_name" =>
          \/ /\ op[r].kind \in {"rename", "update"} /\ row.tag = op[r].tag
             /\ \E n \in Names : NameRow(op[r].tag, 0, n) \in ins[r]
          \/ op[r].kind = "merge" /\ row.tag = op[r].absorbed
    /\ pc[r] \in {"find", "replace"} => \A row \in fresh[r] : Graphic(row)
    /\ pc[r] = "replace" => \A row \in found[r] : Graphic(row)
    /\ pc[r] = "names" =>
          /\ \A row \in fresh[r] \cup found[r] : row.table = "tag_name"
          /\ \A row \in found[r] :
                row.tag = IF op[r].kind = "merge" THEN op[r].absorbed ELSE op[r].tag
          /\ op[r].kind # "merge" => \E n \in Names : NameRow(op[r].tag, 0, n) \in fresh[r]
    /\ op[r].kind \in {"rename", "update"} /\ pc[r] = "find names" => op[r].names # <<>>

NamesInv == TagsHavePrimaryName /\ \A r \in Reqs : NamesOK(r)

LEMMA InitNames == Init => NamesInv
<1> SUFFICES ASSUME Init PROVE NamesInv
  OBVIOUS
<1>1. Possible(db)
  BY StartAssumption DEF Init
<1>2. TagsHavePrimaryName
  BY <1>1 DEF Possible, TagsHavePrimaryName
<1>3. ASSUME NEW r \in Reqs PROVE NamesOK(r)
  BY DEF Init, DB!NothingPending, NoOp, NamesOK, EditKinds
<1> QED
  BY <1>2, <1>3 DEF NamesInv

\* What is kept of another request: what it found may go.
LEMMA NamesBeside ==
    ASSUME NEW q \in Reqs, NamesOK(q), ins'[q] = ins[q], del'[q] = del[q], op'[q] = op[q],
           fresh'[q] = fresh[q], pc'[q] = pc[q], found'[q] \subseteq found[q]
    PROVE  NamesOK(q)'
<1>1. /\ pc[q] = "replace" => \A row \in found'[q] : Graphic(row)
      /\ pc[q] = "names" =>
            \A row \in found'[q] :
               /\ row.table = "tag_name"
               /\ row.tag = IF op[q].kind = "merge" THEN op[q].absorbed ELSE op[q].tag
  BY DEF NamesOK
<1> QED
  BY <1>1 DEF NamesOK

\* A step of a request that commits nothing.
LEMMA StatementNames ==
    ASSUME NamesInv, NEW r \in Reqs, db' = db, NamesOK(r)',
           \A q \in Reqs \ {r} :
              /\ ins'[q] = ins[q] /\ del'[q] = del[q] /\ op'[q] = op[q] /\ pc'[q] = pc[q]
              /\ fresh'[q] = fresh[q] /\ found'[q] \subseteq found[q]
    PROVE  NamesInv'
<1>1. ASSUME NEW q \in Reqs PROVE NamesOK(q)'
  <2>1. CASE q = r
    BY <2>1
  <2>2. CASE q # r
    BY <2>2, NamesBeside DEF NamesInv
  <2> QED
    BY <2>1, <2>2
<1> QED
  BY <1>1 DEF NamesInv, TagsHavePrimaryName

\* A statement that begins nothing and ends nothing.
LEMMA PhaseNames ==
    ASSUME Inv, NamesInv, NEW r \in Reqs, NEW label, Goto(r, label), db' = db, op' = op,
           \A q \in Reqs \ {r} :
              /\ ins'[q] = ins[q] /\ del'[q] = del[q]
              /\ fresh'[q] = fresh[q] /\ found'[q] = found[q],
           NamesOK(r)'
    PROVE  NamesInv'
<1>1. \A q \in Reqs \ {r} : pc'[q] = pc[q]
  BY DEF Goto, Inv, Bounds
<1> QED
  BY <1>1, StatementNames

\* A request begins; create inserts the tag with its names.
LEMMA BeginNames ==
    ASSUME Inv, NamesInv, NEW r \in Reqs, NEW label, NEW asked, Begin(r, label, asked),
           label \in {"close", "find names", "involved", "commit"},
           db' = db, \A q \in Reqs \ {r} : ins'[q] = ins[q] /\ del'[q] = del[q],
           NEW new, ins'[r] = ins[r] \cup new, del'[r] = del[r],
           \A t : TagRow(t) \in new => \E n \in Names : NameRow(t, 0, n) \in new,
           label = "find names" \/ asked.kind = "merge" => new = {},
           label = "find names" => asked.names # <<>>
    PROVE  NamesInv'
<1>1. /\ pc[r] = "idle" /\ pc'[r] = label /\ op'[r] = asked /\ fresh' = fresh /\ found' = found
      /\ \A q \in Reqs \ {r} : pc'[q] = pc[q] /\ op'[q] = op[q]
  BY DEF Begin, Goto, Inv, Bounds, Shapes
<1>2. NamesOK(r) /\ op[r].kind = "none"
  BY <1>1 DEF NamesInv, Inv, ReqOK, OpOK
<1>3. \A row \in ins[r] : row.table # "tag"
  BY <1>1, <1>2 DEF NamesOK
<1>4. \A row \in del[r] : row.table # "tag_name"
  BY <1>2 DEF NamesOK
<1>5. ASSUME NEW t, TagRow(t) \in ins'[r] PROVE \E n \in Names : NameRow(t, 0, n) \in ins'[r]
  <2>1. TagRow(t).table = "tag"
    BY Rows
  <2>2. TagRow(t) \in new
    BY <1>3, <1>5, <2>1
  <2> QED
    BY <2>2
<1>6. NamesOK(r)'
  BY <1>1, <1>3, <1>4, <1>5 DEF NamesOK
<1> QED
  BY <1>1, <1>6, StatementNames

\* A list of names begins with the primary one.
LEMMA PrimaryAdded ==
    ASSUME NEW t, NEW names \in Seq(Names), names # <<>>
    PROVE  \E n \in Names : NameRow(t, 0, n) \in Added(t, 0, names)
<1>1. 1 \in DOMAIN names /\ names[1] \in Names /\ 0 + 1 - 1 = 0
  OBVIOUS
<1>2. NameRow(t, 0 + 1 - 1, names[1]) \in Added(t, 0, names)
  BY <1>1 DEF Added
<1> QED
  BY <1>1, <1>2

LEMMA CreateNames ==
    ASSUME Inv, NamesInv, NEW r \in Reqs, NEW names \in NameLists, NEW implied \in NameSets,
           Create(r, names, implied)
    PROVE  NamesInv'
<1>0. PICK asked, new : /\ asked = [kind |-> "create", tag |-> next, implied |-> implied]
                        /\ new = {TagRow(next)} \cup Added(next, 0, names)
  OBVIOUS
<1>1. Begin(r, "close", asked) /\ DB!Insert(r, new)
  BY <1>0 DEF Create
<1>2. /\ db' = db /\ \A q \in Reqs \ {r} : ins'[q] = ins[q] /\ del'[q] = del[q]
      /\ ins'[r] = ins[r] \cup new /\ del'[r] = del[r]
  BY <1>1, InsertDoes
<1>3. ASSUME NEW t, TagRow(t) \in new PROVE \E n \in Names : NameRow(t, 0, n) \in new
  <2>1. \A row \in Added(next, 0, names) : row.table = "tag_name"
    BY Rows DEF Added
  <2>2. t = next
    BY <1>0, <1>3, <2>1, Rows
  <2>3. names \in Seq(Names) /\ names # <<>>
    BY NamesAssumption
  <2> QED
    BY <1>0, <2>2, <2>3, PrimaryAdded
<1>4. asked.kind = "create"
  BY <1>0
<1>5. \A t : TagRow(t) \in new => \E n \in Names : NameRow(t, 0, n) \in new
  BY <1>3
<1>6. PICK label : /\ label = "close" /\ label # "find names"
                   /\ label \in {"close", "find names", "involved", "commit"}
  OBVIOUS
<1>7. Begin(r, label, asked) /\ asked.kind # "merge"
  BY <1>1, <1>4, <1>6
<1> QED
  BY <1>2, <1>5, <1>6, <1>7, BeginNames

\* The others insert nothing when they begin.
LEMMA BeginPlainNames ==
    ASSUME Inv, NamesInv, NEW r \in Reqs, NEW label, NEW asked, Begin(r, label, asked),
           UNCHANGED dbVars, label \in {"close", "find names", "involved", "commit"},
           label = "find names" => asked.names # <<>>
    PROVE  NamesInv'
<1>1. PICK none : none = {}
  OBVIOUS
<1>2. /\ db' = db /\ ins' = ins /\ del' = del /\ ins'[r] = ins[r] \cup none
      /\ \A t : TagRow(t) \notin none
  BY <1>1 DEF dbVars
<1> QED
  BY <1>1, <1>2, BeginNames

LEMMA RequestsNames ==
    ASSUME Inv, NamesInv, NEW r \in Reqs,
           \/ \E t \in Tags :
                 \/ Delete(r, t)
                 \/ \E names \in NameLists : Rename(r, t, names)
                 \/ \E implied \in NameSets : Imply(r, t, implied)
                 \/ \E names \in NameLists, implied \in NameSets :
                       RenameAndImply(r, t, names, implied)
                 \/ \E to \in Tags : Merge(r, t, to)
           \/ \E p \in Posts, names \in NameSets : TagPost(r, p, names)
    PROVE  NamesInv'
<1>0. \A names \in NameLists : names # <<>>
  BY NamesAssumption
<1>1. ASSUME NEW t \in Tags, NEW names \in NameLists, Rename(r, t, names) PROVE NamesInv'
  <2> DEFINE asked == [kind |-> "rename", tag |-> t, names |-> names]
  <2>1. Begin(r, "find names", asked) /\ UNCHANGED dbVars
    BY <1>1 DEF Rename
  <2>2. asked.kind = "rename" /\ asked.names = names
    OBVIOUS
  <2> HIDE DEF asked
  <2> QED
    BY <1>0, <2>1, <2>2, BeginPlainNames
<1>2. ASSUME NEW t \in Tags, NEW implied \in NameSets, Imply(r, t, implied) PROVE NamesInv'
  <2> DEFINE asked == [kind |-> "update", tag |-> t, implied |-> implied]
  <2>1. Begin(r, "close", asked) /\ UNCHANGED dbVars
    BY <1>2 DEF Imply
  <2>2. asked.implied = implied
    OBVIOUS
  <2> HIDE DEF asked
  <2> QED
    BY <1>0, <2>1, <2>2, BeginPlainNames
<1>3. ASSUME NEW t \in Tags, NEW names \in NameLists, NEW implied \in NameSets,
             RenameAndImply(r, t, names, implied)
      PROVE  NamesInv'
  <2> DEFINE asked == [kind |-> "update", tag |-> t, names |-> names, implied |-> implied]
  <2>1. Begin(r, "find names", asked) /\ UNCHANGED dbVars
    BY <1>3 DEF RenameAndImply
  <2>2. asked.names = names /\ asked.implied = implied
    OBVIOUS
  <2> HIDE DEF asked
  <2> QED
    BY <1>0, <2>1, <2>2, BeginPlainNames
<1>4. ASSUME NEW p \in Posts, NEW implied \in NameSets, TagPost(r, p, implied) PROVE NamesInv'
  <2> DEFINE asked == [kind |-> "tag", post |-> p, implied |-> implied]
  <2>1. Begin(r, "close", asked) /\ UNCHANGED dbVars
    BY <1>4 DEF TagPost
  <2>2. asked.implied = implied
    OBVIOUS
  <2> HIDE DEF asked
  <2> QED
    BY <1>0, <2>1, <2>2, BeginPlainNames
<1>5. ASSUME NEW t \in Tags, NEW to \in Tags, Merge(r, t, to) PROVE NamesInv'
  <2> DEFINE asked == [kind |-> "merge", tag |-> to, absorbed |-> t]
  <2>1. Begin(r, "involved", asked) /\ UNCHANGED dbVars
    BY <1>5 DEF Merge
  <2>2. asked.kind = "merge"
    OBVIOUS
  <2> HIDE DEF asked
  <2> QED
    BY <1>0, <2>1, <2>2, BeginPlainNames
<1>6. ASSUME NEW t \in Tags, Delete(r, t) PROVE NamesInv'
  <2> DEFINE asked == [kind |-> "delete", tag |-> t]
  <2>1. Begin(r, "commit", asked) /\ UNCHANGED dbVars
    BY <1>6 DEF Delete
  <2>2. asked.kind = "delete"
    OBVIOUS
  <2> HIDE DEF asked
  <2> QED
    BY <1>0, <2>1, <2>2, BeginPlainNames
<1> QED
  BY <1>1, <1>2, <1>3, <1>4, <1>5, <1>6

\* get_or_create_tags moves no names before it inserts tags.
LEMMA FindNamedNames ==
    ASSUME Inv, NamesInv, NEW r \in Reqs, FindNamed(r)
    PROVE  NamesInv'
<1>1. /\ pc[r] = "close" /\ Goto(r, "load") /\ pc'[r] = "load"
      /\ UNCHANGED <<db, ins, del, op, fresh, found>>
  BY DEF FindNamed, Goto, dbVars, Inv, Bounds
<1>2. NamesOK(r)'
  BY <1>1 DEF NamesInv, NamesOK
<1> QED
  BY <1>1, <1>2, PhaseNames

LEMMA LoadImplicationsNames ==
    ASSUME Inv, NamesInv, NEW r \in Reqs, LoadImplications(r)
    PROVE  NamesInv'
<1>1. /\ pc[r] = "load" /\ (pc' = pc \/ Goto(r, "missing"))
      /\ UNCHANGED <<db, ins, del, op, fresh, found>>
  BY DEF LoadImplications, dbVars
<1>2. PICK label \in {"load", "missing"} : Goto(r, label) /\ pc'[r] = label
  BY <1>1 DEF Goto, Inv, Bounds
<1>3. NamesOK(r)'
  BY <1>1, <1>2 DEF NamesInv, NamesOK
<1> QED
  BY <1>1, <1>2, <1>3, PhaseNames

\* What it is about to insert are implications or usages.
LEMMA ReturnGraphic ==
    ASSUME Inv, NEW r \in Reqs, NEW tags, Return(r, tags)
    PROVE  /\ Goto(r, "find") /\ pc'[r] = "find"
           /\ \A row \in fresh'[r] : Graphic(row)
           /\ \A q \in Reqs \ {r} : fresh'[q] = fresh[q]
<1>1. Goto(r, "find") /\ fresh' = [fresh EXCEPT ![r] = {Put(r, t) : t \in tags}]
  <2>1. CASE op[r].kind = "tag"
    BY <2>1 DEF Return, Put
  <2>2. CASE op[r].kind # "tag"
    BY <2>2 DEF Return, Put
  <2> QED
    BY <2>1, <2>2
<1>2. /\ pc'[r] = "find" /\ fresh'[r] = {Put(r, t) : t \in tags}
      /\ \A q \in Reqs \ {r} : fresh'[q] = fresh[q]
  BY <1>1 DEF Goto, Inv, Bounds, Shapes
<1> QED
  BY <1>1, <1>2, PutRows

LEMMA FindMissingNames ==
    ASSUME Inv, NamesInv, NEW r \in Reqs, FindMissing(r)
    PROVE  NamesInv'
<1>1. /\ pc[r] = "missing" /\ UNCHANGED <<db, ins, del, op, found>>
      /\ Return(r, graph[r].nodes) \/ (Goto(r, "make") /\ UNCHANGED fresh)
  BY DEF FindMissing, dbVars
<1>2. CASE Return(r, graph[r].nodes)
  <2>1. /\ Goto(r, "find") /\ pc'[r] = "find"
        /\ \A row \in fresh'[r] : Graphic(row)
        /\ \A q \in Reqs \ {r} : fresh'[q] = fresh[q]
    BY <1>2, ReturnGraphic
  <2>2. NamesOK(r)'
    BY <1>1, <2>1 DEF NamesInv, NamesOK
  <2> QED
    BY <1>1, <2>1, <2>2, PhaseNames
<1>3. CASE Goto(r, "make") /\ UNCHANGED fresh
  <2>1. pc'[r] = "make"
    BY <1>3 DEF Goto, Inv, Bounds
  <2>2. NamesOK(r)'
    BY <1>1, <1>3, <2>1 DEF NamesInv, NamesOK
  <2> QED
    BY <1>1, <1>3, <2>2, PhaseNames
<1> QED
  BY <1>1, <1>2, <1>3

\* Tags that it inserts have the name they were asked by.
LEMMA CreateMissingNames ==
    ASSUME Inv, NamesInv, NEW r \in Reqs, CreateMissing(r)
    PROVE  NamesInv'
<1>1. PICK new \in SUBSET Tags :
         /\ Return(r, graph[r].nodes \cup new)
         /\ \E id \in [graph[r].missing -> new] :
               DB!Insert(r, UNION {{TagRow(id[n]), NameRow(id[n], 0, n)} :
                                      n \in graph[r].missing})
  BY CreateMissingDoes
<1>2. PICK missing : missing = graph[r].missing
  OBVIOUS
<1>3. PICK id \in [missing -> new] :
         DB!Insert(r, UNION {{TagRow(id[n]), NameRow(id[n], 0, n)} : n \in missing})
  BY <1>1, <1>2
<1>4. PICK inserted : inserted = UNION {{TagRow(id[n]), NameRow(id[n], 0, n)} : n \in missing}
  OBVIOUS
<1>5. /\ db' = db /\ \A q \in Reqs \ {r} : ins'[q] = ins[q] /\ del'[q] = del[q]
      /\ ins'[r] = ins[r] \cup inserted /\ del'[r] = del[r]
  BY <1>3, <1>4, InsertDoes
<1>6. pc[r] = "make" /\ op' = op /\ found' = found
  BY DEF CreateMissing
<1>7. /\ Goto(r, "find") /\ pc'[r] = "find"
      /\ \A row \in fresh'[r] : Graphic(row)
      /\ \A q \in Reqs \ {r} : fresh'[q] = fresh[q]
  BY <1>1, ReturnGraphic
<1>8. NamesOK(r) /\ op[r].kind \in EditKinds /\ missing \subseteq Names
  BY <1>2, CreateMissingDoes DEF NamesInv
<1>9. ASSUME NEW t, TagRow(t) \in inserted PROVE \E n \in Names : NameRow(t, 0, n) \in inserted
  <2>1. PICK n \in missing : TagRow(t) \in {TagRow(id[n]), NameRow(id[n], 0, n)}
    BY <1>4, <1>9
  <2>2. t = id[n]
    BY <2>1, Rows
  <2> QED
    BY <1>4, <1>8, <2>2
<1>10. \A t : TagRow(t) \in ins'[r] => \E n \in Names : NameRow(t, 0, n) \in ins'[r]
  BY <1>5, <1>8, <1>9 DEF NamesOK
<1>11. NamesOK(r)'
  <2>1. op[r].kind # "merge"
    BY <1>8 DEF EditKinds
  <2>2. \A row \in del[r] : row.table = "tag_name" =>
           /\ op[r].kind \in {"rename", "update"} /\ row.tag = op[r].tag
           /\ \E n \in Names : NameRow(op[r].tag, 0, n) \in ins'[r]
    BY <1>5, <1>8, <2>1 DEF NamesOK
  <2> QED
    BY <1>5, <1>6, <1>7, <1>10, <2>1, <2>2 DEF NamesOK
<1> QED
  BY <1>5, <1>6, <1>7, <1>11, PhaseNames

\* What a statement neither inserts nor finds stays.
LEMMA RedirectNames ==
    ASSUME Inv, NamesInv, NEW r \in Reqs, RedirectImplications(r)
    PROVE  NamesInv'
<1> DEFINE both     == {op[r].tag, op[r].absorbed}
           involved == {e \in Edges(DB!View(r)) : {e[1], e[2]} \cap both # {}}
           moved    == {Redirect(op[r].absorbed, op[r].tag, e) : e \in involved}
<1>1. /\ pc[r] = "involved" /\ Goto(r, "find") /\ pc'[r] = "find"
      /\ fresh' = [fresh EXCEPT ![r] = {row \in moved : row.parent # row.child}]
      /\ UNCHANGED <<db, ins, del, op, found>>
  BY DEF RedirectImplications, dbVars, Goto, Inv, Bounds
<1>2. \A row \in moved : Graphic(row)
  BY Rows DEF Redirect, Graphic
<1> HIDE DEF moved
<1>3. DOMAIN fresh = Reqs /\ NamesOK(r) /\ op[r].kind = "merge"
  BY <1>1 DEF Inv, Shapes, ReqOK, OpOK, NamesInv
<1>4. \A row \in fresh'[r] : Graphic(row)
  BY <1>1, <1>2, <1>3
<1>5. NamesOK(r)'
  BY <1>1, <1>3, <1>4 DEF NamesOK
<1> QED
  BY <1>1, <1>3, <1>5, PhaseNames

LEMMA FindOldRowsNames ==
    ASSUME Inv, NamesInv, NEW r \in Reqs, FindOldRows(r)
    PROVE  NamesInv'
<1>1. /\ pc[r] = "find" /\ Goto(r, "replace") /\ pc'[r] = "replace"
      /\ found' = [found EXCEPT ![r] = OldRows(r)]
      /\ UNCHANGED <<db, ins, del, op, fresh>>
  BY DEF FindOldRows, dbVars, Goto, Inv, Bounds
<1>2. \A row \in OldRows(r) : Graphic(row)
  BY DEF OldRows, Graphic
<1>3. DOMAIN found = Reqs /\ NamesOK(r)
  BY DEF Inv, Shapes, NamesInv
<1>4. NamesOK(r)'
  BY <1>1, <1>2, <1>3 DEF NamesOK
<1> QED
  BY <1>1, <1>3, <1>4, PhaseNames

LEMMA ReplaceRowsNames ==
    ASSUME Inv, NamesInv, NEW r \in Reqs, ReplaceRows(r)
    PROVE  NamesInv'
<1>1. PICK label \in {"usages", "commit"} : Goto(r, label) /\ pc'[r] = label
  BY DEF ReplaceRows, Goto, Inv, Bounds
<1>2. /\ pc[r] = "replace" /\ DB!Replace(r, found[r], fresh[r])
      /\ UNCHANGED <<op, fresh, found>>
  BY DEF ReplaceRows
<1>3. /\ db' = db
      /\ \A q \in Reqs \ {r} : ins'[q] = ins[q] /\ del'[q] = del[q]
      /\ ins'[r] = (ins[r] \ (found[r] \cap DB!View(r))) \cup fresh[r]
      /\ del'[r] = del[r] \cup (found[r] \cap DB!View(r) \cap db)
  BY <1>2, ReplaceDoes
<1>4. NamesOK(r)
  BY DEF NamesInv
<1>5. \A row \in fresh[r] \cup found[r] : Graphic(row)
  BY <1>2, <1>4 DEF NamesOK
<1>6. \A row : ~Graphic(row) =>
         (row \in ins'[r] <=> row \in ins[r]) /\ (row \in del'[r] <=> row \in del[r])
  BY <1>3, <1>5
<1>7. \A t, n : /\ ~Graphic(TagRow(t)) /\ ~Graphic(NameRow(t, 0, n))
                /\ TagRow(t).table = "tag"
  BY Rows DEF Graphic
<1>8. \A row : row.table \in {"tag", "tag_name"} => ~Graphic(row)
  BY DEF Graphic
<1>9. /\ \A t : TagRow(t) \in ins'[r] => \E n \in Names : NameRow(t, 0, n) \in ins'[r]
      /\ op[r].kind = "merge" => \A row \in ins'[r] : row.table # "tag"
  <2>1. ASSUME NEW t, TagRow(t) \in ins'[r] PROVE \E n \in Names : NameRow(t, 0, n) \in ins'[r]
    <3>1. TagRow(t) \in ins[r]
      BY <1>6, <1>7, <2>1
    <3>2. PICK n \in Names : NameRow(t, 0, n) \in ins[r]
      BY <1>4, <3>1 DEF NamesOK
    <3> QED
      BY <1>6, <1>7, <3>2
  <2>2. ASSUME op[r].kind = "merge", NEW row \in ins'[r] PROVE row.table # "tag"
    BY <1>4, <1>6, <1>8, <2>2 DEF NamesOK
  <2> QED
    BY <2>1, <2>2
<1>10. ASSUME NEW row \in del'[r], row.table = "tag_name"
       PROVE  \/ /\ op[r].kind \in {"rename", "update"} /\ row.tag = op[r].tag
                 /\ \E n \in Names : NameRow(op[r].tag, 0, n) \in ins'[r]
              \/ op[r].kind = "merge" /\ row.tag = op[r].absorbed
  <2>1. row \in del[r]
    BY <1>6, <1>8, <1>10
  <2> QED
    BY <1>4, <1>6, <1>7, <1>10, <2>1 DEF NamesOK
<1>11. NamesOK(r)'
  BY <1>1, <1>2, <1>4, <1>9, <1>10 DEF NamesOK
<1> QED
  BY <1>1, <1>2, <1>3, <1>11, PhaseNames

LEMMA MergeUsagesNames ==
    ASSUME Inv, NamesInv, NEW r \in Reqs, MergeUsages(r)
    PROVE  NamesInv'
<1>1. PICK posts : posts = UsedBy(DB!View(r), op[r].absorbed) \ UsedBy(DB!View(r), op[r].tag)
  OBVIOUS
<1>2. /\ pc[r] = "usages" /\ Goto(r, "find names") /\ pc'[r] = "find names"
      /\ DB!Insert(r, {Usage(p, op[r].tag) : p \in posts})
      /\ UNCHANGED <<op, fresh, found>>
  BY <1>1 DEF MergeUsages, Goto, Inv, Bounds
<1>3. /\ db' = db /\ \A q \in Reqs \ {r} : ins'[q] = ins[q] /\ del'[q] = del[q]
      /\ ins'[r] = ins[r] \cup {Usage(p, op[r].tag) : p \in posts} /\ del'[r] = del[r]
  BY <1>2, InsertDoes
<1>4. NamesOK(r) /\ op[r].kind = "merge"
  BY <1>2 DEF Inv, ReqOK, OpOK, NamesInv
<1>5. \A row \in ins'[r] : row.table # "tag"
  <2>1. \A row \in ins[r] : row.table # "tag"
    BY <1>4 DEF NamesOK
  <2>2. \A p : Usage(p, op[r].tag).table # "tag"
    BY Rows
  <2> QED
    BY <1>3, <2>1, <2>2
<1>6. NamesOK(r)'
  BY <1>2, <1>3, <1>4, <1>5, Rows DEF NamesOK, EditKinds
<1> QED
  BY <1>2, <1>3, <1>6, PhaseNames

LEMMA FindNamesNames ==
    ASSUME Inv, NamesInv, NEW r \in Reqs, FindNames(r)
    PROVE  NamesInv'
<1>0. /\ DOMAIN found = Reqs /\ DOMAIN fresh = Reqs /\ NamesOK(r)
      /\ pc[r] = "find names" /\ op[r].kind \in {"rename", "update", "merge"}
      /\ op[r].kind # "merge" => op[r].names \in Seq(Names)
  BY DEF FindNames, Inv, Shapes, NamesInv, ReqOK, OpOK
<1>1. PICK t : t = IF op[r].kind = "merge" THEN op[r].absorbed ELSE op[r].tag
  OBVIOUS
<1>2. PICK gone : gone = TagNames(DB!View(r), t)
  OBVIOUS
<1>3. /\ Goto(r, "names") /\ pc'[r] = "names"
      /\ found' = [found EXCEPT ![r] = gone]
      /\ UNCHANGED <<db, ins, del, op>>
  BY <1>1, <1>2 DEF FindNames, Goto, dbVars, Inv, Bounds
<1>4. PICK names, from :
         /\ fresh' = [fresh EXCEPT ![r] = Added(op[r].tag, from, names)]
         /\ op[r].kind # "merge" => from = 0 /\ names = op[r].names
  BY DEF FindNames
<1>5. \A row \in gone : row.table = "tag_name" /\ row.tag = t
  BY <1>2, Rows DEF TagNames
<1>6. fresh'[r] = Added(op[r].tag, from, names) /\ found'[r] = gone
  BY <1>0, <1>3, <1>4
<1>7. \A row \in fresh'[r] : row.table = "tag_name"
  BY <1>6, Rows DEF Added
<1>8. op[r].kind # "merge" => \E n \in Names : NameRow(op[r].tag, 0, n) \in fresh'[r]
  <2> SUFFICES ASSUME op[r].kind # "merge"
               PROVE  \E n \in Names : NameRow(op[r].tag, 0, n) \in fresh'[r]
    OBVIOUS
  <2>1. op[r].names \in Seq(Names) /\ op[r].names # <<>>
    BY <1>0 DEF NamesOK
  <2> QED
    BY <1>4, <1>6, <2>1, PrimaryAdded
<1>9. NamesOK(r)'
  BY <1>0, <1>1, <1>3, <1>5, <1>6, <1>7, <1>8 DEF NamesOK
<1> QED
  BY <1>0, <1>3, <1>4, <1>9, PhaseNames

\* A rename replaces the names it deletes; a merge deletes those of the absorbed tag.
LEMMA ReplaceNamesNames ==
    ASSUME Inv, NamesInv, NEW r \in Reqs, ReplaceNames(r)
    PROVE  NamesInv'
<1>1. PICK label \in {"close", "commit"} : Goto(r, label) /\ pc'[r] = label
  BY DEF ReplaceNames, Goto, Inv, Bounds
<1>2. pc[r] = "names" /\ UNCHANGED <<op, fresh, found>>
  BY DEF ReplaceNames
<1>3. PICK new : /\ new \subseteq fresh[r] /\ DB!Replace(r, found[r], new)
                 /\ op[r].kind # "merge" => new = fresh[r]
  BY DEF ReplaceNames
<1>4. /\ db' = db
      /\ \A q \in Reqs \ {r} : ins'[q] = ins[q] /\ del'[q] = del[q]
      /\ ins'[r] = (ins[r] \ (found[r] \cap DB!View(r))) \cup new
      /\ del'[r] = del[r] \cup (found[r] \cap DB!View(r) \cap db)
  BY <1>3, ReplaceDoes
<1>5. NamesOK(r) /\ op[r].kind \in {"rename", "update", "merge"}
  BY <1>2 DEF NamesInv, Inv, ReqOK, OpOK
<1>6. /\ \A row \in ins[r] \cup new : row.table # "tag"
      /\ \A row \in found[r] :
            row.tag = IF op[r].kind = "merge" THEN op[r].absorbed ELSE op[r].tag
      /\ op[r].kind # "merge" => \E n \in Names : NameRow(op[r].tag, 0, n) \in new
  BY <1>2, <1>3, <1>5 DEF NamesOK
<1>7. \A row \in ins'[r] : row.table # "tag"
  BY <1>4, <1>6
<1>8. ASSUME NEW row \in del'[r], row.table = "tag_name"
      PROVE  \/ /\ op[r].kind \in {"rename", "update"} /\ row.tag = op[r].tag
                /\ \E n \in Names : NameRow(op[r].tag, 0, n) \in ins'[r]
             \/ op[r].kind = "merge" /\ row.tag = op[r].absorbed
  <2>1. row.tag = IF op[r].kind = "merge" THEN op[r].absorbed ELSE op[r].tag
    BY <1>4, <1>5, <1>6, <1>8 DEF NamesOK
  <2> QED
    BY <1>4, <1>5, <1>6, <2>1
<1>9. NamesOK(r)'
  BY <1>1, <1>2, <1>5, <1>7, <1>8, Rows DEF NamesOK
<1> QED
  BY <1>1, <1>2, <1>4, <1>9, PhaseNames

\* A request that has ended has no names.
LEMMA EndedNames ==
    ASSUME Inv, NEW r \in Reqs, End(r), ins'[r] = {}, del'[r] = {}, found'[r] = {}
    PROVE  NamesOK(r)'
<1>1. pc'[r] = "idle" /\ op'[r].kind = "none" /\ fresh'[r] = {}
  BY DEF End, Goto, NoOp, Inv, Bounds, Shapes
<1> QED
  BY <1>1 DEF NamesOK, EditKinds

LEMMA AbortNames ==
    ASSUME Inv, NamesInv, NEW r \in Reqs, Abort(r)
    PROVE  NamesInv'
<1>1. /\ ins' = [ins EXCEPT ![r] = {}] /\ del' = [del EXCEPT ![r] = {}] /\ db' = db
      /\ found' = [found EXCEPT ![r] = {}] /\ End(r)
  BY DEF Abort, DB!Rollback, DB!Forget
<1>2. DOMAIN ins = Reqs /\ DOMAIN del = Reqs /\ DOMAIN found = Reqs
  BY DEF Inv, Shapes
<1>3. ins'[r] = {} /\ del'[r] = {} /\ found'[r] = {}
  BY <1>1, <1>2
<1>4. \A q \in Reqs \ {r} :
         /\ ins'[q] = ins[q] /\ del'[q] = del[q] /\ found'[q] = found[q]
         /\ pc'[q] = pc[q] /\ op'[q] = op[q] /\ fresh'[q] = fresh[q]
  BY <1>1, <1>2, <1>3, Ended
<1> QED
  BY <1>1, <1>3, <1>4, EndedNames, StatementNames

\* A commit leaves every tag a primary name: it deletes names with their tag, or the request
\* that replaces them has put a primary one there.
LEMMA CommitPrimary ==
    ASSUME Inv, NamesInv, NEW r \in Reqs, Commit(r)
    PROVE  TagsHavePrimaryName'
<1> SUFFICES ASSUME NEW t \in Tags, TagRow(t) \in db'
             PROVE  \E n \in Names : NameRow(t, 0, n) \in db'
  BY DEF TagsHavePrimaryName
<1> DEFINE gone == DB!Cascade(r, Gone(r) \cap DB!View(r))
<1>1. pc[r] = "commit" /\ db' = DB!View(r) \ gone /\ NamesOK(r)
  BY DEF Commit, DB!Publish, NamesInv
<1>2. TagRow(t) \in DB!View(r) /\ TagRow(t) \notin Gone(r)
  BY <1>1 DEF DB!Cascade
<1>3. ASSUME NEW n, NameRow(t, 0, n) \in DB!View(r) PROVE NameRow(t, 0, n) \in db'
  <2>1. Parents(NameRow(t, 0, n)) = {TagRow(t)}
    BY DEF Parents, NameRow
  <2>2. NameRow(t, 0, n) \notin Gone(r)
    BY Rows DEF Gone
  <2> QED
    BY <1>1, <1>2, <1>3, <2>1, <2>2 DEF DB!Cascade
<1> HIDE DEF gone
<1>4. CASE TagRow(t) \in ins[r]
  <2>1. PICK n \in Names : NameRow(t, 0, n) \in ins[r]
    BY <1>1, <1>4 DEF NamesOK
  <2> QED
    BY <1>3, <2>1 DEF DB!View
<1>5. CASE TagRow(t) \in db
  <2>1. PICK n \in Names : NameRow(t, 0, n) \in db
    BY <1>5 DEF NamesInv, TagsHavePrimaryName
  <2>2. CASE NameRow(t, 0, n) \in del[r]
    <3>1. op[r].kind = "merge" => t # op[r].absorbed
      BY <1>2 DEF Gone
    <3>2. NameRow(t, 0, n).table = "tag_name" /\ NameRow(t, 0, n).tag = t
      BY Rows
    <3>3. \E m \in Names : NameRow(t, 0, m) \in ins[r]
      BY <1>1, <2>2, <3>1, <3>2 DEF NamesOK
    <3> QED
      BY <1>3, <3>3 DEF DB!View
  <2>3. CASE NameRow(t, 0, n) \notin del[r]
    BY <1>3, <2>1, <2>3 DEF DB!View
  <2> QED
    BY <2>2, <2>3
<1> QED
  BY <1>2, <1>4, <1>5 DEF DB!View

LEMMA CommitNames ==
    ASSUME Inv, NamesInv, NEW r \in Reqs, Commit(r)
    PROVE  NamesInv'
<1>1. /\ ins'[r] = {} /\ del'[r] = {} /\ found'[r] = {} /\ End(r)
      /\ \A q \in Reqs \ {r} :
            ins'[q] = ins[q] /\ del'[q] = del[q] /\ found'[q] \subseteq found[q]
  BY CommitDoes DEF Commit
<1>2. \A q \in Reqs \ {r} : pc'[q] = pc[q] /\ op'[q] = op[q] /\ fresh'[q] = fresh[q]
  BY <1>1, Ended
<1>3. ASSUME NEW q \in Reqs PROVE NamesOK(q)'
  <2>1. CASE q = r
    BY <1>1, <2>1, EndedNames
  <2>2. CASE q # r
    BY <1>1, <1>2, <2>2, NamesBeside DEF NamesInv
  <2> QED
    BY <2>1, <2>2
<1> QED
  BY <1>3, CommitPrimary DEF NamesInv

LEMMA StepNames == Inv /\ NamesInv /\ [Next]_vars => NamesInv'
<1> SUFFICES ASSUME Inv, NamesInv, [Next]_vars PROVE NamesInv'
  OBVIOUS
<1>1. CASE Next
  <2>1. PICK r \in Reqs :
           \/ \E names \in NameLists, implied \in NameSets : Create(r, names, implied)
           \/ \E t \in Tags :
                 \/ Delete(r, t)
                 \/ \E names \in NameLists : Rename(r, t, names)
                 \/ \E implied \in NameSets : Imply(r, t, implied)
                 \/ \E names \in NameLists, implied \in NameSets :
                       RenameAndImply(r, t, names, implied)
                 \/ \E to \in Tags : Merge(r, t, to)
           \/ \E p \in Posts, names \in NameSets : TagPost(r, p, names)
           \/ FindNamed(r) \/ LoadImplications(r) \/ FindMissing(r) \/ CreateMissing(r)
           \/ RedirectImplications(r) \/ FindOldRows(r) \/ ReplaceRows(r)
           \/ MergeUsages(r) \/ FindNames(r) \/ ReplaceNames(r) \/ Commit(r) \/ Abort(r)
    BY <1>1 DEF Next
  <2>2. CASE \E names \in NameLists, implied \in NameSets : Create(r, names, implied)
    BY <2>2, CreateNames
  <2> QED
    BY <2>1, <2>2, RequestsNames, FindNamedNames, LoadImplicationsNames, FindMissingNames,
       CreateMissingNames, RedirectNames, FindOldRowsNames, ReplaceRowsNames, MergeUsagesNames, FindNamesNames, ReplaceNamesNames, CommitNames,
       AbortNames
<1>2. CASE UNCHANGED vars
  BY <1>2 DEF vars, dbVars, NamesInv, NamesOK, TagsHavePrimaryName
<1> QED
  BY <1>1, <1>2

\* Whatever renames (set_names), merges and deletions of tags interleave statement by
\* statement, every committed tag keeps a primary name, by which the API addresses it; no
\* constraint of the schema says so (update/tag.rs, api/tag.rs).
THEOREM TagsKeepPrimaryName == Spec => []TagsHavePrimaryName
<1>1. NamesInv => TagsHavePrimaryName
  BY DEF NamesInv
<1> QED
  BY <1>1, InitNames, StepNames, Invariance, PTL DEF Spec
=============================================================================
