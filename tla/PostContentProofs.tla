------------------------- MODULE PostContentProofs -------------------------
(* Theorems about PostContent, for any posts, requests, uploads and operations, *)
(* alone and with the orphan cleaner beside it.                                 *)
EXTENDS OrphanFiles, TLAPS

-----------------------------------------------------------------------------
(* The inductive invariant: TypeOK, what is true of each request, and what   *)
(* relates the requests.  A request is entitled to what it has read of a row *)
(* until it is marked stale, and to the files it has changed until the post  *)
(* is torn.                                                                  *)

Merging    == {"merge", "replace"}
Conversion == {"convert", "task"}

\* Where the requests of each operation can be.
LabelsOf == [none    |-> {"idle"},
             create  |-> {"insert", "fill", "commit"},
             edit    |-> {"save", "commit"},
             update  |-> {"signature", "unlink", "fill", "save", "commit"},
             convert |-> {"decode", "encode", "row", "unlink", "commit"},
             task    |-> {"decode", "encode", "row", "sweep"},
             delete  |-> {"row", "commit", "purge"},
             merge   |-> {"target", "describe", "absorb", "purge", "commit"},
             replace |-> {"target", "describe", "absorb", "swap1", "swap2", "swap3",
                          "meta", "purge", "commit"}]

\* A request knows the posts, the upload and the picture its next steps need.
JobKnown(r) ==
    /\ pc[r] \in LabelsOf[Op(r)]
    /\ Op(r) \in {"create", "update"} => job[r].token \in Tokens
    /\ Op(r) = "create" => (pc[r] = "insert" <=> Post(r) = Unset)
    /\ Op(r) \notin {"none", "create"} => Post(r) \in Posts
    /\ Op(r) \in Merging => From(r) \in Posts /\ From(r) # Post(r)
    /\ Op(r) \in Conversion => seen[r][Post(r)].mime # Jxl
    /\ Op(r) \in Conversion /\ pc[r] # "decode" => held[r] \in Pics
    /\ pc[r] = "purge" => DeleteSourceFiles

\* The posts a request has read, and those it has changed the files of.
HasRead(r, p) ==
    \/ Op(r) \notin {"none", "create"} /\ p = Post(r) /\ pc[r] # "target"
    \/ Op(r) \in Merging /\ p = From(r)

HasChanged(r, p) ==
    \/ p = Post(r) /\
          \/ Op(r) = "create" /\ pc[r] = "commit"
          \/ Op(r) = "update" /\ pc[r] \in {"fill", "save", "commit"}
          \/ Op(r) \in Conversion /\ pc[r] \notin {"decode", "encode"}
    \/ p = From(r) /\ Op(r) = "merge" /\ pc[r] = "commit" /\ DeleteSourceFiles
    \/ /\ p \in {Post(r), From(r)} /\ Op(r) = "replace"
       /\ pc[r] \in {"swap2", "swap3", "meta", "purge", "commit"}

Progress(r) ==
    \A p \in Posts : /\ seen[r][p] # Unset <=> HasRead(r, p)
                     /\ p \in dirty[r] <=> HasChanged(r, p)

\* A row is as a request read it, unless the request is marked stale or has itself
\* committed a change of it.
Fresh(r) ==
    \A p \in Posts \ stale[r] :
        seen[r][p] # Unset =>
            /\ pc[r] = "sweep" => row[p] = Converted(r)
            /\ \/ pc[r] = "sweep"
               \/ Op(r) = "delete" /\ pc[r] = "purge"
               \/ row[p] = seen[r][p]

\* A post being created is known to its creator alone, and its file stays in place.
Creating(r) == Op(r) = "create" /\ Post(r) # Unset

Pending(r) ==
    Creating(r) =>
        /\ row[Post(r)] = NoRow
        /\ stage[r][Post(r)] = Upload(r)
        /\ \A q \in Reqs \ {r} :
              seen[q][Post(r)] = Unset /\ (Op(q) = "create" => Post(q) # Post(r))
        /\ pc[r] = "commit" /\ Post(r) \notin torn =>
              file[Post(r)][Upload(r).mime] = Upload(r).pic

\* A request writes rows it has read, and what it writes without changing the
\* files is what it has read.
Written(r) ==
    \A p \in Posts :
        stage[r][p] # Unset =>
            \/ Op(r) = "create" /\ p = Post(r)
            \/ /\ seen[r][p] # Unset
               /\ \/ stage[r][p] = NoRow \/ p \in dirty[r] \/ p \in stale[r]
                  \/ stage[r][p] = seen[r][p]

\* A row to be deleted is deleted, or somebody else was first.
Gone(r, p) == p \in torn \/ stage[r][p] = NoRow \/ row[p] = NoRow

Deleted(r) ==
    /\ Op(r) = "delete" /\ pc[r] = "commit" => Gone(r, Post(r))
    /\ Op(r) = "delete" /\ pc[r] = "purge" => Post(r) \in torn \/ row[Post(r)] = NoRow
    /\ Op(r) \in Merging /\ pc[r] \notin {"target", "describe", "absorb"} => Gone(r, From(r))

\* What the files of the post a request is changing hold on the way.
ReplacesContent(r) ==
    Op(r) = "update" /\ pc[r] \in {"save", "commit"} =>
        /\ file[Post(r)][Upload(r).mime] = Upload(r).pic
        /\ pc[r] = "commit" => stage[r][Post(r)] = Upload(r)

Converts(r) ==
    Op(r) \in Conversion /\ pc[r] \notin {"decode", "encode"} =>
        /\ file[Post(r)][Jxl] = held[r]
        /\ pc[r] = "row" /\ Post(r) \notin stale[r] => Served(Post(r))
        /\ pc[r] = "unlink" /\ Post(r) \notin stale[r] => stage[r][Post(r)] = Converted(r)
        /\ pc[r] = "commit" => stage[r][Post(r)] = Converted(r)

Swaps(r) ==
    LET p == Post(r)  new == seen[r][From(r)]
    IN  Op(r) = "replace" =>
            /\ pc[r] = "swap2" => IF seen[r][p].mime = new.mime THEN held[r] = new.pic
                                  ELSE file[p][new.mime] = new.pic
            /\ pc[r] = "swap3" => held[r] = new.pic
            /\ pc[r] \in {"meta", "purge", "commit"} => file[p][new.mime] = new.pic
            /\ pc[r] \in {"purge", "commit"} => stage[r][p] = new

UnderWay(r) ==
    /\ Op(r) \notin {"none", "create"} /\ pc[r] # "target"
    /\ Post(r) \notin torn /\ row[Post(r)] # NoRow
    => ReplacesContent(r) /\ Converts(r) /\ Swaps(r)

Local(r) ==
    /\ JobKnown(r) /\ Progress(r) /\ Fresh(r) /\ Pending(r)
    /\ Written(r) /\ Deleted(r) /\ UnderWay(r)

\* A post that was read, or has a row, has been issued.
Issued ==
    \A p \in Posts \ issued :
        /\ row[p] = NoRow
        /\ \A r \in Reqs : seen[r][p] = Unset /\ (Op(r) = "create" => Post(r) # p)

\* Requests change the files of different posts, except for posts they have torn.
Exclusive ==
    \A p \in Posts \ torn : \A r, q \in Reqs : p \in dirty[r] /\ p \in dirty[q] => r = q

\* ContentServed while nobody is in the middle of a post's files: what follows from
\* one step to the next.
Settled ==
    \A p \in Posts :
        row[p] # NoRow /\ p \notin torn /\ (\A r \in Reqs : p \notin dirty[r]) => Served(p)

Inv ==
    /\ TypeOK
    /\ \A r \in Reqs : Local(r)
    /\ Issued /\ Exclusive /\ Settled

-----------------------------------------------------------------------------
(* Type correctness. *)

\* What a request that ends leaves of its own state is well typed.
LEMMA LeaveType ==
    ASSUME TypeOK, NEW r \in Reqs, Leave(r)
    PROVE  /\ pc' \in [Reqs -> Labels]
           /\ job' \in [Reqs -> Jobs]
           /\ seen' \in [Reqs -> [Posts -> Content \cup {Unset}]]
           /\ stage' \in [Reqs -> [Posts -> Content \cup {NoRow, Unset}]]
           /\ held' \in [Reqs -> Pics \cup {NoFile}]
           /\ dirty' \in [Reqs -> SUBSET Posts]
  BY DEF TypeOK, Leave, NoJob, Nothing, Labels, Jobs

LEMMA RollBackType ==
    ASSUME TypeOK, NEW r \in Reqs, RollBack(r), UNCHANGED <<row, file>>,
           issued' \subseteq Posts, temp' \subseteq Tokens
    PROVE  TypeOK'
  BY LeaveType DEF TypeOK, RollBack, Spoiled

LEMMA TouchType ==
    ASSUME TypeOK, NEW r \in Reqs, NEW S \in SUBSET Posts, Touch(r, S)
    PROVE  dirty' \in [Reqs -> SUBSET Posts] /\ torn' \subseteq Posts
  BY DEF TypeOK, Touch

LEMMA StageType ==
    ASSUME TypeOK, NEW r \in Reqs, NEW p \in Posts, NEW v \in Content \cup {NoRow, Unset},
           Stage(r, p, v)
    PROVE  /\ stage' \in [Reqs -> [Posts -> Content \cup {NoRow, Unset}]]
           /\ stage'[r] = [stage[r] EXCEPT ![p] = v]
           /\ \A q \in Reqs \ {r} : stage'[q] = stage[q]
<1> DEFINE Row == [Posts -> Content \cup {NoRow, Unset}]
<1>1. stage \in [Reqs -> Row]
  BY DEF TypeOK
<1>2. [stage[r] EXCEPT ![p] = v] \in Row
  BY <1>1
<1>3. stage' = [stage EXCEPT ![r] = [stage[r] EXCEPT ![p] = v]]
  BY DEF Stage
<1> HIDE DEF Row
<1>4. stage' \in [Reqs -> Row]
  BY <1>1, <1>2, <1>3
<1> QED
  BY <1>1, <1>3, <1>4 DEF Row

LEMMA PublishType ==
    ASSUME TypeOK, NEW r \in Reqs, Publish(r)
    PROVE  /\ row' \in [Posts -> Content \cup {NoRow}]
           /\ stale' \in [Reqs -> SUBSET Posts]
           /\ torn' \subseteq Posts
  BY DEF TypeOK, Publish

-----------------------------------------------------------------------------
(* What a step of request q may do to the others.                            *)

\* The posts a request may touch: those it has read, and the one it is creating.
Mine(q, p) == seen[q][p] # Unset \/ (Op(q) = "create" /\ p = Post(q))

Others(q) ==
    \A r \in Reqs \ {q} :
        /\ pc'[r] = pc[r] /\ job'[r] = job[r] /\ seen'[r] = seen[r]
        /\ stage'[r] = stage[r] /\ held'[r] = held[r] /\ dirty'[r] = dirty[r]
        /\ stale[r] \subseteq stale'[r]

Grows == torn \subseteq torn' /\ issued \subseteq issued'

\* A file changes under nobody's hands who is not torn by it.
FilesOf(q) ==
    \A p \in Posts : file'[p] # file[p] =>
        /\ Mine(q, p)
        /\ p \in torn' \/ row'[p] = NoRow \/ \A r \in Reqs \ {q} : p \notin dirty[r]

\* A row changes with notice to those who have read it, and once gone stays gone.
RowsOf(q) ==
    \A p \in Posts : row'[p] # row[p] =>
        /\ Mine(q, p)
        /\ \A r \in Reqs \ {q} : seen[r][p] # Unset => p \in stale'[r]
        /\ row[p] = NoRow => p \in torn' \/ Op(q) = "create"

\* What q may touch was a post, or is newly issued.
Acquires(q) ==
    \A p \in Posts : Mine(q, p)' => Mine(q, p) \/ row[p] # NoRow \/ p \in issued' \ issued

Dirtied(q) ==
    \A p \in Posts : p \in dirty'[q] /\ p \notin dirty[q] =>
        p \in torn' \/ \A r \in Reqs \ {q} : p \notin dirty[r]

\* What q has put its hands on is served when it lets go.
Serves(q) ==
    \A p \in Posts :
        /\ p \notin torn' /\ row'[p] # NoRow /\ p \notin dirty'[q]
        /\ p \in dirty[q] \/ row'[p] # row[p] \/ file'[p] # file[p]
        /\ \A r \in Reqs \ {q} : p \notin dirty[r]
        => Served(p)'

Env(q) == Others(q) /\ Grows /\ FilesOf(q) /\ RowsOf(q) /\ Acquires(q) /\ Dirtied(q) /\ Serves(q)

\* A request that is not the one making the step keeps what is true of it.
LEMMA Interference ==
    ASSUME Inv, TypeOK', NEW q \in Reqs, Env(q), NEW r \in Reqs \ {q}
    PROVE  Local(r)'
<1>1. Local(r) /\ TypeOK /\ Issued /\ Local(q)
  BY DEF Inv
<1>2. /\ pc'[r] = pc[r] /\ job'[r] = job[r] /\ seen'[r] = seen[r]
      /\ stage'[r] = stage[r] /\ held'[r] = held[r] /\ dirty'[r] = dirty[r]
      /\ stale[r] \subseteq stale'[r]
  BY DEF Env, Others
<1>3. /\ Op(r)' = Op(r) /\ Post(r)' = Post(r) /\ From(r)' = From(r)
      /\ Upload(r)' = Upload(r) /\ Converted(r)' = Converted(r)
  BY <1>2 DEF Op, Post, From, Upload, Converted
<1>4. JobKnown(r)'
  BY <1>1, <1>2, <1>3 DEF Local, JobKnown
<1>5. Progress(r)'
  BY <1>1, <1>2, <1>3 DEF Local, Progress, HasRead, HasChanged
<1>6. Fresh(r)'
  BY <1>1, <1>2, <1>3 DEF Local, Fresh, Env, RowsOf
<1>7. Pending(r)'
  <2> SUFFICES ASSUME Creating(r) PROVE Pending(r)'
    BY <1>2, <1>3 DEF Pending, Creating
  <2>1. Post(r) \in Posts /\ ~Mine(q, Post(r)) /\ row[Post(r)] = NoRow /\ Post(r) \in issued
    BY <1>1 DEF Local, Pending, Creating, Mine, TypeOK, Jobs, Post, Issued
  <2>2. row'[Post(r)] = NoRow /\ file'[Post(r)] = file[Post(r)]
    BY <2>1 DEF Env, RowsOf, FilesOf
  <2>3. ~Mine(q, Post(r))'
    BY <2>1, <1>3 DEF Env, Acquires
  <2>4. \A o \in Reqs \ {r, q} : seen'[o] = seen[o] /\ job'[o] = job[o]
    BY DEF Env, Others
  <2>5. torn \subseteq torn'
    BY DEF Env, Grows
  <2> QED
    BY <1>1, <1>2, <1>3, <2>2, <2>3, <2>4, <2>5 DEF Local, Pending, Creating, Mine, Op, Post
<1>8. Written(r)'
  BY <1>1, <1>2, <1>3 DEF Local, Written
<1>9. ASSUME NEW p \in Posts, HasRead(r, p), row[p] = NoRow, p \notin torn'
      PROVE  row'[p] = NoRow
  <2>1. seen[r][p] # Unset
    BY <1>1, <1>9 DEF Local, Progress
  <2>2. ~(Op(q) = "create" /\ p = Post(q))
    BY <1>1, <1>9, <2>1, ConstantAssumption DEF Local, Pending, Creating
  <2>3. Op(q) = "create" => seen[q][p] = Unset
    BY <1>1, <1>9 DEF Local, Progress, HasRead, Merging
  <2> QED
    BY <1>9, <2>2, <2>3 DEF Env, RowsOf, Mine
<1>10. Deleted(r)'
  BY <1>1, <1>2, <1>3, <1>9 DEF Local, Deleted, Gone, HasRead, JobKnown, Env, Grows, Merging
<1>11. UnderWay(r)'
  <2> DEFINE p == Post(r)
  <2> SUFFICES ASSUME Op(r) \notin {"none", "create"}, pc[r] # "target",
                      p \notin torn', row'[p] # NoRow
               PROVE  (ReplacesContent(r) /\ Converts(r) /\ Swaps(r))'
    BY <1>2, <1>3 DEF UnderWay
  <2>1. p \in Posts /\ HasRead(r, p) /\ seen[r][p] # Unset
    BY <1>1 DEF Local, JobKnown, Progress, HasRead
  <2>2. p \notin torn /\ row[p] # NoRow
    BY <1>9, <2>1 DEF Env, Grows
  <2>3. ReplacesContent(r) /\ Converts(r) /\ Swaps(r)
    BY <1>1, <2>2 DEF Local, UnderWay
  <2>4. p \notin stale'[r] => row'[p] = row[p] /\ p \notin stale[r]
    BY <1>2, <2>1 DEF Env, RowsOf
  <2>5. HasChanged(r, p) => file'[p] = file[p]
    BY <1>1, <2>1 DEF Local, Progress, Env, FilesOf
  <2>6. ReplacesContent(r)'
    BY <1>2, <1>3, <2>3, <2>5 DEF ReplacesContent, HasChanged
  <2>7. Converts(r)'
    BY <1>2, <1>3, <2>3, <2>4, <2>5 DEF Converts, HasChanged, Served
  <2>8. Swaps(r)'
    BY <1>2, <1>3, <2>3, <2>5 DEF Swaps, HasChanged
  <2> QED
    BY <2>6, <2>7, <2>8
<1> QED
  BY <1>4, <1>5, <1>6, <1>7, <1>8, <1>10, <1>11 DEF Local

\* So a step of q preserves the invariant if it leaves q in order and keeps to Env(q).
LEMMA Preserves ==
    ASSUME Inv, TypeOK', NEW q \in Reqs, Env(q), Local(q)'
    PROVE  Inv'
<1>1. TypeOK /\ Issued /\ Exclusive /\ Settled /\ Local(q)
  BY DEF Inv
<1>2. \A r \in Reqs : Local(r)'
  BY Interference
<1>3. Issued'
  <2> SUFFICES ASSUME NEW p \in Posts, p \notin issued'
               PROVE  /\ row'[p] = NoRow
                      /\ \A r \in Reqs : seen'[r][p] = Unset
                                         /\ (Op(r)' = "create" => Post(r)' # p)
    BY DEF Issued
  <2>1. p \notin issued
    BY DEF Env, Grows
  <2>2. row[p] = NoRow /\ ~Mine(q, p)
    BY <1>1, <2>1 DEF Issued, Mine
  <2>3. row'[p] = NoRow /\ ~Mine(q, p)'
    BY <2>2 DEF Env, RowsOf, Acquires
  <2>4. \A r \in Reqs \ {q} : seen'[r] = seen[r] /\ job'[r] = job[r]
    BY DEF Env, Others
  <2> QED
    BY <1>1, <2>1, <2>3, <2>4 DEF Issued, Mine, Op, Post
<1>4. Exclusive'
  <2> SUFFICES ASSUME NEW p \in Posts, p \notin torn', NEW r \in Reqs, NEW o \in Reqs,
                      p \in dirty'[r], p \in dirty'[o], r # o
               PROVE  FALSE
    BY DEF Exclusive
  <2>1. p \notin torn
    BY DEF Env, Grows
  <2>2. \A x \in Reqs \ {q} : dirty'[x] = dirty[x]
    BY DEF Env, Others
  <2> QED
    BY <1>1, <2>1, <2>2 DEF Exclusive, Env, Dirtied
<1>5. Settled'
  <2> SUFFICES ASSUME NEW p \in Posts, row'[p] # NoRow, p \notin torn',
                      \A r \in Reqs : p \notin dirty'[r]
               PROVE  Served(p)'
    BY DEF Settled
  <2>1. \A r \in Reqs \ {q} : p \notin dirty[r]
    BY DEF Env, Others
  <2>2. CASE p \in dirty[q] \/ row'[p] # row[p] \/ file'[p] # file[p]
    BY <2>1, <2>2 DEF Env, Serves
  <2>3. CASE p \notin dirty[q] /\ row'[p] = row[p] /\ file'[p] = file[p]
    <3>1. p \notin torn
      BY DEF Env, Grows
    <3> QED
      BY <1>1, <2>1, <2>3, <3>1 DEF Settled, Served
  <2> QED
    BY <2>2, <2>3
<1> QED
  BY <1>2, <1>3, <1>4, <1>5 DEF Inv

\* A request that has ended is in order.
LEMMA EndLocal ==
    ASSUME TypeOK, TypeOK', NEW q \in Reqs, Leave(q)
    PROVE  Local(q)' /\ \A p \in Posts : ~Mine(q, p)' /\ p \notin dirty'[q]
<1>1. /\ pc'[q] = "idle" /\ job'[q] = NoJob /\ dirty'[q] = {}
      /\ \A p \in Posts : seen'[q][p] = Unset /\ stage'[q][p] = Unset
  BY DEF Leave, TypeOK, Nothing
<1>2. Op(q)' = "none" /\ Post(q)' = Unset
  BY <1>1 DEF NoJob, Op, Post
<1>3. JobKnown(q)'
  BY <1>1, <1>2 DEF JobKnown, LabelsOf, Merging, Conversion
<1>4. Progress(q)'
  BY <1>1, <1>2 DEF Progress, HasRead, HasChanged, Merging, Conversion
<1>5. Fresh(q)' /\ Written(q)'
  BY <1>1 DEF Fresh, Written
<1>6. Pending(q)' /\ Deleted(q)' /\ UnderWay(q)'
  BY <1>2 DEF Pending, Creating, Deleted, UnderWay, Merging
<1> QED
  BY <1>1, <1>2, <1>3, <1>4, <1>5, <1>6 DEF Local, Mine

\* A post that a request spoils is torn; a conversion leaves the others served.
LEMMA Unspoiled ==
    ASSUME Inv, NEW q \in Reqs, NEW p \in dirty[q], p \notin Spoiled(q), p \notin torn,
           row[p] # NoRow
    PROVE  Served(p)
<1>1. Local(q) /\ TypeOK
  BY DEF Inv
<1>2. Op(q) \in Conversion /\ pc[q] \in {"row", "sweep"} /\ ~Clash(q, p)
  BY DEF Spoiled, Conversion
<1>3. p \in Posts /\ p = Post(q) /\ p \notin stale[q]
  BY <1>1, <1>2 DEF Local, Progress, HasChanged, TypeOK, Clash, Conversion
<1>4. Converts(q) /\ seen[q][p] # Unset
  BY <1>1, <1>2, <1>3 DEF Local, UnderWay, Conversion, Progress, HasRead
<1>5. CASE pc[q] = "row"
  BY <1>2, <1>3, <1>4, <1>5 DEF Converts
<1>6. CASE pc[q] = "sweep"
  BY <1>1, <1>2, <1>3, <1>4, <1>6 DEF Converts, Local, Fresh, Served, Converted
<1> QED
  BY <1>2, <1>5, <1>6

LEMMA RollBackPreserves ==
    ASSUME Inv, NEW q \in Reqs, RollBack(q), UNCHANGED <<row, file>>,
           issued \subseteq issued', issued' \subseteq Posts, temp' \subseteq Tokens
    PROVE  Inv'
<1>1. TypeOK /\ Local(q)
  BY DEF Inv
<1>2. TypeOK' /\ Leave(q)
  BY <1>1, RollBackType DEF RollBack
<1>3. Local(q)' /\ \A p \in Posts : ~Mine(q, p)' /\ p \notin dirty'[q]
  BY <1>1, <1>2, EndLocal
<1>4. Others(q) /\ Grows
  BY <1>1, <1>2 DEF Leave, RollBack, TypeOK, Others, Grows
<1>5. Serves(q)
  BY <1>1, Unspoiled DEF Serves, RollBack, TypeOK, Served
<1>6. Env(q)
  BY <1>3, <1>4, <1>5 DEF Env, FilesOf, RowsOf, Acquires, Dirtied
<1> QED
  BY <1>2, <1>3, <1>6, Preserves

-----------------------------------------------------------------------------
(* Steps that change neither files nor committed rows.                       *)

LEMMA QuietPreserves ==
    ASSUME Inv, TypeOK', NEW q \in Reqs, Others(q), Acquires(q), Local(q)',
           UNCHANGED <<row, file, histVars>>, issued \subseteq issued'
    PROVE  Inv'
<1>1. Env(q)
  BY DEF Env, Grows, FilesOf, RowsOf, Dirtied, Serves, histVars
<1> QED
  BY <1>1, Preserves

\* Where a request is tells which operations it may be.
LEMMA OpAt ==
    ASSUME TypeOK, NEW q \in Reqs, JobKnown(q)
    PROVE  /\ pc[q] = "idle" => Op(q) = "none"
           /\ pc[q] = "insert" => Op(q) = "create"
           /\ pc[q] = "fill" => Op(q) \in {"create", "update"}
           /\ pc[q] = "signature" => Op(q) = "update"
           /\ pc[q] = "save" => Op(q) \in {"edit", "update"}
           /\ pc[q] = "unlink" => Op(q) \in {"update", "convert"}
           /\ pc[q] \in {"decode", "encode"} => Op(q) \in Conversion
           /\ pc[q] = "row" => Op(q) \in {"convert", "task", "delete"}
           /\ pc[q] = "sweep" => Op(q) = "task"
           /\ pc[q] \in {"target", "describe", "absorb"} => Op(q) \in Merging
           /\ pc[q] \in {"swap1", "swap2", "swap3", "meta"} => Op(q) = "replace"
           /\ pc[q] = "purge" => Op(q) \in {"delete", "merge", "replace"}
           /\ pc[q] = "commit" => Op(q) \notin {"none", "task"}
<1>1. Op(q) \in {"none", "create", "edit", "update", "convert", "task", "delete",
                "merge", "replace"}
  BY DEF TypeOK, Jobs, AllOps, Op
<1>2. /\ Op(q) = "none" => pc[q] \in {"idle"}
      /\ Op(q) = "create" => pc[q] \in {"insert", "fill", "commit"}
      /\ Op(q) = "edit" => pc[q] \in {"save", "commit"}
      /\ Op(q) = "update" => pc[q] \in {"signature", "unlink", "fill", "save", "commit"}
      /\ Op(q) = "convert" => pc[q] \in {"decode", "encode", "row", "unlink", "commit"}
      /\ Op(q) = "task" => pc[q] \in {"decode", "encode", "row", "sweep"}
      /\ Op(q) = "delete" => pc[q] \in {"row", "commit", "purge"}
      /\ Op(q) = "merge" => pc[q] \in {"target", "describe", "absorb", "purge", "commit"}
      /\ Op(q) = "replace" => pc[q] \in {"target", "describe", "absorb", "swap1", "swap2",
                                        "swap3", "meta", "purge", "commit"}
  BY DEF JobKnown, LabelsOf
<1> QED
  BY <1>1, <1>2 DEF Merging, Conversion

LEMMA StartCreatePreserves ==
    ASSUME Inv, NEW q \in Reqs, NEW t \in Tokens, StartCreate(q, t)
    PROVE  Inv'
<1>1. TypeOK /\ Local(q)
  BY DEF Inv
<1>2. /\ pc'[q] = "insert" /\ job'[q] = [NoJob EXCEPT !.op = "create", !.token = t]
      /\ seen'[q] = seen[q] /\ stage'[q] = stage[q] /\ dirty'[q] = dirty[q]
      /\ Op(q) = "none"
  BY <1>1, OpAt DEF StartCreate, Goto, TypeOK, Local, histVars
<1>3. TypeOK'
  BY <1>1 DEF StartCreate, Goto, TypeOK, Labels, Jobs, NoJob, AllOps, dbVars, fsVars, histVars
<1>4. Others(q)
  BY <1>1 DEF StartCreate, Goto, TypeOK, Others, histVars
<1>5. Op(q)' = "create" /\ Post(q)' = Unset
  BY <1>2 DEF NoJob, Op, Post
<1>6. \A p \in Posts : seen[q][p] = Unset /\ p \notin dirty[q] /\ stage[q][p] = Unset
  BY <1>1, <1>2 DEF Local, Progress, HasRead, HasChanged, Written, Merging, Conversion
<1>7. Acquires(q)
  BY <1>2, <1>5, <1>6, ConstantAssumption DEF Acquires, Mine
<1>8. Local(q)'
  BY <1>2, <1>5, <1>6, ConstantAssumption
     DEF Local, JobKnown, LabelsOf, Progress, HasRead, HasChanged, Fresh, Pending, Creating,
         Written, Deleted, UnderWay, Merging, Conversion, NoJob, Op, Post
<1> QED
  BY <1>3, <1>4, <1>7, <1>8, QuietPreserves DEF StartCreate, dbVars, fsVars

LEMMA InsertPreserves ==
    ASSUME Inv, NEW q \in Reqs, NEW p \in Posts, Insert(q, p)
    PROVE  Inv'
<1>1. TypeOK /\ Local(q) /\ Issued
  BY DEF Inv
<1>2. CASE RollBack(q)
  BY <1>1, <1>2, RollBackPreserves DEF Insert, TypeOK, fsVars
<1>3. CASE ~RollBack(q)
  <2>1. /\ pc'[q] = "fill" /\ job'[q] = [job[q] EXCEPT !.post = p] /\ seen'[q] = seen[q]
        /\ stage'[q] = [stage[q] EXCEPT ![p] = Upload(q)] /\ dirty'[q] = dirty[q]
        /\ issued' = issued \cup {p} /\ p \notin issued
    BY <1>1, <1>3 DEF Insert, Goto, TypeOK, Stage, histVars
  <2>2. Op(q) = "create" /\ job[q].token \in Tokens /\ Upload(q) \in Content /\ Post(q) = Unset
    BY <1>1, OpAt, ConstantAssumption DEF Insert, Local, JobKnown, Upload
  <2>3. TypeOK'
    <3>1. job' \in [Reqs -> Jobs]
      <4>0. job[q] \in Jobs
        BY <1>1 DEF TypeOK
      <4>1. [job[q] EXCEPT !.post = p] \in Jobs
        BY <4>0 DEF Jobs
      <4>2. job' = [job EXCEPT ![q] = [job[q] EXCEPT !.post = p]]
        BY <1>3 DEF Insert
      <4> QED
        BY <1>1, <4>1, <4>2 DEF TypeOK
    <3>2. stage' \in [Reqs -> [Posts -> Content \cup {NoRow, Unset}]]
      BY <1>1, <1>3, <2>2, StageType DEF Insert
    <3> QED
      BY <1>1, <1>3, <3>1, <3>2 DEF Insert, Goto, TypeOK, Labels, fsVars, histVars
  <2>4. Others(q)
    BY <1>1, <1>3 DEF Insert, Goto, TypeOK, Others, Stage, histVars
  <2>5. Op(q)' = "create" /\ Post(q)' = p /\ Upload(q)' = Upload(q) /\ job'[q].token = job[q].token
    BY <1>1, <2>1, <2>2 DEF Op, Post, Upload, TypeOK, Jobs
  <2>6. \A o \in Posts : seen[q][o] = Unset /\ o \notin dirty[q] /\ stage[q][o] = Unset
    BY <1>1, <2>2, ConstantAssumption
       DEF Local, Progress, HasRead, HasChanged, Written, Merging, Conversion, Insert
  <2>7. Acquires(q)
    BY <2>1, <2>5, <2>6 DEF Acquires, Mine
  <2>8. row' = row /\ row[p] = NoRow /\ stage'[q][p] = Upload(q)
    BY <1>1, <1>3, <2>1 DEF Issued, Insert, TypeOK
  <2>9. \A r \in Reqs \ {q} :
            seen'[r][p] = Unset /\ (Op(r)' = "create" => Post(r)' # p)
    BY <1>1, <2>1, <2>4 DEF Issued, Others, Op, Post
  <2>10. Local(q)'
    BY <1>1, <2>1, <2>2, <2>5, <2>6, <2>8, <2>9, ConstantAssumption
       DEF Local, JobKnown, LabelsOf, Progress, HasRead, HasChanged, Fresh, Pending, Creating,
           Written, Deleted, UnderWay, Merging, Conversion, TypeOK
  <2> QED
    BY <1>3, <2>3, <2>4, <2>7, <2>10, QuietPreserves DEF Insert, fsVars
<1> QED
  BY <1>2, <1>3

LEMMA ReadPreserves ==
    ASSUME Inv, NEW q \in Reqs, NEW op \in DOMAIN FirstStep, NEW p \in Posts, NEW t \in Tokens,
           Read(q, op, p, t)
    PROVE  Inv'
<1>1. TypeOK /\ Local(q) /\ Issued
  BY DEF Inv
<1>2. /\ op \in {"edit", "update", "convert", "task", "delete"}
      /\ op = "edit" => FirstStep[op] = "save"
      /\ op = "update" => FirstStep[op] = "signature"
      /\ op \in Conversion => FirstStep[op] = "decode"
      /\ op = "delete" => FirstStep[op] = "row"
  BY DEF FirstStep, Conversion
<1>3. DEFINE j == [NoJob EXCEPT !.op = op, !.post = p,
                               !.token = IF op = "update" THEN t ELSE Unset]
<1>4. j.op = op /\ j.post = p /\ (op = "update" => j.token = t) /\ j \in Jobs
  BY <1>2 DEF NoJob, Jobs, AllOps
<1> HIDE DEF j
<1>5. row[p] \in Content /\ row[p] # NoRow /\ row[p] # Unset
  BY <1>1, ConstantAssumption DEF Read, TypeOK
<1>6. /\ pc'[q] = FirstStep[op] /\ job'[q] = j /\ seen'[q] = [seen[q] EXCEPT ![p] = row[p]]
      /\ stage'[q] = stage[q] /\ dirty'[q] = dirty[q] /\ stale'[q] = stale[q]
      /\ Op(q) = "none"
  BY <1>1, OpAt DEF Read, Goto, TypeOK, Local, histVars, j
<1>7. TypeOK'
  <2>1. job' \in [Reqs -> Jobs]
    BY <1>1, <1>4 DEF Read, TypeOK, j
  <2>2. seen' \in [Reqs -> [Posts -> Content \cup {Unset}]]
    BY <1>1, <1>5 DEF Read, TypeOK
  <2>3. pc' \in [Reqs -> Labels]
    BY <1>1, <1>2 DEF Read, Goto, TypeOK, Labels, Conversion
  <2> QED
    BY <1>1, <2>1, <2>2, <2>3 DEF Read, TypeOK, dbVars, fsVars, histVars
<1>8. Others(q)
  BY <1>1 DEF Read, Goto, TypeOK, Others, histVars
<1>9. Op(q)' = op /\ Post(q)' = p /\ job'[q].token = j.token
  BY <1>4, <1>6 DEF Op, Post
<1>10. /\ \A o \in Posts : seen[q][o] = Unset /\ o \notin dirty[q] /\ stage[q][o] = Unset
       /\ \A o \in Posts : seen'[q][o] = IF o = p THEN row[p] ELSE Unset
  BY <1>1, <1>6 DEF Local, Progress, HasRead, HasChanged, Written, Merging, Conversion, TypeOK
<1>11. Acquires(q)
  BY <1>2, <1>5, <1>9, <1>10 DEF Acquires, Mine
<1>12. op \in Conversion => row[p].mime # Jxl
  BY DEF Read, Conversion
<1>13. row' = row
  BY DEF Read, dbVars
<1>14. JobKnown(q)' /\ Progress(q)'
  BY <1>2, <1>4, <1>5, <1>6, <1>9, <1>10, <1>12
     DEF JobKnown, LabelsOf, Progress, HasRead, HasChanged, Merging, Conversion
<1>15. Fresh(q)' /\ Written(q)' /\ Pending(q)'
  BY <1>2, <1>5, <1>6, <1>9, <1>10, <1>13 DEF Fresh, Written, Pending, Creating, Conversion
<1>16. Deleted(q)' /\ UnderWay(q)'
  BY <1>2, <1>6, <1>9
     DEF Deleted, UnderWay, ReplacesContent, Converts, Swaps, Merging, Conversion
<1> QED
  BY <1>7, <1>8, <1>11, <1>14, <1>15, <1>16, QuietPreserves DEF Read, dbVars, fsVars, Local

LEMMA StartMergePreserves ==
    ASSUME Inv, NEW q \in Reqs, NEW op \in Merging, NEW p \in Posts, NEW s \in Posts,
           StartMerge(q, op, p, s)
    PROVE  Inv'
<1>1. TypeOK /\ Local(q) /\ Issued
  BY DEF Inv
<1>3. DEFINE j == [NoJob EXCEPT !.op = op, !.post = p, !.from = s]
<1>4. j.op = op /\ j.post = p /\ j.from = s /\ j \in Jobs
  BY DEF NoJob, Jobs, AllOps, Merging
<1> HIDE DEF j
<1>5. row[s] \in Content /\ row[s] # NoRow /\ row[s] # Unset /\ p # s
  BY <1>1, ConstantAssumption DEF StartMerge, TypeOK
<1>6. /\ pc'[q] = "target" /\ job'[q] = j /\ seen'[q] = [seen[q] EXCEPT ![s] = row[s]]
      /\ stage'[q] = stage[q] /\ dirty'[q] = dirty[q] /\ stale'[q] = stale[q]
      /\ Op(q) = "none"
  BY <1>1, OpAt DEF StartMerge, Goto, TypeOK, Local, histVars, j
<1>7. TypeOK'
  <2>1. job' \in [Reqs -> Jobs]
    BY <1>1, <1>4 DEF StartMerge, TypeOK, j
  <2>2. seen' \in [Reqs -> [Posts -> Content \cup {Unset}]]
    BY <1>1, <1>5 DEF StartMerge, TypeOK
  <2> QED
    BY <1>1, <2>1, <2>2 DEF StartMerge, TypeOK, Goto, Labels, dbVars, fsVars, histVars
<1>8. Others(q)
  BY <1>1 DEF StartMerge, Goto, TypeOK, Others, histVars
<1>9. Op(q)' = op /\ Post(q)' = p /\ From(q)' = s
  BY <1>4, <1>6 DEF Op, Post, From
<1>10. /\ \A o \in Posts : seen[q][o] = Unset /\ o \notin dirty[q] /\ stage[q][o] = Unset
       /\ \A o \in Posts : seen'[q][o] = IF o = s THEN row[s] ELSE Unset
  BY <1>1, <1>6 DEF Local, Progress, HasRead, HasChanged, Written, Merging, Conversion, TypeOK
<1>11. Acquires(q)
  BY <1>5, <1>9, <1>10 DEF Acquires, Mine, Merging
<1>12. row' = row
  BY DEF StartMerge, dbVars
<1>13. JobKnown(q)' /\ Progress(q)'
  BY <1>4, <1>5, <1>6, <1>9, <1>10
     DEF JobKnown, LabelsOf, Progress, HasRead, HasChanged, Merging, Conversion
<1>14. Fresh(q)' /\ Written(q)' /\ Pending(q)'
  BY <1>5, <1>6, <1>9, <1>10, <1>12 DEF Fresh, Written, Pending, Creating, Merging
<1>15. Deleted(q)' /\ UnderWay(q)'
  BY <1>6, <1>9 DEF Deleted, UnderWay, Merging
<1> QED
  BY <1>7, <1>8, <1>11, <1>13, <1>14, <1>15, QuietPreserves DEF StartMerge, dbVars, fsVars, Local

LEMMA ReplaceSignaturePreserves ==
    ASSUME Inv, NEW q \in Reqs, ReplaceSignature(q)
    PROVE  Inv'
<1>1. TypeOK /\ Local(q)
  BY DEF Inv
<1>2. CASE RollBack(q)
  BY <1>1, <1>2, RollBackPreserves DEF ReplaceSignature, dbVars, fsVars, TypeOK
<1>3. CASE ~RollBack(q)
  <2>1. /\ UNCHANGED <<dbVars, fsVars, job, seen, stage, held, histVars>>
        /\ pc[q] = "signature" /\ pc' = [pc EXCEPT ![q] = "unlink"]
    BY <1>3 DEF ReplaceSignature, Goto
  <2>2. Op(q) = "update"
    BY <1>1, <2>1, OpAt DEF Local
  <2>3. TypeOK' /\ Others(q) /\ Acquires(q)
    BY <1>1, <2>1 DEF TypeOK, Others, Acquires, Mine, Labels, Op, Post, dbVars, fsVars, histVars
  <2>4. pc'[q] = "unlink"
    BY <1>1, <2>1 DEF TypeOK
  <2>5. Local(q)'
    BY <1>1, <2>1, <2>2, <2>4
       DEF Local, JobKnown, LabelsOf, Progress, HasRead, HasChanged, Fresh, Pending, Creating,
           Written, Deleted, UnderWay, ReplacesContent, Converts, Swaps, Merging, Conversion,
           Op, Post, From, Upload, Converted, histVars, dbVars
  <2> QED
    BY <2>1, <2>3, <2>5, QuietPreserves DEF dbVars, fsVars
<1> QED
  BY <1>2, <1>3

\* A step that writes to a row, at most, and moves on keeps the rest of its request.
LEMMA WriteSteps ==
    ASSUME Inv, NEW q \in Reqs, NEW p \in Posts, NEW v \in Content \cup {NoRow, Unset},
           NEW label \in Labels, Stage(q, p, v), Goto(q, label),
           UNCHANGED <<dbVars, fsVars, job, seen, held, histVars>>
    PROVE  /\ TypeOK' /\ Others(q) /\ Acquires(q)
           /\ pc'[q] = label /\ stage'[q][p] = v
           /\ \A o \in Posts \ {p} : stage'[q][o] = stage[q][o]
           /\ Op(q)' = Op(q) /\ Post(q)' = Post(q) /\ From(q)' = From(q)
           /\ Upload(q)' = Upload(q) /\ Converted(q)' = Converted(q)
<1>1. TypeOK
  BY DEF Inv
<1>2. /\ stage' \in [Reqs -> [Posts -> Content \cup {NoRow, Unset}]]
      /\ stage'[q] = [stage[q] EXCEPT ![p] = v]
      /\ \A r \in Reqs \ {q} : stage'[r] = stage[r]
  BY <1>1, StageType
<1>3. pc' \in [Reqs -> Labels] /\ pc'[q] = label /\ \A r \in Reqs \ {q} : pc'[r] = pc[r]
  BY <1>1 DEF Goto, TypeOK
<1>4. TypeOK'
  BY <1>1, <1>2, <1>3 DEF TypeOK, dbVars, fsVars, histVars
<1>5. stage[q] \in [Posts -> Content \cup {NoRow, Unset}]
  BY <1>1 DEF TypeOK
<1> QED
  BY <1>2, <1>3, <1>4, <1>5
     DEF Others, Acquires, Mine, Op, Post, From, Upload, Converted, dbVars, histVars

LEMMA SavePreserves ==
    ASSUME Inv, NEW q \in Reqs, Save(q)
    PROVE  Inv'
<1>1. TypeOK /\ Local(q)
  BY DEF Inv
<1>2. CASE RollBack(q)
  BY <1>1, <1>2, RollBackPreserves DEF Save, dbVars, fsVars, TypeOK
<1>3. CASE ~RollBack(q)
  <2> DEFINE p == Post(q)
             new == IF Op(q) = "update" THEN Upload(q) ELSE seen[q][p]
  <2>1. /\ UNCHANGED <<dbVars, fsVars, job, seen, held, histVars>>
        /\ pc[q] = "save" /\ Goto(q, "commit") /\ Stage(q, p, new)
    BY <1>3 DEF Save
  <2>2. Op(q) \in {"edit", "update"} /\ p \in Posts
    BY <1>1, <2>1, OpAt DEF Local, JobKnown
  <2>3. new \in Content /\ seen[q][p] # Unset
    BY <1>1, <2>1, <2>2, ConstantAssumption
       DEF Local, JobKnown, Progress, HasRead, TypeOK, Upload
  <2> HIDE DEF p, new
  <2>4. /\ TypeOK' /\ Others(q) /\ Acquires(q)
        /\ pc'[q] = "commit" /\ stage'[q][p] = new
        /\ \A o \in Posts \ {p} : stage'[q][o] = stage[q][o]
        /\ Op(q)' = Op(q) /\ Post(q)' = Post(q) /\ From(q)' = From(q)
        /\ Upload(q)' = Upload(q) /\ Converted(q)' = Converted(q)
    BY <2>1, <2>2, <2>3, WriteSteps DEF Labels
  <2>5. JobKnown(q)' /\ Progress(q)' /\ Fresh(q)' /\ Pending(q)'
    BY <1>1, <2>1, <2>2, <2>4
       DEF Local, JobKnown, LabelsOf, Progress, HasRead, HasChanged, Fresh, Pending, Creating,
           Merging, Conversion, dbVars, histVars
  <2>6. Written(q)' /\ Deleted(q)'
    BY <1>1, <2>1, <2>2, <2>3, <2>4
       DEF Local, Written, Deleted, Merging, Progress, HasChanged, histVars, p, new
  <2>7. UnderWay(q)'
    BY <1>1, <2>1, <2>2, <2>4
       DEF Local, UnderWay, ReplacesContent, Converts, Swaps, Conversion, histVars, dbVars, fsVars,
           p, new
  <2> QED
    BY <2>1, <2>4, <2>5, <2>6, <2>7, QuietPreserves DEF dbVars, fsVars, Local
<1> QED
  BY <1>2, <1>3

LEMMA ConvertRowPreserves ==
    ASSUME Inv, NEW q \in Reqs, ConvertRow(q)
    PROVE  Inv'
<1>1. TypeOK /\ Local(q)
  BY DEF Inv
<1> DEFINE p == Post(q)
           v == IF row[p] = NoRow THEN Unset ELSE Converted(q)
<1>2. /\ UNCHANGED <<dbVars, fsVars, job, seen, held, histVars>>
      /\ pc[q] = "row" /\ Op(q) = "convert" /\ Goto(q, "unlink") /\ Stage(q, p, v)
  BY DEF ConvertRow
<1>3. p \in Posts /\ held[q] \in Pics /\ seen[q][p] # Unset
  BY <1>1, <1>2 DEF Local, JobKnown, Progress, HasRead, Conversion
<1>4. v \in Content \cup {NoRow, Unset}
  BY <1>3, ConstantAssumption DEF Converted, Content
<1> HIDE DEF p, v
<1>5. /\ TypeOK' /\ Others(q) /\ Acquires(q)
      /\ pc'[q] = "unlink" /\ stage'[q][p] = v
      /\ \A o \in Posts \ {p} : stage'[q][o] = stage[q][o]
      /\ Op(q)' = Op(q) /\ Post(q)' = Post(q) /\ From(q)' = From(q)
      /\ Upload(q)' = Upload(q) /\ Converted(q)' = Converted(q)
  BY <1>2, <1>3, <1>4, WriteSteps DEF Labels
<1>6. JobKnown(q)' /\ Progress(q)' /\ Fresh(q)' /\ Pending(q)'
  BY <1>1, <1>2, <1>5
     DEF Local, JobKnown, LabelsOf, Progress, HasRead, HasChanged, Fresh, Pending, Creating,
         Merging, Conversion, dbVars, histVars
<1>7. Written(q)' /\ Deleted(q)'
  BY <1>1, <1>2, <1>3, <1>5
     DEF Local, Written, Deleted, Merging, Conversion, Progress, HasChanged, histVars, p, v
<1>8. UnderWay(q)'
  BY <1>1, <1>2, <1>5
     DEF Local, UnderWay, ReplacesContent, Converts, Swaps, Conversion, histVars, dbVars, fsVars,
         p, v
<1> QED
  BY <1>2, <1>5, <1>6, <1>7, <1>8, QuietPreserves DEF dbVars, fsVars, Local

LEMMA DeleteRowPreserves ==
    ASSUME Inv, NEW q \in Reqs, DeleteRow(q)
    PROVE  Inv'
<1>1. TypeOK /\ Local(q)
  BY DEF Inv
<1> DEFINE p == Post(q)
           v == IF row[p] = NoRow THEN Unset ELSE NoRow
<1>2. /\ UNCHANGED <<dbVars, fsVars, job, seen, held, histVars>>
      /\ pc[q] = "row" /\ Op(q) = "delete" /\ Goto(q, "commit") /\ Stage(q, p, v)
  BY DEF DeleteRow
<1>3. p \in Posts /\ seen[q][p] # Unset
  BY <1>1, <1>2 DEF Local, JobKnown, Progress, HasRead
<1>4. v \in Content \cup {NoRow, Unset}
  OBVIOUS
<1> HIDE DEF p, v
<1>5. /\ TypeOK' /\ Others(q) /\ Acquires(q)
      /\ pc'[q] = "commit" /\ stage'[q][p] = v
      /\ \A o \in Posts \ {p} : stage'[q][o] = stage[q][o]
      /\ Op(q)' = Op(q) /\ Post(q)' = Post(q) /\ From(q)' = From(q)
      /\ Upload(q)' = Upload(q) /\ Converted(q)' = Converted(q)
  BY <1>2, <1>3, <1>4, WriteSteps DEF Labels
<1>6. JobKnown(q)' /\ Progress(q)' /\ Fresh(q)' /\ Pending(q)'
  BY <1>1, <1>2, <1>5
     DEF Local, JobKnown, LabelsOf, Progress, HasRead, HasChanged, Fresh, Pending, Creating,
         Merging, Conversion, dbVars, histVars
<1>7. Written(q)' /\ Deleted(q)'
  BY <1>1, <1>2, <1>3, <1>5
     DEF Local, Written, Deleted, Gone, Merging, Conversion, histVars, dbVars, p, v
<1>8. UnderWay(q)'
  BY <1>2, <1>5 DEF UnderWay, ReplacesContent, Converts, Swaps, Conversion
<1> QED
  BY <1>2, <1>5, <1>6, <1>7, <1>8, QuietPreserves DEF dbVars, fsVars, Local

LEMMA DecodePreserves ==
    ASSUME Inv, NEW q \in Reqs, Decode(q)
    PROVE  Inv'
<1>1. TypeOK /\ Local(q)
  BY DEF Inv
<1>2. CASE RollBack(q)
  BY <1>1, <1>2, RollBackPreserves DEF Decode, dbVars, fsVars, TypeOK
<1>3. CASE ~RollBack(q)
  <2> DEFINE p == Post(q)
             pic == file[p][seen[q][p].mime]
  <2>1. /\ UNCHANGED <<dbVars, fsVars, job, seen, stage, histVars>>
        /\ pc[q] = "decode" /\ pc' = [pc EXCEPT ![q] = "encode"]
        /\ pic # NoFile /\ held' = [held EXCEPT ![q] = pic]
    BY <1>3 DEF Decode, Goto
  <2>2. Op(q) \in Conversion /\ p \in Posts /\ seen[q][p] # Unset
    BY <1>1, <2>1, OpAt DEF Local, JobKnown, Progress, HasRead, Conversion
  <2>3. pic \in Pics
    <3>1. seen[q][p] \in Content
      BY <1>1, <2>2 DEF TypeOK
    <3> QED
      BY <1>1, <2>1, <2>2, <3>1 DEF TypeOK, Content
  <2> HIDE DEF p, pic
  <2>4. pc'[q] = "encode" /\ held'[q] \in Pics
    BY <1>1, <2>1, <2>3 DEF TypeOK
  <2>5. TypeOK'
    BY <1>1, <2>1, <2>3 DEF TypeOK, Labels, dbVars, fsVars, histVars
  <2>6. Others(q) /\ Acquires(q)
    BY <1>1, <2>1 DEF TypeOK, Others, Acquires, Mine, Op, Post, dbVars, fsVars, histVars
  <2>7. Local(q)'
    BY <1>1, <2>1, <2>2, <2>4
       DEF Local, JobKnown, LabelsOf, Progress, HasRead, HasChanged, Fresh, Pending, Creating,
           Written, Deleted, UnderWay, ReplacesContent, Converts, Swaps, Merging, Conversion,
           Op, Post, From, dbVars, fsVars, histVars
  <2> QED
    BY <2>1, <2>5, <2>6, <2>7, QuietPreserves DEF dbVars, fsVars
<1> QED
  BY <1>2, <1>3

LEMMA MergeReadPreserves ==
    ASSUME Inv, NEW q \in Reqs, MergeRead(q)
    PROVE  Inv'
<1>1. TypeOK /\ Local(q)
  BY DEF Inv
<1>2. CASE RollBack(q)
  BY <1>1, <1>2, RollBackPreserves DEF MergeRead, dbVars, fsVars, TypeOK
<1>3. CASE ~RollBack(q)
  <2> DEFINE p == Post(q)
  <2>1. /\ UNCHANGED <<dbVars, fsVars, job, stage, held, histVars>>
        /\ pc[q] = "target" /\ pc' = [pc EXCEPT ![q] = "describe"]
        /\ row[p] # NoRow /\ seen' = [seen EXCEPT ![q][p] = row[p]]
    BY <1>3 DEF MergeRead, Goto
  <2>2. Op(q) \in Merging /\ p \in Posts /\ From(q) \in Posts /\ From(q) # p
    BY <1>1, <2>1, OpAt DEF Local, JobKnown, Merging
  <2>3. row[p] \in Content /\ row[p] # Unset
    BY <1>1, <2>1, <2>2, ConstantAssumption DEF TypeOK
  <2> HIDE DEF p
  <2>4. pc'[q] = "describe" /\ \A o \in Posts : seen'[q][o] = IF o = p THEN row[p] ELSE seen[q][o]
    BY <1>1, <2>1, <2>2 DEF TypeOK
  <2>5. TypeOK'
    <3>1. seen' \in [Reqs -> [Posts -> Content \cup {Unset}]]
      BY <1>1, <2>1, <2>2, <2>3 DEF TypeOK
    <3> QED
      BY <1>1, <2>1, <3>1 DEF TypeOK, Labels, dbVars, fsVars, histVars
  <2>6. Others(q)
    BY <1>1, <2>1 DEF TypeOK, Others, histVars
  <2>7. Op(q)' = Op(q) /\ Post(q)' = p /\ From(q)' = From(q)
    BY <2>1 DEF Op, Post, From, p
  <2>8. Acquires(q)
    BY <2>1, <2>2, <2>4, <2>7 DEF Acquires, Mine, Merging
  <2>9. JobKnown(q)' /\ Progress(q)'
    BY <1>1, <2>1, <2>2, <2>3, <2>4, <2>7
       DEF Local, JobKnown, LabelsOf, Progress, HasRead, HasChanged, Merging, Conversion, p,
           histVars
  <2>10. Fresh(q)' /\ Pending(q)' /\ Written(q)'
    BY <1>1, <2>1, <2>2, <2>3, <2>4, <2>7
       DEF Local, Fresh, Pending, Creating, Written, Progress, HasRead, Merging, p,
           dbVars, histVars
  <2>11. Deleted(q)' /\ UnderWay(q)'
    BY <2>2, <2>4, <2>7
       DEF Deleted, UnderWay, ReplacesContent, Converts, Swaps, Merging, Conversion
  <2> QED
    BY <2>1, <2>5, <2>6, <2>8, <2>9, <2>10, <2>11, QuietPreserves DEF dbVars, fsVars, Local
<1> QED
  BY <1>2, <1>3

LEMMA MergeLockPreserves ==
    ASSUME Inv, NEW q \in Reqs, MergeLock(q)
    PROVE  Inv'
<1>1. TypeOK /\ Local(q)
  BY DEF Inv
<1> DEFINE p == Post(q)
           v == IF row[p] = NoRow THEN Unset ELSE row[p]
<1>2. /\ UNCHANGED <<dbVars, fsVars, job, seen, held, histVars>>
      /\ pc[q] = "describe" /\ Goto(q, "absorb") /\ Stage(q, p, v)
  BY DEF MergeLock
<1>3. Op(q) \in Merging /\ p \in Posts /\ seen[q][p] # Unset
  BY <1>1, <1>2, OpAt DEF Local, JobKnown, Progress, HasRead, Merging
<1>4. v \in Content \cup {NoRow, Unset}
  BY <1>1, <1>3 DEF TypeOK
<1> HIDE DEF p, v
<1>5. /\ TypeOK' /\ Others(q) /\ Acquires(q)
      /\ pc'[q] = "absorb" /\ stage'[q][p] = v
      /\ \A o \in Posts \ {p} : stage'[q][o] = stage[q][o]
      /\ Op(q)' = Op(q) /\ Post(q)' = Post(q) /\ From(q)' = From(q)
      /\ Upload(q)' = Upload(q) /\ Converted(q)' = Converted(q)
  BY <1>2, <1>3, <1>4, WriteSteps DEF Labels
<1>6. JobKnown(q)' /\ Progress(q)' /\ Fresh(q)' /\ Pending(q)'
  BY <1>1, <1>2, <1>3, <1>5
     DEF Local, JobKnown, LabelsOf, Progress, HasRead, HasChanged, Fresh, Pending, Creating,
         Merging, Conversion, dbVars, histVars
<1>7. Written(q)' /\ Deleted(q)' /\ UnderWay(q)'
  BY <1>1, <1>2, <1>3, <1>5
     DEF Local, Written, Fresh, Deleted, UnderWay, ReplacesContent, Converts, Swaps,
         Merging, Conversion, histVars, dbVars, p, v
<1> QED
  BY <1>2, <1>5, <1>6, <1>7, QuietPreserves DEF dbVars, fsVars, Local

LEMMA MergeAbsorbPreserves ==
    ASSUME Inv, NEW q \in Reqs, MergeAbsorb(q)
    PROVE  Inv'
<1>1. TypeOK /\ Local(q)
  BY DEF Inv
<1> DEFINE s == From(q)
           v == IF row[s] = NoRow THEN Unset ELSE NoRow
           label == IF Op(q) = "replace" THEN "swap1"
                    ELSE IF DeleteSourceFiles THEN "purge" ELSE "commit"
<1>2. /\ UNCHANGED <<dbVars, fsVars, job, seen, held, histVars>>
      /\ pc[q] = "absorb" /\ Goto(q, label) /\ Stage(q, s, v)
  BY DEF MergeAbsorb
<1>3. Op(q) \in Merging /\ s \in Posts /\ seen[q][s] # Unset /\ label \in Labels
  BY <1>1, <1>2, OpAt DEF Local, JobKnown, Progress, HasRead, Merging, Labels
<1>4. v \in Content \cup {NoRow, Unset}
  OBVIOUS
<1> HIDE DEF s, v, label
<1>5. /\ TypeOK' /\ Others(q) /\ Acquires(q)
      /\ pc'[q] = label /\ stage'[q][s] = v
      /\ \A o \in Posts \ {s} : stage'[q][o] = stage[q][o]
      /\ Op(q)' = Op(q) /\ Post(q)' = Post(q) /\ From(q)' = From(q)
      /\ Upload(q)' = Upload(q) /\ Converted(q)' = Converted(q)
  BY <1>2, <1>3, <1>4, WriteSteps
<1>6. JobKnown(q)' /\ Progress(q)' /\ Fresh(q)' /\ Pending(q)'
  BY <1>1, <1>2, <1>3, <1>5
     DEF Local, JobKnown, LabelsOf, Progress, HasRead, HasChanged, Fresh, Pending, Creating,
         Merging, Conversion, dbVars, histVars, label
<1>7. Written(q)' /\ Deleted(q)' /\ UnderWay(q)'
  BY <1>1, <1>2, <1>3, <1>5
     DEF Local, Written, Deleted, Gone, UnderWay, ReplacesContent, Converts, Swaps,
         Merging, Conversion, histVars, dbVars, s, v, label
<1> QED
  BY <1>2, <1>5, <1>6, <1>7, QuietPreserves DEF dbVars, fsVars, Local

LEMMA MergeMetaPreserves ==
    ASSUME Inv, NEW q \in Reqs, MergeMeta(q)
    PROVE  Inv'
<1>1. TypeOK /\ Local(q)
  BY DEF Inv
<1>2. CASE RollBack(q)
  BY <1>1, <1>2, RollBackPreserves DEF MergeMeta, dbVars, fsVars, TypeOK
<1>3. CASE ~RollBack(q)
  <2> DEFINE p == Post(q)
             new == seen[q][From(q)]
             v == IF row[p] = NoRow THEN Unset ELSE new
             label == IF DeleteSourceFiles THEN "purge" ELSE "commit"
  <2>1. /\ UNCHANGED <<dbVars, fsVars, job, seen, held, histVars>>
        /\ pc[q] = "meta" /\ Goto(q, label) /\ Stage(q, p, v)
    BY <1>3 DEF MergeMeta
  <2>2. /\ Op(q) = "replace" /\ label \in Labels
        /\ p \in Posts /\ From(q) \in Posts /\ From(q) # p
        /\ seen[q][p] # Unset /\ new # Unset /\ p \in dirty[q]
    BY <1>1, <2>1, OpAt
       DEF Local, JobKnown, Progress, HasRead, HasChanged, Merging, Labels
  <2>3. v \in Content \cup {NoRow, Unset} /\ new \in Content
    BY <1>1, <2>2 DEF TypeOK
  <2> HIDE DEF p, v, label, new
  <2>4. /\ TypeOK' /\ Others(q) /\ Acquires(q)
        /\ pc'[q] = label /\ stage'[q][p] = v
        /\ \A o \in Posts \ {p} : stage'[q][o] = stage[q][o]
        /\ Op(q)' = Op(q) /\ Post(q)' = Post(q) /\ From(q)' = From(q)
        /\ Upload(q)' = Upload(q) /\ Converted(q)' = Converted(q)
    BY <2>1, <2>2, <2>3, WriteSteps
  <2>5. JobKnown(q)' /\ Progress(q)' /\ Fresh(q)' /\ Pending(q)'
    BY <1>1, <2>1, <2>2, <2>4
       DEF Local, JobKnown, LabelsOf, Progress, HasRead, HasChanged, Fresh, Pending, Creating,
           Merging, Conversion, dbVars, histVars, label
  <2>6. Written(q)' /\ Deleted(q)'
    BY <1>1, <2>1, <2>2, <2>4
       DEF Local, Written, Deleted, Gone, Merging, histVars, dbVars, label
  <2>7. UnderWay(q)'
    BY <1>1, <2>1, <2>2, <2>4
       DEF Local, UnderWay, ReplacesContent, Converts, Swaps, Conversion, histVars, dbVars,
           fsVars, p, v, new, label
  <2> QED
    BY <2>1, <2>4, <2>5, <2>6, <2>7, QuietPreserves DEF dbVars, fsVars, Local
<1> QED
  BY <1>2, <1>3

-----------------------------------------------------------------------------
(* Steps that change files.                                                  *)

Directory == [Posts -> [Mimes -> Pics \cup {NoFile}]]

\* Writing one file of one post.
LEMMA WriteFile ==
    ASSUME NEW f \in Directory, NEW p \in Posts, NEW m \in Mimes, NEW v \in Pics \cup {NoFile}
    PROVE  /\ [f EXCEPT ![p][m] = v] \in Directory
           /\ [f EXCEPT ![p][m] = v][p][m] = v
           /\ \A n \in Mimes \ {m} : [f EXCEPT ![p][m] = v][p][n] = f[p][n]
           /\ \A o \in Posts \ {p} : [f EXCEPT ![p][m] = v][o] = f[o]
<1> DEFINE D == [Mimes -> Pics \cup {NoFile}]
<1>1. f \in [Posts -> D]
  BY DEF Directory
<1>2. /\ [f[p] EXCEPT ![m] = v] \in D
      /\ [f[p] EXCEPT ![m] = v][m] = v
      /\ \A n \in Mimes \ {m} : [f[p] EXCEPT ![m] = v][n] = f[p][n]
  BY <1>1
<1>3. [f EXCEPT ![p][m] = v] = [f EXCEPT ![p] = [f[p] EXCEPT ![m] = v]]
  OBVIOUS
<1> HIDE DEF D
<1>4. [f EXCEPT ![p][m] = v] \in [Posts -> D]
  BY <1>1, <1>2, <1>3
<1>5. [f EXCEPT ![p][m] = v][p] = [f[p] EXCEPT ![m] = v]
  BY <1>1, <1>3
<1> QED
  BY <1>1, <1>2, <1>3, <1>4, <1>5 DEF D, Directory

\* A step of q that changes the files of posts in S, which it may touch.
LEMMA TouchSteps ==
    ASSUME Inv, NEW q \in Reqs, NEW S \in SUBSET Posts, NEW label \in Labels,
           Touch(q, S), Goto(q, label), UNCHANGED <<dbVars, job, seen, stage, stale>>,
           file' \in Directory, temp' \subseteq Tokens, held' \in [Reqs -> Pics \cup {NoFile}],
           \A r \in Reqs \ {q} : held'[r] = held[r],
           \A p \in Posts \ S : file'[p] = file[p],
           \A p \in S : Mine(q, p)
    PROVE  /\ TypeOK' /\ Env(q)
           /\ pc'[q] = label /\ dirty'[q] = dirty[q] \cup S
           /\ Op(q)' = Op(q) /\ Post(q)' = Post(q) /\ From(q)' = From(q)
           /\ Upload(q)' = Upload(q)
           /\ torn \subseteq torn'
           /\ \A p \in S : p \notin torn' => \A o \in S :
                 o \notin torn /\ o \notin stale[q] /\ \A r \in Reqs \ {q} : o \notin dirty[r]
<1>1. TypeOK
  BY DEF Inv
<1>2. dirty' \in [Reqs -> SUBSET Posts] /\ torn' \subseteq Posts
  BY <1>1, TouchType
<1>3. pc' \in [Reqs -> Labels] /\ pc'[q] = label /\ \A r \in Reqs \ {q} : pc'[r] = pc[r]
  BY <1>1 DEF Goto, TypeOK
<1>4. dirty'[q] = dirty[q] \cup S /\ \A r \in Reqs \ {q} : dirty'[r] = dirty[r]
  BY <1>1 DEF Touch, TypeOK
<1>5. torn \subseteq torn' /\ \A p \in S : p \notin torn' =>
          \A o \in S : o \notin torn /\ o \notin stale[q] /\ \A r \in Reqs \ {q} : o \notin dirty[r]
  BY DEF Touch, Clash
<1>6. TypeOK'
  BY <1>1, <1>2, <1>3 DEF TypeOK, Directory, dbVars
<1>7. Op(q)' = Op(q) /\ Post(q)' = Post(q) /\ From(q)' = From(q) /\ Upload(q)' = Upload(q)
  BY DEF Op, Post, From, Upload
<1>8. Others(q) /\ Grows
  BY <1>3, <1>4, <1>5 DEF Others, Grows, dbVars
<1>9. FilesOf(q) /\ RowsOf(q) /\ Acquires(q)
  BY <1>5, <1>7 DEF FilesOf, RowsOf, Acquires, Mine, dbVars
<1>10. Dirtied(q) /\ Serves(q)
  BY <1>4, <1>5 DEF Dirtied, Serves, dbVars
<1> QED
  BY <1>3, <1>4, <1>5, <1>6, <1>7, <1>8, <1>9, <1>10 DEF Env

\* The same for one post.
LEMMA TouchOne ==
    ASSUME Inv, NEW q \in Reqs, NEW p \in Posts, NEW label \in Labels, Mine(q, p),
           Touch(q, {p}), Goto(q, label), UNCHANGED <<dbVars, job, seen, stage, held, stale>>,
           file' \in Directory, temp' \subseteq Tokens,
           \A o \in Posts \ {p} : file'[o] = file[o]
    PROVE  /\ TypeOK' /\ Env(q)
           /\ pc'[q] = label /\ dirty'[q] = dirty[q] \cup {p}
           /\ Op(q)' = Op(q) /\ Post(q)' = Post(q) /\ From(q)' = From(q)
           /\ Upload(q)' = Upload(q) /\ torn \subseteq torn'
           /\ p \notin torn' =>
                 p \notin torn /\ p \notin stale[q] /\ \A r \in Reqs \ {q} : p \notin dirty[r]
<1> DEFINE S == {p}
<1>1. S \in SUBSET Posts /\ p \in S /\ Touch(q, S)
  OBVIOUS
<1>2. \A o \in S : Mine(q, o)
  OBVIOUS
<1>3. \A o \in Posts \ S : file'[o] = file[o]
  OBVIOUS
<1>4. dirty[q] \cup S = dirty[q] \cup {p}
  OBVIOUS
<1>5. held' \in [Reqs -> Pics \cup {NoFile}] /\ \A r \in Reqs \ {q} : held'[r] = held[r]
  BY DEF Inv, TypeOK
<1>6. UNCHANGED <<dbVars, job, seen, stage, stale>>
  OBVIOUS
<1> HIDE DEF S
<1> QED
  BY <1>1, <1>2, <1>3, <1>4, <1>5, <1>6, TouchSteps

LEMMA FillPreserves ==
    ASSUME Inv, NEW q \in Reqs, Fill(q)
    PROVE  Inv'
<1>1. TypeOK /\ Local(q)
  BY DEF Inv
<1>2. CASE job[q].token \notin temp
  BY <1>1, <1>2, RollBackPreserves DEF Fill, dbVars, fsVars, TypeOK
<1>3. CASE job[q].token \in temp
  <2> DEFINE p == Post(q)
             up == Upload(q)
             label == IF Op(q) = "create" THEN "commit" ELSE "save"
  <2>1. /\ UNCHANGED <<dbVars, job, seen, stage, held, stale>>
        /\ pc[q] = "fill" /\ Goto(q, label) /\ Touch(q, {p})
        /\ temp' = temp \ {job[q].token} /\ file' = [file EXCEPT ![p][up.mime] = up.pic]
    BY <1>3 DEF Fill
  <2>2. /\ Op(q) \in {"create", "update"} /\ p \in Posts /\ Mine(q, p)
        /\ up \in Content /\ up.mime \in Mimes /\ up.pic \in Pics /\ label \in Labels
    <3>1. Op(q) \in {"create", "update"}
      BY <1>1, <2>1, OpAt DEF Local
    <3>2. p \in Posts
      BY <1>1, <2>1, <3>1 DEF Local, JobKnown, TypeOK, Jobs, Post
    <3>3. up \in Content
      BY <1>1, <3>1, ConstantAssumption DEF Local, JobKnown, Upload
    <3>4. Mine(q, p)
      BY <1>1, <2>1, <3>1, <3>2 DEF Local, Progress, HasRead, Mine
    <3> QED
      BY <3>1, <3>2, <3>3, <3>4 DEF Labels, Content
  <2>3. /\ file' \in Directory /\ file'[p][up.mime] = up.pic
        /\ \A o \in Posts \ {p} : file'[o] = file[o]
    BY <1>1, <2>1, <2>2, WriteFile DEF TypeOK, Directory
  <2> HIDE DEF p, up, label
  <2>4. /\ TypeOK' /\ Env(q) /\ pc'[q] = label /\ dirty'[q] = dirty[q] \cup {p}
        /\ Op(q)' = Op(q) /\ Post(q)' = Post(q) /\ From(q)' = From(q)
        /\ Upload(q)' = Upload(q) /\ torn \subseteq torn'
    <3>1. temp' \subseteq Tokens /\ UNCHANGED <<dbVars, job, seen, stage, held, stale>>
      BY <1>1, <2>1, <2>2, <2>3 DEF TypeOK
    <3> QED
      BY <2>1, <2>2, <2>3, <3>1, TouchOne
  <2>5. JobKnown(q)' /\ Progress(q)' /\ Fresh(q)'
    BY <1>1, <2>1, <2>2, <2>4
       DEF Local, JobKnown, LabelsOf, Progress, HasRead, HasChanged, Fresh,
           Merging, Conversion, dbVars, p, label
  <2>6. Pending(q)'
    <3> SUFFICES ASSUME Op(q) = "create", Post(q) # Unset
                 PROVE  Pending(q)'
      BY <2>4 DEF Pending, Creating
    <3>1. \A r \in Reqs \ {q} : Op(r)' = Op(r) /\ Post(r)' = Post(r) /\ seen'[r] = seen[r]
      BY <2>1 DEF Op, Post
    <3> QED
      BY <1>1, <2>1, <2>3, <2>4, <3>1 DEF Local, Pending, Creating, dbVars, p, up
  <2>7. Written(q)' /\ Deleted(q)'
    BY <1>1, <2>1, <2>2, <2>4 DEF Local, Written, Deleted, Merging, dbVars
  <2>8. UnderWay(q)'
    BY <2>2, <2>3, <2>4
       DEF UnderWay, ReplacesContent, Converts, Swaps, Conversion, p, up, label
  <2> QED
    BY <2>4, <2>5, <2>6, <2>7, <2>8, Preserves DEF Local
<1> QED
  BY <1>2, <1>3

LEMMA UnlinkPreserves ==
    ASSUME Inv, NEW q \in Reqs, Unlink(q)
    PROVE  Inv'
<1>1. TypeOK /\ Local(q)
  BY DEF Inv
<1> DEFINE p == Post(q)
           old == seen[q][p].mime
           label == IF Op(q) = "update" THEN "fill" ELSE "commit"
<1>2. /\ UNCHANGED <<dbVars, temp, job, seen, stage, held, stale>>
      /\ pc[q] = "unlink" /\ Goto(q, label) /\ Touch(q, {p})
      /\ file' = [file EXCEPT ![p][old] = NoFile]
  BY DEF Unlink
<1>3. Op(q) \in {"update", "convert"} /\ p \in Posts /\ seen[q][p] # Unset /\ label \in Labels
  BY <1>1, <1>2, OpAt DEF Local, JobKnown, Progress, HasRead, Labels
<1>4. old \in Mimes /\ Mine(q, p) /\ (Op(q) = "convert" => old # Jxl)
  BY <1>1, <1>3 DEF TypeOK, Content, Mine, Local, JobKnown, Conversion
<1>5. /\ file' \in Directory
      /\ \A m \in Mimes \ {old} : file'[p][m] = file[p][m]
      /\ \A o \in Posts \ {p} : file'[o] = file[o]
  BY <1>1, <1>2, <1>3, <1>4, WriteFile DEF TypeOK, Directory
<1> HIDE DEF p, old, label
<1>6. /\ TypeOK' /\ Env(q) /\ pc'[q] = label /\ dirty'[q] = dirty[q] \cup {p}
      /\ Op(q)' = Op(q) /\ Post(q)' = Post(q) /\ From(q)' = From(q)
      /\ Upload(q)' = Upload(q) /\ torn \subseteq torn'
      /\ p \notin torn' => p \notin torn /\ p \notin stale[q]
  <2>1. temp' \subseteq Tokens /\ UNCHANGED <<dbVars, job, seen, stage, held, stale>>
    BY <1>1, <1>2, <1>3, <1>4, <1>5 DEF TypeOK
  <2> QED
    BY <1>2, <1>3, <1>4, <1>5, <2>1, TouchOne
<1>7. JobKnown(q)' /\ Progress(q)' /\ Fresh(q)' /\ Pending(q)'
  BY <1>1, <1>2, <1>3, <1>6
     DEF Local, JobKnown, LabelsOf, Progress, HasRead, HasChanged, Fresh, Pending, Creating,
         Merging, Conversion, dbVars, p, label
<1>8. Written(q)' /\ Deleted(q)'
  BY <1>1, <1>2, <1>3, <1>6 DEF Local, Written, Deleted, Merging, dbVars
<1>9. UnderWay(q)'
  <2>1. Converted(q)' = Converted(q) /\ Jxl \in Mimes
    BY <1>2, ConstantAssumption DEF Converted
  <2> QED
    BY <1>1, <1>2, <1>3, <1>4, <1>5, <1>6, <2>1
       DEF Local, UnderWay, ReplacesContent, Converts, Swaps, Conversion, dbVars, p, label
<1> QED
  BY <1>6, <1>7, <1>8, <1>9, Preserves DEF Local

LEMMA EncodePreserves ==
    ASSUME Inv, NEW q \in Reqs, Encode(q)
    PROVE  Inv'
<1>1. TypeOK /\ Local(q) /\ Settled
  BY DEF Inv
<1> DEFINE p == Post(q)
<1>2. /\ UNCHANGED <<dbVars, temp, job, seen, stage, held, stale>>
      /\ pc[q] = "encode" /\ Goto(q, "row") /\ Touch(q, {p})
      /\ file' = [file EXCEPT ![p][Jxl] = held[q]]
  BY DEF Encode
<1>3. /\ Op(q) \in Conversion /\ p \in Posts /\ seen[q][p] # Unset /\ Mine(q, p)
      /\ held[q] \in Pics /\ p \notin dirty[q] /\ seen[q][p].mime # Jxl
  BY <1>1, <1>2, OpAt
     DEF Local, JobKnown, Progress, HasRead, HasChanged, Conversion, Merging, Mine
<1>4. /\ file' \in Directory /\ file'[p][Jxl] = held[q]
      /\ \A m \in Mimes \ {Jxl} : file'[p][m] = file[p][m]
      /\ \A o \in Posts \ {p} : file'[o] = file[o]
  BY <1>1, <1>2, <1>3, WriteFile, ConstantAssumption DEF TypeOK, Directory
<1> HIDE DEF p
<1>5. /\ TypeOK' /\ Env(q) /\ pc'[q] = "row" /\ dirty'[q] = dirty[q] \cup {p}
      /\ Op(q)' = Op(q) /\ Post(q)' = Post(q) /\ From(q)' = From(q)
      /\ Upload(q)' = Upload(q) /\ torn \subseteq torn'
      /\ p \notin torn' =>
            p \notin torn /\ p \notin stale[q] /\ \A r \in Reqs \ {q} : p \notin dirty[r]
  <2>1. temp' \subseteq Tokens /\ UNCHANGED <<dbVars, job, seen, stage, held, stale>>
    BY <1>1, <1>2, <1>3, <1>4 DEF TypeOK
  <2> QED
    BY <1>2, <1>3, <1>4, <2>1, TouchOne DEF Labels
<1>6. JobKnown(q)' /\ Progress(q)' /\ Fresh(q)' /\ Pending(q)'
  BY <1>1, <1>2, <1>3, <1>5
     DEF Local, JobKnown, LabelsOf, Progress, HasRead, HasChanged, Fresh, Pending, Creating,
         Merging, Conversion, dbVars, p
<1>7. Written(q)' /\ Deleted(q)'
  BY <1>1, <1>2, <1>3, <1>5 DEF Local, Written, Deleted, Merging, Conversion, dbVars
<1>8. ASSUME p \notin torn', row[p] # NoRow
      PROVE  row'[p] # NoRow /\ file'[p][row'[p].mime] = row'[p].pic
  <2>1. Served(p) /\ row[p] = seen[q][p] /\ row[p] \in Content
    BY <1>1, <1>2, <1>3, <1>5, <1>8 DEF Local, Fresh, Settled, Conversion, TypeOK
  <2>2. row' = row /\ row[p].mime \in Mimes \ {Jxl} /\ file[p][row[p].mime] = row[p].pic
    BY <1>2, <1>3, <2>1 DEF dbVars, Content, Served
  <2>3. file'[p][row[p].mime] = row[p].pic
    BY <1>4, <2>2
  <2> QED
    BY <1>8, <2>2, <2>3
<1>9. UnderWay(q)'
  BY <1>2, <1>3, <1>4, <1>5, <1>8
     DEF UnderWay, ReplacesContent, Converts, Swaps, Served, Conversion, dbVars, p
<1> QED
  BY <1>5, <1>6, <1>7, <1>9, Preserves DEF Local

LEMMA MergePurgePreserves ==
    ASSUME Inv, NEW q \in Reqs, MergePurge(q)
    PROVE  Inv'
<1>1. TypeOK /\ Local(q)
  BY DEF Inv
<1> DEFINE s == From(q)
           old == seen[q][IF Op(q) = "replace" THEN Post(q) ELSE s].mime
<1>2. /\ UNCHANGED <<dbVars, temp, job, seen, stage, held, stale>>
      /\ pc[q] = "purge" /\ Op(q) \in Merging /\ Goto(q, "commit") /\ Touch(q, {s})
      /\ file' = [file EXCEPT ![s][old] = NoFile]
  BY DEF MergePurge, Merging
<1>3. /\ s \in Posts /\ seen[q][s] # Unset /\ s # Post(q) /\ Mine(q, s)
      /\ Post(q) \in Posts /\ seen[q][Post(q)] # Unset
  BY <1>1, <1>2 DEF Local, JobKnown, Progress, HasRead, Merging, Mine
<1>4. old \in Mimes
  BY <1>1, <1>3 DEF TypeOK, Content
<1>5. /\ file' \in Directory /\ \A o \in Posts \ {s} : file'[o] = file[o]
  BY <1>1, <1>2, <1>3, <1>4, WriteFile DEF TypeOK, Directory
<1> HIDE DEF s, old
<1>6. /\ TypeOK' /\ Env(q) /\ pc'[q] = "commit" /\ dirty'[q] = dirty[q] \cup {s}
      /\ Op(q)' = Op(q) /\ Post(q)' = Post(q) /\ From(q)' = From(q)
      /\ Upload(q)' = Upload(q) /\ torn \subseteq torn'
  <2>1. temp' \subseteq Tokens /\ UNCHANGED <<dbVars, job, seen, stage, held, stale>>
    BY <1>1, <1>2, <1>3, <1>4, <1>5 DEF TypeOK
  <2> QED
    BY <1>2, <1>3, <1>4, <1>5, <2>1, TouchOne DEF Labels
<1>7. JobKnown(q)' /\ Fresh(q)' /\ Pending(q)'
  BY <1>1, <1>2, <1>3, <1>6
     DEF Local, JobKnown, LabelsOf, Fresh, Pending, Creating, Merging, Conversion, dbVars, s
<1>8. Progress(q)'
  <2>1. DeleteSourceFiles
    BY <1>1, <1>2 DEF Local, JobKnown
  <2> QED
    BY <1>1, <1>2, <1>3, <1>6, <2>1
       DEF Local, Progress, HasRead, HasChanged, Merging, Conversion, s
<1>9. Written(q)' /\ Deleted(q)'
  BY <1>1, <1>2, <1>3, <1>6 DEF Local, Written, Deleted, Gone, Merging, Conversion, dbVars
<1>10. UnderWay(q)'
  BY <1>1, <1>2, <1>3, <1>5, <1>6
     DEF Local, UnderWay, ReplacesContent, Converts, Swaps, Conversion, Merging, dbVars, s
<1> QED
  BY <1>6, <1>7, <1>8, <1>9, <1>10, Preserves DEF Local

\* What a move between the two posts of a merge keeps, whichever of the moves it is.
LEMMA SwapSteps ==
    ASSUME Inv, NEW q \in Reqs, Op(q) = "replace", NEW label \in Labels,
           pc[q] \in {"swap1", "swap2", "swap3"}, label \in {"swap2", "swap3", "meta"},
           Touch(q, {Post(q), From(q)}), Goto(q, label),
           UNCHANGED <<dbVars, temp, job, seen, stage, stale>>,
           file' \in Directory, held' \in [Reqs -> Pics \cup {NoFile}],
           \A r \in Reqs \ {q} : held'[r] = held[r],
           \A o \in Posts \ {Post(q), From(q)} : file'[o] = file[o],
           Swaps(q)' \/ Post(q) \in torn' \/ row[Post(q)] = NoRow
    PROVE  Inv'
<1> DEFINE p == Post(q)  s == From(q)  S == {p, s}
<1>1. TypeOK /\ Local(q)
  BY DEF Inv
<1>2. /\ p \in Posts /\ s \in Posts /\ p # s
      /\ seen[q][p] # Unset /\ seen[q][s] # Unset
  BY <1>1 DEF Local, JobKnown, Progress, HasRead, Merging
<1>3. /\ S \in SUBSET Posts /\ Touch(q, S) /\ \A o \in S : Mine(q, o)
      /\ \A o \in Posts \ S : file'[o] = file[o]
  BY <1>2 DEF Mine
<1>4. temp' \subseteq Tokens /\ UNCHANGED <<dbVars, job, seen, stage, stale>>
  BY <1>1 DEF TypeOK
<1>5. p \in S /\ s \in S
  OBVIOUS
<1>6. \A o \in Posts : o \in S <=> o \in {Post(q), From(q)}
  OBVIOUS
<1> HIDE DEF S
<1>7. /\ TypeOK' /\ Env(q)
      /\ pc'[q] = label /\ dirty'[q] = dirty[q] \cup S
      /\ Op(q)' = Op(q) /\ Post(q)' = Post(q) /\ From(q)' = From(q)
      /\ Upload(q)' = Upload(q) /\ torn \subseteq torn'
  BY <1>3, <1>4, TouchSteps
<1> HIDE DEF p, s
<1>8. JobKnown(q)' /\ Fresh(q)' /\ Pending(q)'
  BY <1>1, <1>4, <1>7
     DEF Local, JobKnown, LabelsOf, Fresh, Pending, Creating, Merging, Conversion, dbVars
<1>9. Progress(q)'
  BY <1>1, <1>4, <1>6, <1>7
     DEF Local, Progress, HasRead, HasChanged, Merging, Conversion
<1>10. Written(q)' /\ Deleted(q)'
  BY <1>1, <1>4, <1>7 DEF Local, Written, Deleted, Gone, Merging, dbVars
<1>11. UnderWay(q)'
  BY <1>4, <1>7 DEF UnderWay, ReplacesContent, Converts, Conversion, dbVars
<1> QED
  BY <1>7, <1>8, <1>9, <1>10, <1>11, Preserves DEF Local

LEMMA SwapMovePreserves ==
    ASSUME Inv, NEW q \in Reqs, NEW label \in {"swap1", "swap2", "swap3"}, SwapMove(q, label)
    PROVE  Inv'
<1> DEFINE p == Post(q)   mp == seen[q][p].mime
           s == From(q)   ms == seen[q][s].mime
<1>1. TypeOK /\ Local(q) /\ Settled
  BY DEF Inv
<1>2. pc[q] = label /\ Op(q) = "replace"
  BY <1>1, OpAt DEF SwapMove, Local
<1>3. /\ p \in Posts /\ s \in Posts /\ p # s
      /\ seen[q][p] \in Content /\ seen[q][s] \in Content /\ mp \in Mimes /\ ms \in Mimes
  BY <1>1, <1>2 DEF Local, JobKnown, Progress, HasRead, Merging, TypeOK, Content
<1>4. /\ file \in Directory /\ held \in [Reqs -> Pics \cup {NoFile}]
      /\ file[s][ms] \in Pics \cup {NoFile} /\ file[p][mp] \in Pics \cup {NoFile}
      /\ NoFile \in Pics \cup {NoFile}
  BY <1>1, <1>3 DEF TypeOK, Directory
<1>5. CASE RollBack(q) /\ UNCHANGED <<dbVars, fsVars>>
  BY <1>1, <1>5, RollBackPreserves DEF dbVars, fsVars, TypeOK
<1>6. ASSUME Touch(q, {p, s}), p \notin torn'
      PROVE  /\ p \notin torn /\ s \notin torn /\ s \notin stale[q]
             /\ \A r \in Reqs \ {q} : s \notin dirty[r]
  BY <1>6 DEF Touch, Clash
<1>7. ASSUME label = "swap1", Touch(q, {p, s}), p \notin torn'
      PROVE  file[s][ms] = seen[q][s].pic
  <2>1. /\ s \notin torn /\ s \notin stale[q] /\ seen[q][s] # Unset
        /\ \A r \in Reqs : s \notin dirty[r]
    BY <1>1, <1>2, <1>3, <1>6, <1>7
       DEF Local, Progress, HasRead, HasChanged, Merging, Conversion
  <2>2. row[s] = seen[q][s] /\ row[s] # NoRow
    BY <1>1, <1>2, <1>3, <1>7, <2>1, ConstantAssumption DEF Local, Fresh
  <2> QED
    BY <1>1, <1>3, <2>1, <2>2 DEF Settled, Served
<1>8. ASSUME Touch(q, {p, s}), p \notin torn', row[p] # NoRow
      PROVE  Swaps(q)
  BY <1>1, <1>2, <1>3, <1>6, <1>8 DEF Local, UnderWay
<1>9. ASSUME UNCHANGED job
      PROVE  Op(q)' = "replace" /\ Post(q)' = p /\ From(q)' = s
  BY <1>2, <1>9 DEF Op, Post, From
<1> HIDE DEF p, s, mp, ms
<1>10. CASE /\ label = "swap1" /\ mp = ms
            /\ held' = [held EXCEPT ![q] = file[s][ms]]
            /\ file' = [file EXCEPT ![s][ms] = NoFile]
            /\ Touch(q, {p, s}) /\ Goto(q, "swap2")
            /\ UNCHANGED <<dbVars, temp, job, seen, stage, stale>>
  <2>1. file' \in Directory /\ \A o \in Posts \ {s} : file'[o] = file[o]
    BY <1>3, <1>4, <1>10, WriteFile DEF Directory
  <2>2. /\ held' \in [Reqs -> Pics \cup {NoFile}] /\ held'[q] = file[s][ms]
        /\ \A r \in Reqs \ {q} : held'[r] = held[r]
    BY <1>4, <1>10
  <2>3. pc'[q] = "swap2"
    BY <1>1, <1>10 DEF Goto, TypeOK
  <2>4. Swaps(q)' \/ p \in torn'
    BY <1>2, <1>7, <1>9, <1>10, <2>2, <2>3 DEF Swaps, p, s, mp, ms
  <2> QED
    BY <1>2, <1>10, <2>1, <2>2, <2>4, SwapSteps DEF Labels, p, s
<1>11. CASE /\ label = "swap1" /\ mp # ms
            /\ file' = [file EXCEPT ![p][ms] = file[s][ms], ![s][ms] = NoFile]
            /\ Touch(q, {p, s}) /\ Goto(q, "swap2")
            /\ UNCHANGED <<dbVars, temp, job, seen, stage, stale, held>>
  <2> DEFINE f == [file EXCEPT ![p][ms] = file[s][ms]]
  <2>1. f \in Directory /\ f[p][ms] = file[s][ms] /\ \A o \in Posts \ {p} : f[o] = file[o]
    BY <1>3, <1>4, WriteFile DEF Directory
  <2>2. file' = [f EXCEPT ![s][ms] = NoFile]
    BY <1>11
  <2> HIDE DEF f
  <2>3. /\ file' \in Directory /\ \A o \in Posts \ {p, s} : file'[o] = file[o]
        /\ file'[p][ms] = file[s][ms]
    BY <1>3, <1>4, <2>1, <2>2, WriteFile DEF Directory
  <2>4. held' \in [Reqs -> Pics \cup {NoFile}] /\ \A r \in Reqs \ {q} : held'[r] = held[r]
    BY <1>4, <1>11
  <2>5. pc'[q] = "swap2"
    BY <1>1, <1>11 DEF Goto, TypeOK
  <2>6. Swaps(q)' \/ p \in torn'
    BY <1>2, <1>7, <1>9, <1>11, <2>3, <2>5 DEF Swaps, p, s, mp, ms
  <2> QED
    BY <1>2, <1>11, <2>3, <2>4, <2>6, SwapSteps DEF Labels, p, s
<1>12. CASE /\ label = "swap2"
            /\ file' = [file EXCEPT ![s][mp] = file[p][mp], ![p][mp] = NoFile]
            /\ Touch(q, {p, s}) /\ Goto(q, IF mp = ms THEN "swap3" ELSE "meta")
            /\ UNCHANGED <<dbVars, temp, job, seen, stage, stale, held>>
  <2> DEFINE f == [file EXCEPT ![s][mp] = file[p][mp]]
             next == IF mp = ms THEN "swap3" ELSE "meta"
  <2>1. f \in Directory /\ f[p] = file[p] /\ \A o \in Posts \ {s} : f[o] = file[o]
    BY <1>3, <1>4, WriteFile DEF Directory
  <2>2. file' = [f EXCEPT ![p][mp] = NoFile]
    BY <1>12
  <2> HIDE DEF f
  <2>3. /\ file' \in Directory /\ \A o \in Posts \ {p, s} : file'[o] = file[o]
        /\ \A m \in Mimes \ {mp} : file'[p][m] = file[p][m]
    BY <1>3, <1>4, <2>1, <2>2, WriteFile DEF Directory
  <2>4. held' \in [Reqs -> Pics \cup {NoFile}] /\ \A r \in Reqs \ {q} : held'[r] = held[r]
    BY <1>4, <1>12
  <2>5. pc'[q] = next /\ next \in Labels /\ next \in {"swap2", "swap3", "meta"} /\ Goto(q, next)
    BY <1>1, <1>12 DEF Goto, TypeOK, Labels
  <2>6. Swaps(q)' \/ p \in torn' \/ row[p] = NoRow
    BY <1>2, <1>3, <1>8, <1>9, <1>12, <2>3, <2>5 DEF Swaps, p, s, mp, ms
  <2> QED
    BY <1>2, <1>12, <2>3, <2>4, <2>5, <2>6, SwapSteps DEF p, s
<1>13. CASE /\ label = "swap3"
            /\ file' = [file EXCEPT ![p][ms] = held[q]]
            /\ held' = [held EXCEPT ![q] = NoFile]
            /\ Touch(q, {p, s}) /\ Goto(q, "meta")
            /\ UNCHANGED <<dbVars, temp, job, seen, stage, stale>>
  <2>1. /\ file' \in Directory /\ \A o \in Posts \ {p} : file'[o] = file[o]
        /\ file'[p][ms] = held[q]
    BY <1>3, <1>4, <1>13, WriteFile DEF Directory
  <2>2. held' \in [Reqs -> Pics \cup {NoFile}] /\ \A r \in Reqs \ {q} : held'[r] = held[r]
    BY <1>4, <1>13
  <2>3. pc'[q] = "meta"
    BY <1>1, <1>13 DEF Goto, TypeOK
  <2>4. Swaps(q)' \/ p \in torn' \/ row[p] = NoRow
    BY <1>2, <1>8, <1>9, <1>13, <2>1, <2>3 DEF Swaps, p, s, mp, ms
  <2> QED
    BY <1>2, <1>13, <2>1, <2>2, <2>4, SwapSteps DEF Labels, p, s
<1> QED
  BY <1>5, <1>10, <1>11, <1>12, <1>13 DEF SwapMove, p, s, mp, ms

\* A last step of q that removes one file of the post it is at, and ends.
LEMMA LastSteps ==
    ASSUME Inv, NEW q \in Reqs, NEW p \in Posts, NEW m \in Mimes, Mine(q, p), Leave(q),
           file' = [file EXCEPT ![p][m] = NoFile], UNCHANGED <<dbVars, temp>>,
           stale' = [stale EXCEPT ![q] = {}], torn \subseteq torn', torn' \subseteq Posts,
           p \in torn' \/ row[p] = NoRow \/ \A r \in Reqs \ {q} : p \notin dirty[r],
           p \in torn' \/ row[p] = NoRow \/ (Served(p) /\ row[p].mime # m),
           dirty[q] \subseteq {p}
    PROVE  Inv'
<1>1. TypeOK
  BY DEF Inv
<1>2. /\ file' \in Directory /\ \A n \in Mimes \ {m} : file'[p][n] = file[p][n]
      /\ \A o \in Posts \ {p} : file'[o] = file[o]
  BY <1>1, WriteFile DEF TypeOK, Directory
<1>3. TypeOK'
  BY <1>1, <1>2, LeaveType DEF TypeOK, Directory, dbVars
<1>4. Local(q)' /\ \A o \in Posts : ~Mine(q, o)' /\ o \notin dirty'[q]
  BY <1>1, <1>3, EndLocal
<1>5. Others(q) /\ Grows
  BY <1>1 DEF Leave, TypeOK, Others, Grows, dbVars
<1>6. FilesOf(q) /\ RowsOf(q) /\ Acquires(q) /\ Dirtied(q)
  BY <1>2, <1>4 DEF FilesOf, RowsOf, Acquires, Dirtied, dbVars
<1>7. Serves(q)
  <2> SUFFICES ASSUME NEW o \in Posts, o \notin torn', row'[o] # NoRow,
                      o \in dirty[q] \/ row'[o] # row[o] \/ file'[o] # file[o]
               PROVE  Served(o)'
    BY DEF Serves
  <2>1. o = p /\ row' = row
    BY <1>2 DEF dbVars
  <2>2. Served(p) /\ row[p].mime # m /\ row[p].mime \in Mimes
    BY <1>1, <2>1, ConstantAssumption DEF TypeOK, Content
  <2> QED
    BY <1>2, <2>1, <2>2 DEF Served
<1> QED
  BY <1>3, <1>4, <1>5, <1>6, <1>7, Preserves DEF Env

LEMMA ConvertUndoPreserves ==
    ASSUME Inv, NEW q \in Reqs, ConvertUndo(q)
    PROVE  Inv'
<1> DEFINE p == Post(q)
<1>1. TypeOK /\ Local(q)
  BY DEF Inv
<1>2. /\ pc[q] = "row" /\ Op(q) \in Conversion /\ RollBack(q)
      /\ file' = [file EXCEPT ![p][Jxl] = NoFile] /\ UNCHANGED <<dbVars, temp>>
  BY DEF ConvertUndo, Conversion
<1>3. /\ p \in Posts /\ seen[q][p] # Unset /\ Mine(q, p) /\ Jxl \in Mimes
      /\ seen[q][p].mime # Jxl
      /\ \A o \in Posts : o \in dirty[q] <=> o = p
  BY <1>1, <1>2, ConstantAssumption
     DEF Local, JobKnown, Progress, HasRead, HasChanged, Conversion, Merging, Mine
<1>4. dirty[q] \subseteq {p} /\ p \in dirty[q]
  BY <1>1, <1>3 DEF TypeOK
<1>5. torn' = torn \cup {o \in dirty[q] : Clash(q, o)}
  BY <1>2 DEF RollBack, Spoiled, Conversion
<1>6. ASSUME p \notin torn', row[p] # NoRow
      PROVE  Served(p) /\ row[p].mime # Jxl /\ \A r \in Reqs \ {q} : p \notin dirty[r]
  <2>1. p \notin torn /\ ~Clash(q, p)
    BY <1>4, <1>5, <1>6
  <2> QED
    BY <1>1, <1>2, <1>3, <1>6, <2>1
       DEF Local, UnderWay, Converts, Fresh, Clash, Conversion
<1>7. torn \subseteq torn' /\ torn' \subseteq Posts
  BY <1>1, <1>5 DEF TypeOK
<1> QED
  BY <1>2, <1>3, <1>4, <1>6, <1>7, LastSteps DEF RollBack

LEMMA TaskSweepPreserves ==
    ASSUME Inv, NEW q \in Reqs, TaskSweep(q)
    PROVE  Inv'
<1> DEFINE p == Post(q)  old == seen[q][p].mime
<1>1. TypeOK /\ Local(q)
  BY DEF Inv
<1>2. /\ pc[q] = "sweep" /\ Leave(q) /\ stale' = [stale EXCEPT ![q] = {}]
      /\ torn' = IF Clash(q, p) THEN torn \cup {p} ELSE torn
      /\ file' = [file EXCEPT ![p][old] = NoFile] /\ UNCHANGED <<dbVars, temp>>
  BY DEF TaskSweep
<1>3. Op(q) = "task"
  BY <1>1, <1>2, OpAt DEF Local
<1>4. /\ p \in Posts /\ seen[q][p] # Unset /\ Mine(q, p) /\ old # Jxl
      /\ \A o \in Posts : o \in dirty[q] => o = p
  BY <1>1, <1>2, <1>3
     DEF Local, JobKnown, Progress, HasRead, HasChanged, Conversion, Merging, Mine
<1>5. old \in Mimes /\ dirty[q] \subseteq {p}
  BY <1>1, <1>4 DEF TypeOK, Content
<1>6. ASSUME p \notin torn', row[p] # NoRow
      PROVE  Served(p) /\ row[p].mime # old /\ \A r \in Reqs \ {q} : p \notin dirty[r]
  <2>1. p \notin torn /\ p \notin stale[q] /\ \A r \in Reqs \ {q} : p \notin dirty[r]
    BY <1>2, <1>6 DEF Clash
  <2>2. row[p] = Converted(q) /\ file[p][Jxl] = held[q]
    BY <1>1, <1>2, <1>3, <1>4, <1>6, <2>1 DEF Local, Fresh, UnderWay, Converts, Conversion
  <2> QED
    BY <1>4, <1>6, <2>1, <2>2 DEF Served, Converted
<1>7. torn \subseteq torn' /\ torn' \subseteq Posts
  BY <1>1, <1>2, <1>4 DEF TypeOK
<1> QED
  BY <1>2, <1>4, <1>5, <1>6, <1>7, LastSteps

LEMMA PurgePreserves ==
    ASSUME Inv, NEW q \in Reqs, Purge(q)
    PROVE  Inv'
<1> DEFINE p == Post(q)  old == seen[q][p].mime
<1>1. TypeOK /\ Local(q)
  BY DEF Inv
<1>2. /\ pc[q] = "purge" /\ Op(q) = "delete" /\ Leave(q) /\ stale' = [stale EXCEPT ![q] = {}]
      /\ file' = [file EXCEPT ![p][old] = NoFile] /\ UNCHANGED <<dbVars, temp, torn>>
  BY DEF Purge
<1>3. /\ p \in Posts /\ seen[q][p] # Unset /\ Mine(q, p)
      /\ \A o \in Posts : o \notin dirty[q]
  BY <1>1, <1>2
     DEF Local, JobKnown, Progress, HasRead, HasChanged, Conversion, Merging, Mine
<1>4. old \in Mimes /\ dirty[q] \subseteq {p} /\ torn \subseteq torn' /\ torn' \subseteq Posts
  BY <1>1, <1>2, <1>3 DEF TypeOK, Content
<1>5. p \in torn' \/ row[p] = NoRow
  BY <1>1, <1>2 DEF Local, Deleted
<1> QED
  BY <1>2, <1>3, <1>4, <1>5, LastSteps

-----------------------------------------------------------------------------
(* Steps that change committed rows.                                         *)

LEMMA TaskRowPreserves ==
    ASSUME Inv, NEW q \in Reqs, TaskRow(q)
    PROVE  Inv'
<1> DEFINE p == Post(q)
<1>1. TypeOK /\ Local(q)
  BY DEF Inv
<1>2. /\ pc[q] = "row" /\ Op(q) = "task" /\ row[p] # NoRow
      /\ row' = [row EXCEPT ![p] = Converted(q)]
      /\ stale' = [o \in Reqs |->
            IF o # q /\ seen[o][p] # Unset /\ row[p] # Converted(q)
            THEN stale[o] \cup {p} ELSE stale[o]]
      /\ torn' = IF row[p] # Converted(q) /\ p \in stale[q] THEN torn \cup {p} ELSE torn
      /\ pc' = [pc EXCEPT ![q] = "sweep"]
      /\ UNCHANGED <<issued, fsVars, job, seen, stage, held, dirty>>
  BY DEF TaskRow, Goto
<1>3. /\ p \in Posts /\ seen[q][p] # Unset /\ Mine(q, p) /\ held[q] \in Pics
      /\ p \in dirty[q]
      /\ \A o \in Posts : seen[q][o] # Unset => o = p
  BY <1>1, <1>2
     DEF Local, JobKnown, Progress, HasRead, HasChanged, Conversion, Merging, Mine
<1>4. Converted(q) \in Content /\ Converted(q) # NoRow
  BY <1>3, ConstantAssumption DEF Converted, Content
<1>5. row' \in [Posts -> Content \cup {NoRow}] /\ torn' \subseteq Posts /\ pc' \in [Reqs -> Labels]
  BY <1>1, <1>2, <1>3, <1>4 DEF TypeOK, Labels
<1>6. /\ row'[p] = Converted(q) /\ \A o \in Posts \ {p} : row'[o] = row[o]
      /\ pc'[q] = "sweep" /\ \A r \in Reqs \ {q} : pc'[r] = pc[r]
      /\ stale'[q] = stale[q] /\ torn \subseteq torn'
      /\ \A r \in Reqs \ {q} : /\ stale[r] \subseteq stale'[r]
                               /\ row'[p] # row[p] /\ seen[r][p] # Unset => p \in stale'[r]
  BY <1>1, <1>2, <1>3, <1>4 DEF TypeOK
<1>7. stale' \in [Reqs -> SUBSET Posts]
  BY <1>1, <1>2, <1>3 DEF TypeOK
<1>8. TypeOK'
  BY <1>1, <1>2, <1>5, <1>7 DEF TypeOK, fsVars
<1>9. /\ Op(q)' = Op(q) /\ Post(q)' = Post(q) /\ From(q)' = From(q)
      /\ Converted(q)' = Converted(q)
  BY <1>2 DEF Op, Post, From, Converted
<1> HIDE DEF p
<1>10. Others(q) /\ Grows
  BY <1>2, <1>6 DEF Others, Grows
<1>11. FilesOf(q) /\ RowsOf(q) /\ Acquires(q) /\ Dirtied(q) /\ Serves(q)
  BY <1>2, <1>3, <1>6, <1>9
     DEF FilesOf, RowsOf, Acquires, Dirtied, Serves, Mine, fsVars
<1>12. JobKnown(q)' /\ Progress(q)' /\ Fresh(q)' /\ Pending(q)'
  BY <1>1, <1>2, <1>3, <1>6, <1>9
     DEF Local, JobKnown, LabelsOf, Progress, HasRead, HasChanged, Fresh, Pending, Creating,
         Conversion, Merging, p
<1>13. Written(q)' /\ Deleted(q)'
  BY <1>1, <1>2, <1>3, <1>6, <1>9 DEF Local, Written, Deleted, Merging
<1>14. UnderWay(q)'
  BY <1>1, <1>2, <1>6, <1>9
     DEF Local, UnderWay, ReplacesContent, Converts, Swaps, Conversion, fsVars, p
<1> QED
  BY <1>8, <1>10, <1>11, <1>12, <1>13, <1>14, Preserves DEF Env, Local

LEMMA CommitPreserves ==
    ASSUME Inv, NEW q \in Reqs, Commit(q)
    PROVE  Inv'
<1>1. TypeOK /\ Local(q)
  BY DEF Inv
<1>2. pc[q] = "commit" /\ Publish(q) /\ UNCHANGED <<issued, fsVars>>
  BY DEF Commit
<1>3. /\ \A p \in Posts : row'[p] = IF stage[q][p] = Unset THEN row[p] ELSE stage[q][p]
      /\ stale'[q] = {} /\ torn \subseteq torn'
      /\ \A r \in Reqs \ {q} : stale[r] \subseteq stale'[r]
      /\ \A p \in Posts : row'[p] # row[p] =>
            /\ p \in stale[q] => p \in torn'
            /\ \A r \in Reqs \ {q} : seen[r][p] # Unset => p \in stale'[r]
  BY <1>1, <1>2 DEF Publish, TypeOK
<1>4. ASSUME NEW p \in Posts, row'[p] # row[p], p \notin torn'
      PROVE  /\ p \notin torn /\ stage[q][p] = row'[p]
             /\ \/ Op(q) = "create" /\ p = Post(q)
                \/ seen[q][p] # Unset /\ row[p] = seen[q][p] /\ row[p] # NoRow
                   /\ (row'[p] = NoRow \/ p \in dirty[q])
  <2>1. stage[q][p] = row'[p] /\ stage[q][p] # Unset /\ p \notin stale[q] /\ p \notin torn
    BY <1>3, <1>4
  <2>2. CASE Op(q) = "create" /\ p = Post(q)
    BY <2>1, <2>2
  <2>3. CASE ~(Op(q) = "create" /\ p = Post(q))
    <3>1. seen[q][p] # Unset
      BY <1>1, <2>1, <2>3 DEF Local, Written
    <3>2. row[p] = seen[q][p]
      BY <1>1, <1>2, <2>1, <3>1 DEF Local, Fresh
    <3>3. row[p] # NoRow
      BY <1>1, <3>1, <3>2, ConstantAssumption DEF TypeOK
    <3>4. row'[p] = NoRow \/ p \in dirty[q]
      BY <1>1, <1>4, <2>1, <2>3, <3>2 DEF Local, Written
    <3> QED
      BY <2>1, <3>1, <3>2, <3>3, <3>4
  <2> QED
    BY <2>2, <2>3
<1>5. \A r \in Reqs \ {q} :
          /\ pc'[r] = pc[r] /\ job'[r] = job[r] /\ seen'[r] = seen[r]
          /\ stage'[r] = stage[r] /\ held'[r] = held[r] /\ dirty'[r] = dirty[r]
  BY <1>1 DEF Commit, Leave, Goto, TypeOK
<1>6. FilesOf(q) /\ RowsOf(q)
  <2>1. \A p \in Posts : row'[p] # row[p] => Mine(q, p)
    BY <1>1, <1>3 DEF Local, Written, Mine
  <2> QED
    BY <1>2, <1>3, <1>4, <2>1 DEF FilesOf, RowsOf, fsVars
<1>7. ASSUME NEW p \in Posts, p \notin torn', row'[p] # NoRow,
             p \in dirty[q] \/ row'[p] # row[p]
      PROVE  row'[p] \in Content /\ file[p][row'[p].mime] = row'[p].pic
  <2>1. p \notin torn
    BY <1>3, <1>7
  <2>2. CASE Op(q) = "create"
    <3>1. p = Post(q)
      BY <1>1, <1>4, <1>7, <2>2
         DEF Local, Progress, HasRead, HasChanged, Merging, Conversion
    <3>2. Post(q) # Unset /\ Upload(q) \in Content
      BY <1>1, <2>2, <3>1, ConstantAssumption DEF Local, JobKnown, Upload
    <3>3. row'[p] = Upload(q)
      BY <1>1, <1>3, <2>2, <3>1, <3>2, ConstantAssumption DEF Local, Pending, Creating
    <3> QED
      BY <1>1, <1>2, <2>1, <2>2, <3>1, <3>2, <3>3 DEF Local, Pending, Creating
  <2>3. CASE Op(q) # "create"
    <3>1. p \in dirty[q] /\ row[p] # NoRow
      BY <1>4, <1>7, <2>3
    <3>2. HasChanged(q, p)
      BY <1>1, <3>1 DEF Local, Progress
    <3>3. CASE p = From(q) /\ Op(q) \in Merging
      BY <1>1, <1>2, <1>3, <1>7, <2>1, <3>1, <3>3, ConstantAssumption
         DEF Local, Deleted, Gone
    <3>4. CASE ~(p = From(q) /\ Op(q) \in Merging)
      <4>1. p = Post(q) /\ Op(q) \in {"update", "convert", "replace"}
        BY <1>1, <1>2, <2>3, <3>2, <3>4, OpAt
           DEF HasChanged, Merging, Conversion, Local
      <4>2. ReplacesContent(q) /\ Converts(q) /\ Swaps(q)
        BY <1>1, <1>2, <2>1, <3>1, <4>1 DEF Local, UnderWay
      <4>3. CASE Op(q) = "update"
        <5>1. Upload(q) \in Content
          BY <1>1, <4>3, ConstantAssumption DEF Local, JobKnown, Upload
        <5> QED
          BY <1>2, <1>3, <4>1, <4>2, <4>3, <5>1, ConstantAssumption DEF ReplacesContent
      <4>4. CASE Op(q) = "convert"
        <5>1. Converted(q) \in Content
          BY <1>1, <1>2, <4>4, ConstantAssumption
             DEF Local, JobKnown, Converted, Content, Conversion
        <5> QED
          BY <1>2, <1>3, <4>1, <4>2, <4>4, <5>1, ConstantAssumption
             DEF Converts, Converted, Conversion
      <4>5. CASE Op(q) = "replace"
        <5>1. From(q) \in Posts /\ seen[q][From(q)] # Unset
          BY <1>1, <4>5 DEF Local, JobKnown, Progress, HasRead, Merging
        <5>2. seen[q][From(q)] \in Content
          BY <1>1, <5>1 DEF TypeOK
        <5> QED
          BY <1>2, <1>3, <4>1, <4>2, <4>5, <5>2, ConstantAssumption DEF Swaps
      <4> QED
        BY <4>1, <4>3, <4>4, <4>5
    <3> QED
      BY <3>3, <3>4
  <2> QED
    BY <2>2, <2>3
<1>8. Others(q) /\ Grows /\ Serves(q)
  BY <1>2, <1>3, <1>5, <1>7 DEF Others, Grows, Serves, Served, fsVars
<1>9. CASE Leave(q)
  <2>1. TypeOK'
    BY <1>1, <1>2, <1>9, LeaveType, PublishType DEF TypeOK, fsVars
  <2>2. Local(q)' /\ \A p \in Posts : ~Mine(q, p)' /\ p \notin dirty'[q]
    BY <1>1, <1>9, <2>1, EndLocal
  <2>3. Acquires(q) /\ Dirtied(q)
    BY <2>2 DEF Acquires, Dirtied
  <2> QED
    BY <1>6, <1>8, <2>1, <2>2, <2>3, Preserves DEF Env
<1>10. CASE ~Leave(q)
  <2>1. /\ Op(q) = "delete" /\ DeleteSourceFiles /\ pc' = [pc EXCEPT ![q] = "purge"]
        /\ stage' = [stage EXCEPT ![q] = Nothing] /\ UNCHANGED <<job, seen, held, dirty>>
    BY <1>10 DEF Commit, Goto
  <2>2. pc'[q] = "purge" /\ \A p \in Posts : stage'[q][p] = Unset
    BY <1>1, <2>1 DEF TypeOK, Nothing
  <2>3. TypeOK'
    <3>1. Nothing \in [Posts -> Content \cup {NoRow, Unset}]
      BY DEF Nothing
    <3>2. stage' \in [Reqs -> [Posts -> Content \cup {NoRow, Unset}]]
      BY <1>1, <2>1, <3>1 DEF TypeOK
    <3> QED
      BY <1>1, <1>2, <2>1, <3>2, PublishType DEF TypeOK, Labels, fsVars
  <2>4. Op(q)' = Op(q) /\ Post(q)' = Post(q) /\ From(q)' = From(q)
    BY <2>1 DEF Op, Post, From
  <2>5. Acquires(q) /\ Dirtied(q)
    BY <2>1, <2>4 DEF Acquires, Dirtied, Mine
  <2>6. JobKnown(q)' /\ Progress(q)' /\ Fresh(q)' /\ Pending(q)' /\ Written(q)'
    BY <1>1, <1>2, <2>1, <2>2, <2>4
       DEF Local, JobKnown, LabelsOf, Progress, HasRead, HasChanged, Fresh, Pending, Creating,
           Written, Conversion, Merging
  <2>7. Post(q) \in torn' \/ row'[Post(q)] = NoRow
    <3>1. Post(q) \in Posts /\ Post(q) \notin dirty[q] /\ Gone(q, Post(q))
      BY <1>1, <1>2, <2>1
         DEF Local, JobKnown, Progress, HasChanged, Deleted, Conversion, Merging
    <3> QED
      BY <1>3, <1>4, <2>1, <3>1, ConstantAssumption DEF Gone
  <2>8. Deleted(q)' /\ UnderWay(q)'
    BY <2>1, <2>2, <2>4, <2>7
       DEF Deleted, UnderWay, ReplacesContent, Converts, Swaps, Conversion, Merging
  <2> QED
    BY <1>6, <1>8, <2>3, <2>5, <2>6, <2>8, Preserves DEF Env, Local
<1> QED
  BY <1>9, <1>10

LEMMA CrashPreserves ==
    ASSUME Inv, Crash
    PROVE  Inv'
<1>1. TypeOK /\ Issued /\ Settled
  BY DEF Inv
<1>2. \A r \in Reqs : /\ pc'[r] = "idle" /\ job'[r] = NoJob /\ seen'[r] = Nothing
                      /\ stage'[r] = Nothing /\ dirty'[r] = {}
  BY DEF Crash
<1>3. /\ torn' = torn \cup UNION {Spoiled(r) : r \in Reqs}
      /\ UNCHANGED <<row, issued, file, temp>>
  BY DEF Crash, dbVars, fsVars
<1>4. \A r \in Reqs : Spoiled(r) \subseteq Posts
  BY <1>1 DEF Spoiled, TypeOK
<1>5. TypeOK'
  BY <1>1, <1>3, <1>4 DEF Crash, TypeOK, Labels, Jobs, NoJob, Nothing
<1>6. \A r \in Reqs : \A p \in Posts : seen'[r][p] = Unset /\ stage'[r][p] = Unset
  BY <1>2 DEF Nothing
<1>7. \A r \in Reqs : Op(r)' = "none" /\ Post(r)' = Unset
  BY <1>2 DEF NoJob, Op, Post
<1>8. ASSUME NEW r \in Reqs
      PROVE  Local(r)'
  <2>1. JobKnown(r)' /\ Progress(r)'
    BY <1>2, <1>6, <1>7
       DEF JobKnown, LabelsOf, Progress, HasRead, HasChanged, Merging, Conversion
  <2>2. Fresh(r)' /\ Written(r)' /\ Pending(r)' /\ Deleted(r)' /\ UnderWay(r)'
    BY <1>6, <1>7 DEF Fresh, Written, Pending, Creating, Deleted, UnderWay, Merging
  <2> QED
    BY <2>1, <2>2 DEF Local
<1>9. Issued' /\ Exclusive'
  BY <1>1, <1>2, <1>3, <1>6, <1>7 DEF Issued, Exclusive
<1>10. Settled'
  <2> SUFFICES ASSUME NEW p \in Posts, row[p] # NoRow, p \notin torn'
               PROVE  Served(p)
    BY <1>3 DEF Settled, Served
  <2>1. p \notin torn /\ \A r \in Reqs : p \notin Spoiled(r)
    BY <1>3
  <2>2. CASE \E r \in Reqs : p \in dirty[r]
    BY <2>1, <2>2, Unspoiled
  <2>3. CASE \A r \in Reqs : p \notin dirty[r]
    BY <1>1, <2>1, <2>3 DEF Settled
  <2> QED
    BY <2>2, <2>3
<1> QED
  BY <1>5, <1>8, <1>9, <1>10 DEF Inv

LEMMA AbortPreserves ==
    ASSUME Inv, NEW q \in Reqs, Abort(q)
    PROVE  Inv'
<1>1. TypeOK /\ RollBack(q) /\ UNCHANGED <<row, issued, file, temp>>
  BY DEF Inv, Abort, dbVars, fsVars
<1> QED
  BY <1>1, RollBackPreserves DEF TypeOK

\* The uploads directory is nobody's: only a move out of it looks at it.
LEMMA UploadsPreserve ==
    ASSUME Inv, temp' \subseteq Tokens, UNCHANGED <<dbVars, file, reqVars, histVars>>
    PROVE  Inv'
<1>1. UNCHANGED <<row, issued, file, pc, job, seen, stage, held, dirty, stale, torn>>
  BY DEF dbVars, reqVars, histVars
<1>2. TypeOK'
  BY <1>1 DEF Inv, TypeOK
<1>3. ASSUME NEW r \in Reqs
      PROVE  Local(r)'
  <2>1. Local(r)
    BY DEF Inv
  <2>2. /\ Op(r)' = Op(r) /\ Post(r)' = Post(r) /\ From(r)' = From(r)
        /\ Upload(r)' = Upload(r) /\ Converted(r)' = Converted(r)
    BY <1>1 DEF Op, Post, From, Upload, Converted
  <2>3. JobKnown(r)' /\ Progress(r)'
    BY <1>1, <2>1, <2>2 DEF Local, JobKnown, Progress, HasRead, HasChanged
  <2>4. Fresh(r)' /\ Written(r)' /\ Deleted(r)'
    BY <1>1, <2>1, <2>2 DEF Local, Fresh, Written, Deleted, Gone
  <2>5. Pending(r)'
    BY <1>1, <2>1, <2>2 DEF Local, Pending, Creating, Op, Post
  <2>6. UnderWay(r)'
    BY <1>1, <2>1, <2>2
       DEF Local, UnderWay, ReplacesContent, Converts, Swaps, Served
  <2> QED
    BY <2>3, <2>4, <2>5, <2>6 DEF Local
<1>4. Issued' /\ Exclusive' /\ Settled'
  BY <1>1 DEF Inv, Issued, Exclusive, Settled, Served, Op, Post
<1> QED
  BY <1>2, <1>3, <1>4 DEF Inv

-----------------------------------------------------------------------------
(* The invariant holds initially and is kept by every step.                  *)

LEMMA InitInv ==
    ASSUME Init
    PROVE  Inv
<1>1. \A p \in Existing : StartRow[p] \in Content /\ StartRow[p] # NoRow
  BY ConstantAssumption
<1>2. TypeOK
  <2>1. row \in [Posts -> Content \cup {NoRow}] /\ issued \subseteq Posts /\ temp \subseteq Tokens
    BY <1>1, ConstantAssumption DEF Init
  <2>2. file \in [Posts -> [Mimes -> Pics \cup {NoFile}]]
    BY <1>1 DEF Init, Content
  <2>3. /\ seen \in [Reqs -> [Posts -> Content \cup {Unset}]]
        /\ stage \in [Reqs -> [Posts -> Content \cup {NoRow, Unset}]]
    BY DEF Init, Nothing
  <2>4. pc \in [Reqs -> Labels] /\ job \in [Reqs -> Jobs]
    BY DEF Init, Labels, Jobs, NoJob
  <2> QED
    BY <2>1, <2>2, <2>3, <2>4 DEF Init, TypeOK
<1>3. \A r \in Reqs : /\ pc[r] = "idle" /\ Op(r) = "none" /\ Post(r) = Unset /\ dirty[r] = {}
                      /\ \A p \in Posts : seen[r][p] = Unset /\ stage[r][p] = Unset
  BY DEF Init, NoJob, Nothing, Op, Post
<1>4. ASSUME NEW r \in Reqs
      PROVE  Local(r)
  <2>1. JobKnown(r) /\ Progress(r)
    BY <1>3 DEF JobKnown, LabelsOf, Progress, HasRead, HasChanged, Merging, Conversion
  <2>2. Fresh(r) /\ Written(r) /\ Pending(r) /\ Deleted(r) /\ UnderWay(r)
    BY <1>3 DEF Fresh, Written, Pending, Creating, Deleted, UnderWay, Merging
  <2> QED
    BY <2>1, <2>2 DEF Local
<1>5. Issued /\ Exclusive
  BY <1>3 DEF Init, Issued, Exclusive
<1>6. Settled
  BY <1>1 DEF Init, Settled, Served, Content
<1> QED
  BY <1>2, <1>4, <1>5, <1>6 DEF Inv

LEMMA StepInv ==
    ASSUME Inv, NEW q \in Reqs, Step(q)
    PROVE  Inv'
<1>1. CASE \E t \in Tokens : StartCreate(q, t)
  BY <1>1, StartCreatePreserves
<1>2. CASE \E p \in Posts : Insert(q, p)
  BY <1>2, InsertPreserves
<1>3. CASE \E op \in DOMAIN FirstStep, p \in Posts, t \in Tokens : Read(q, op, p, t)
  BY <1>3, ReadPreserves
<1>4. CASE \E op \in {"merge", "replace"}, p, s \in Posts : StartMerge(q, op, p, s)
  BY <1>4, StartMergePreserves DEF Merging
<1>5. CASE Fill(q) \/ Unlink(q) \/ Save(q) \/ ReplaceSignature(q)
  BY <1>5, FillPreserves, UnlinkPreserves, SavePreserves, ReplaceSignaturePreserves
<1>6. CASE Decode(q) \/ Encode(q) \/ ConvertRow(q) \/ ConvertUndo(q) \/ TaskRow(q) \/ TaskSweep(q)
  BY <1>6, DecodePreserves, EncodePreserves, ConvertRowPreserves, ConvertUndoPreserves,
     TaskRowPreserves, TaskSweepPreserves
<1>7. CASE DeleteRow(q) \/ Purge(q)
  BY <1>7, DeleteRowPreserves, PurgePreserves
<1>8. CASE MergeRead(q) \/ MergeLock(q) \/ MergeAbsorb(q) \/ MergeMeta(q) \/ MergePurge(q)
  BY <1>8, MergeReadPreserves, MergeLockPreserves, MergeAbsorbPreserves, MergeMetaPreserves,
     MergePurgePreserves
<1>9. CASE \E label \in {"swap1", "swap2", "swap3"} : SwapMove(q, label)
  BY <1>9, SwapMovePreserves
<1>10. CASE Commit(q) \/ Abort(q)
  BY <1>10, CommitPreserves, AbortPreserves
<1> QED
  BY <1>1, <1>2, <1>3, <1>4, <1>5, <1>6, <1>7, <1>8, <1>9, <1>10 DEF Step

LEMMA NextInv ==
    ASSUME Inv, [Next]_vars
    PROVE  Inv'
<1>1. temp \subseteq Tokens
  BY DEF Inv, TypeOK
<1>2. CASE \E t \in Tokens : UploadFile(t) \/ ExpireUpload(t)
  BY <1>1, <1>2, UploadsPreserve DEF UploadFile, ExpireUpload
<1>3. CASE \E r \in Reqs : Step(r)
  BY <1>3, StepInv
<1>4. CASE Crash
  BY <1>4, CrashPreserves
<1>5. CASE UNCHANGED vars
  BY <1>1, <1>5, UploadsPreserve DEF vars, fsVars
<1> QED
  BY <1>2, <1>3, <1>4, <1>5 DEF Next

\* Everything the invariant says holds in every reachable state of the requests
\* that api/post.rs and admin/post.rs serve, whatever they are and however many.
THEOREM Invariance == Spec => []Inv
<1>1. Init => Inv
  BY InitInv
<1>2. Inv /\ [Next]_vars => Inv'
  BY NextInv
<1> QED
  BY <1>1, <1>2, PTL DEF Spec

\* Every variable keeps its type: rows, files and what the requests remember of them
\* (the handlers of api/post.rs and the task of admin/post.rs).
THEOREM TypeCorrect == Spec => []TypeOK
<1>1. Inv => TypeOK
  BY DEF Inv
<1> QED
  BY <1>1, Invariance, PTL

-----------------------------------------------------------------------------
(* Posts become visible with their content.  The row locks matter here: what  *)
(* a transaction has written nobody else writes, and the row it writes stays  *)
(* there until it commits, unless it is the row it creates itself.            *)

Locked ==
    \A r \in Reqs, p \in Posts : stage[r][p] # Unset =>
        /\ \A q \in Reqs \ {r} : stage[q][p] = Unset
        /\ stage[r][p] = NoRow \/ row[p] # NoRow \/ (Op(r) = "create" /\ p = Post(r))

\* A request that is about to begin has written nothing.
LEMMA Unstaged ==
    ASSUME Inv, NEW q \in Reqs, pc[q] \in {"idle", "insert"}, NEW p \in Posts
    PROVE  stage[q][p] = Unset
<1>1. TypeOK /\ Local(q)
  BY DEF Inv
<1>2. seen[q][p] = Unset /\ ~(Op(q) = "create" /\ p = Post(q))
  BY <1>1, OpAt, ConstantAssumption
     DEF Local, JobKnown, Progress, HasRead, Merging
<1> QED
  BY <1>1, <1>2 DEF Local, Written

LEMMA KeepsLocks ==
    ASSUME Inv, Locked, NEW q \in Reqs,
           \A r \in Reqs \ {q} : stage'[r] = stage[r] /\ job'[r] = job[r],
           \/ stage'[q] = Nothing
           \/ stage'[q] = stage[q] /\ (job'[q] = job[q] \/ pc[q] \in {"idle", "insert"}),
           \A p \in Posts : row'[p] = row[p] \/ row'[p] # NoRow
    PROVE  Locked'
<1> SUFFICES ASSUME NEW r \in Reqs, NEW p \in Posts, stage'[r][p] # Unset
             PROVE  /\ \A o \in Reqs \ {r} : stage'[o][p] = Unset
                    /\ \/ stage'[r][p] = NoRow \/ row'[p] # NoRow
                       \/ Op(r)' = "create" /\ p = Post(r)'
  BY DEF Locked
<1>1. stage'[r] = stage[r] /\ job'[r] = job[r]
  BY Unstaged DEF Nothing
<1>2. \A o \in Reqs \ {r} : stage[o][p] = Unset
  BY <1>1 DEF Locked
<1>3. \A o \in Reqs \ {r} : stage'[o][p] = Unset
  BY <1>2 DEF Nothing
<1> QED
  BY <1>1, <1>3 DEF Locked, Op, Post

LEMMA WriteLocks ==
    ASSUME Inv, Locked, NEW q \in Reqs, NEW p \in Posts,
           NEW v \in Content \cup {NoRow, Unset}, Stage(q, p, v), row' = row,
           \A r \in Reqs \ {q} : stage[r][p] = Unset /\ job'[r] = job[r],
           job'[q] = job[q] \/ pc[q] \in {"idle", "insert"},
           v \in {NoRow, Unset} \/ row[p] # NoRow \/ (Op(q)' = "create" /\ p = Post(q)')
    PROVE  Locked'
<1>1. /\ stage'[q] = [stage[q] EXCEPT ![p] = v]
      /\ \A r \in Reqs \ {q} : stage'[r] = stage[r] /\ job'[r] = job[r]
  BY StageType DEF Inv
<1>2. stage[q] \in [Posts -> Content \cup {NoRow, Unset}]
  BY DEF Inv, TypeOK
<1>3. stage'[q][p] = v /\ \A o \in Posts \ {p} : stage'[q][o] = stage[q][o]
  BY <1>1, <1>2
<1> SUFFICES ASSUME NEW r \in Reqs, NEW o \in Posts, stage'[r][o] # Unset
             PROVE  /\ \A w \in Reqs \ {r} : stage'[w][o] = Unset
                    /\ \/ stage'[r][o] = NoRow \/ row'[o] # NoRow
                       \/ Op(r)' = "create" /\ o = Post(r)'
  BY DEF Locked
<1>4. CASE o = p
  BY <1>1, <1>3, <1>4
<1>5. CASE o # p
  <2>1. stage'[r][o] = stage[r][o] /\ \A w \in Reqs : stage'[w][o] = stage[w][o]
    BY <1>1, <1>3, <1>5
  <2>2. job'[r] = job[r]
    BY <1>1, <2>1, Unstaged
  <2> QED
    BY <2>1, <2>2 DEF Locked, Op, Post
<1> QED
  BY <1>4, <1>5

LEMMA EndsUnstaged ==
    ASSUME Inv, NEW q \in Reqs, Leave(q)
    PROVE  stage'[q] = Nothing /\ \A r \in Reqs \ {q} : stage'[r] = stage[r] /\ job'[r] = job[r]
BY DEF Inv, TypeOK, Leave

LEMMA CommitLocks ==
    ASSUME Inv, Locked, NEW q \in Reqs, Commit(q)
    PROVE  Locked'
<1>1. stage'[q] = Nothing /\ \A r \in Reqs \ {q} : stage'[r] = stage[r] /\ job'[r] = job[r]
  BY EndsUnstaged DEF Inv, TypeOK, Commit
<1>2. \A p \in Posts : stage[q][p] = Unset => row'[p] = row[p]
  BY DEF Commit, Publish
<1> SUFFICES ASSUME NEW r \in Reqs \ {q}, NEW p \in Posts, stage[r][p] # Unset
             PROVE  /\ \A o \in Reqs \ {r} : stage'[o][p] = Unset
                    /\ \/ stage[r][p] = NoRow \/ row'[p] # NoRow
                       \/ Op(r) = "create" /\ p = Post(r)
  BY <1>1 DEF Locked, Nothing, Op, Post
<1>3. stage[q][p] = Unset
  BY DEF Locked
<1> QED
  BY <1>1, <1>2, <1>3 DEF Locked, Nothing

\* The steps that write a row hold its lock.
LEMMA WritersLock ==
    ASSUME Inv, Locked, NEW q \in Reqs,
           \/ \E p \in Posts : Insert(q, p)
           \/ Save(q) \/ ConvertRow(q) \/ DeleteRow(q)
           \/ MergeLock(q) \/ MergeAbsorb(q) \/ MergeMeta(q)
    PROVE  Locked'
<1>1. TypeOK /\ Local(q) /\ Issued
  BY DEF Inv
<1>2. CASE RollBack(q)
  BY <1>2, EndsUnstaged, KeepsLocks DEF RollBack, Insert, Save, ConvertRow, DeleteRow, MergeLock,
     MergeAbsorb, MergeMeta, dbVars
<1>3. ASSUME NEW p \in Posts, Insert(q, p), ~RollBack(q)
      PROVE  Locked'
  <2>1. /\ pc[q] = "insert" /\ Stage(q, p, Upload(q)) /\ row' = row /\ p \notin issued
        /\ job' = [job EXCEPT ![q] = [job[q] EXCEPT !.post = p]]
    BY <1>3 DEF Insert
  <2>2. Op(q) = "create" /\ Upload(q) \in Content
    BY <1>1, <2>1, OpAt, ConstantAssumption DEF Local, JobKnown, Upload
  <2>3. job'[q] = [job[q] EXCEPT !.post = p] /\ \A r \in Reqs \ {q} : job'[r] = job[r]
    BY <1>1, <2>1 DEF TypeOK
  <2>4. Op(q)' = "create" /\ Post(q)' = p
    BY <1>1, <2>2, <2>3 DEF TypeOK, Jobs, Op, Post
  <2>5. \A r \in Reqs \ {q} : stage[r][p] = Unset
    BY <1>1, <2>1 DEF Inv, Local, Written, Issued
  <2> QED
    BY <2>1, <2>2, <2>3, <2>4, <2>5, WriteLocks
<1>4. CASE Save(q) /\ ~RollBack(q)
  <2> DEFINE p == Post(q)
             new == IF Op(q) = "update" THEN Upload(q) ELSE seen[q][p]
  <2>1. /\ pc[q] = "save" /\ MayWrite(q, p, new) /\ Stage(q, p, new)
        /\ row[p] # NoRow /\ row' = row /\ job' = job
    BY <1>4 DEF Save, dbVars
  <2>2. p \in Posts /\ new \in Content
    BY <1>1, <2>1, OpAt, ConstantAssumption
       DEF Local, JobKnown, Progress, HasRead, TypeOK, Upload
  <2> HIDE DEF p, new
  <2> QED
    BY <2>1, <2>2, WriteLocks DEF MayWrite
<1>5. CASE ConvertRow(q)
  <2> DEFINE p == Post(q)
             new == IF row[p] = NoRow THEN Unset ELSE Converted(q)
  <2>1. /\ pc[q] = "row" /\ Op(q) = "convert" /\ MayWrite(q, p, Converted(q))
        /\ Stage(q, p, new) /\ row' = row /\ job' = job
    BY <1>5 DEF ConvertRow, dbVars
  <2>2. p \in Posts /\ new \in Content \cup {Unset}
    BY <1>1, <2>1, ConstantAssumption DEF Local, JobKnown, Conversion, Converted, Content
  <2>3. new = Unset \/ row[p] # NoRow
    OBVIOUS
  <2> HIDE DEF p, new
  <2> QED
    BY <2>1, <2>2, <2>3, WriteLocks DEF MayWrite
<1>6. CASE DeleteRow(q)
  <2> DEFINE p == Post(q)
             new == IF row[p] = NoRow THEN Unset ELSE NoRow
  <2>1. /\ Op(q) = "delete" /\ MayWrite(q, p, NoRow)
        /\ Stage(q, p, new) /\ row' = row /\ job' = job
    BY <1>6 DEF DeleteRow, dbVars
  <2>2. p \in Posts /\ new \in {NoRow, Unset}
    BY <1>1, <2>1 DEF Local, JobKnown
  <2> HIDE DEF p, new
  <2> QED
    BY <2>1, <2>2, WriteLocks DEF MayWrite
<1>7. CASE MergeLock(q)
  <2> DEFINE p == Post(q)
             new == IF row[p] = NoRow THEN Unset ELSE row[p]
  <2>1. /\ pc[q] = "describe" /\ MayWrite(q, p, row[p])
        /\ Stage(q, p, new) /\ row' = row /\ job' = job
    BY <1>7 DEF MergeLock, dbVars
  <2>2. p \in Posts
    BY <1>1, <2>1, OpAt DEF Local, JobKnown, Merging
  <2>3. new \in Content \cup {Unset} /\ (new = Unset \/ row[p] # NoRow)
    BY <1>1, <2>2 DEF TypeOK
  <2> HIDE DEF p, new
  <2> QED
    BY <2>1, <2>2, <2>3, WriteLocks DEF MayWrite
<1>8. CASE MergeAbsorb(q)
  <2> DEFINE s == From(q)
             new == IF row[s] = NoRow THEN Unset ELSE NoRow
  <2>1. /\ pc[q] = "absorb" /\ MayWrite(q, s, NoRow)
        /\ Stage(q, s, new) /\ row' = row /\ job' = job
    BY <1>8 DEF MergeAbsorb, dbVars
  <2>2. s \in Posts /\ new \in {NoRow, Unset}
    BY <1>1, <2>1, OpAt DEF Local, JobKnown, Merging
  <2> HIDE DEF s, new
  <2> QED
    BY <2>1, <2>2, WriteLocks DEF MayWrite
<1>9. CASE MergeMeta(q) /\ ~RollBack(q)
  <2> DEFINE p == Post(q)
             new == IF row[p] = NoRow THEN Unset ELSE seen[q][From(q)]
  <2>1. /\ pc[q] = "meta" /\ MayWrite(q, p, seen[q][From(q)])
        /\ Stage(q, p, new) /\ row' = row /\ job' = job
    BY <1>9 DEF MergeMeta, dbVars
  <2>2. p \in Posts /\ From(q) \in Posts
    BY <1>1, <2>1, OpAt DEF Local, JobKnown, Merging
  <2>3. new \in Content \cup {Unset} /\ (new = Unset \/ row[p] # NoRow)
    BY <1>1, <2>2 DEF TypeOK
  <2> HIDE DEF p, new
  <2> QED
    BY <2>1, <2>2, <2>3, WriteLocks DEF MayWrite
<1> QED
  BY <1>2, <1>3, <1>4, <1>5, <1>6, <1>7, <1>8, <1>9

\* The other steps of a request leave rows and locks alone, or end it.
LEMMA OthersLock ==
    ASSUME Inv, Locked, NEW q \in Reqs, Step(q), ~Commit(q), ~TaskRow(q)
    PROVE  Locked' /\ row' = row
<1>1. TypeOK
  BY DEF Inv
<1>2. CASE RollBack(q) \/ (Leave(q) /\ row' = row)
  <2>1. row' = row
    BY <1>2 DEF Step, StartCreate, Insert, Fill, Read, ReplaceSignature, Unlink, Save, Decode,
       Encode, ConvertRow, ConvertUndo, TaskSweep, DeleteRow, Purge, StartMerge, MergeRead,
       MergeLock, MergeAbsorb, SwapMove, MergeMeta, MergePurge, Abort, dbVars
  <2> QED
    BY <1>2, <2>1, EndsUnstaged, KeepsLocks DEF RollBack
<1>3. CASE \/ \E p \in Posts : Insert(q, p)
           \/ Save(q) \/ ConvertRow(q) \/ DeleteRow(q)
           \/ MergeLock(q) \/ MergeAbsorb(q) \/ MergeMeta(q)
  <2>1. row' = row
    BY <1>3 DEF Insert, Save, ConvertRow, DeleteRow, MergeLock, MergeAbsorb, MergeMeta, dbVars
  <2> QED
    BY <1>3, <2>1, WritersLock
<1>4. CASE \/ \E t \in Tokens : StartCreate(q, t)
           \/ \E op \in DOMAIN FirstStep, p \in Posts, t \in Tokens : Read(q, op, p, t)
           \/ \E op \in {"merge", "replace"}, p, s \in Posts : StartMerge(q, op, p, s)
  <2>1. row' = row /\ stage' = stage /\ pc[q] = "idle"
    BY <1>4 DEF StartCreate, Read, StartMerge, dbVars
  <2>2. \A r \in Reqs \ {q} : job'[r] = job[r]
    BY <1>1, <1>4 DEF StartCreate, Read, StartMerge, TypeOK
  <2> QED
    BY <2>1, <2>2, KeepsLocks
<1>5. CASE /\ ~RollBack(q)
           /\ \/ Fill(q) \/ Unlink(q) \/ ReplaceSignature(q) \/ Decode(q) \/ Encode(q)
              \/ MergeRead(q) \/ MergePurge(q)
              \/ \E label \in {"swap1", "swap2", "swap3"} : SwapMove(q, label)
  <2>1. row' = row /\ stage' = stage /\ job' = job
    BY <1>5 DEF Fill, Unlink, ReplaceSignature, Decode, Encode, MergeRead, MergePurge, SwapMove,
       dbVars
  <2> QED
    BY <2>1, KeepsLocks
<1>6. CASE ConvertUndo(q) \/ TaskSweep(q) \/ Purge(q) \/ Abort(q)
  BY <1>2, <1>6 DEF ConvertUndo, TaskSweep, Purge, Abort, dbVars
<1> QED
  BY <1>2, <1>3, <1>4, <1>5, <1>6 DEF Step

LEMMA TaskRowLocks ==
    ASSUME Inv, Locked, NEW q \in Reqs, TaskRow(q)
    PROVE  Locked' /\ \A p \in Posts : row[p] = NoRow => row'[p] = NoRow
<1>1. TypeOK
  BY DEF Inv
<1>2. Converted(q) # NoRow
  <2>1. Local(q) /\ pc[q] = "row" /\ Op(q) = "task"
    BY DEF Inv, TaskRow
  <2> QED
    BY <2>1, ConstantAssumption DEF Local, JobKnown, Conversion, Converted, Content
<1>3. /\ stage' = stage /\ job' = job /\ row' = [row EXCEPT ![Post(q)] = Converted(q)]
      /\ row[Post(q)] # NoRow
  BY DEF TaskRow
<1>4. \A p \in Posts : row'[p] = row[p] \/ (row[p] # NoRow /\ row'[p] # NoRow)
  BY <1>1, <1>2, <1>3 DEF TypeOK
<1> QED
  BY <1>3, <1>4, KeepsLocks

LEMMA NextLocks ==
    ASSUME Inv, Locked, [Next]_vars
    PROVE  Locked'
<1>1. CASE UNCHANGED <<row, job, stage>>
  BY <1>1 DEF Locked, Op, Post
<1>2. CASE \E r \in Reqs : Step(r)
  BY <1>2, CommitLocks, TaskRowLocks, OthersLock
<1>3. CASE Crash
  BY <1>3 DEF Crash, Locked, Nothing
<1> QED
  BY <1>1, <1>2, <1>3 DEF Next, UploadFile, ExpireUpload, vars, dbVars, reqVars

\* What becomes visible in a step is the content a creation has put in place.
LEMMA CreationStep ==
    ASSUME Inv, Locked, [Next]_vars, NEW p \in Posts, row[p] = NoRow, row'[p] # NoRow,
           p \notin torn
    PROVE  Served(p)'
<1>1. row' # row
  OBVIOUS
<1>2. PICK q \in Reqs : Step(q)
  BY <1>1 DEF Next, UploadFile, ExpireUpload, Crash, vars, dbVars
<1>3. Commit(q)
  BY <1>1, <1>2, OthersLock, TaskRowLocks
<1>4. stage[q][p] # Unset /\ row'[p] = stage[q][p] /\ file' = file /\ pc[q] = "commit"
  BY <1>3 DEF Commit, Publish, fsVars
<1>5. Op(q) = "create" /\ p = Post(q)
  BY <1>4 DEF Locked
<1>6. Local(q) /\ p # Unset
  BY ConstantAssumption DEF Inv
<1>7. stage[q][p] = Upload(q) /\ file[p][Upload(q).mime] = Upload(q).pic
  BY <1>4, <1>5, <1>6 DEF Local, Pending, Creating
<1> QED
  BY <1>4, <1>7 DEF Served

\* A post becomes visible only with its file in place and with the content it was
\* created from, whatever else runs and however often anything fails or crashes
\* (create_impl moves the file before COMMIT, and only a creation adds a row).
THEOREM CreationServes == Spec => CreatedWithContent
<1> DEFINE New == \A p \in Posts : row[p] = NoRow /\ row'[p] # NoRow /\ p \notin torn => Served(p)'
<1>1. Init => Locked
  BY DEF Init, Locked, Nothing
<1>2. Inv /\ Locked /\ [Next]_vars => Locked'
  BY NextLocks
<1>3. Inv /\ Locked /\ [Next]_vars => New
  BY CreationStep
<1> HIDE DEF New
<1> QED
  BY <1>1, <1>2, <1>3, Invariance, PTL DEF Spec, CreatedWithContent, New

-----------------------------------------------------------------------------
(* The task converting to JPEG XL keeps its posts served at every step.      *)

\* A post whose files a request has changed, and whose row another has changed since
\* the request read it, is torn or deleted.
Overtaken ==
    \A r \in Reqs : \A p \in dirty[r] \cap stale[r] : p \in torn \/ row[p] = NoRow

\* What a request has changed the files of, only a creation has not read.
LEMMA ChangedIsRead ==
    ASSUME Inv, NEW r \in Reqs, NEW p \in Posts, p \in dirty[r]
    PROVE  seen[r][p] # Unset \/ (Op(r) = "create" /\ p = Post(r))
<1>1. Local(r) /\ HasChanged(r, p)
  BY DEF Inv, Local, Progress
<1>2. CASE Op(r) \in Conversion
  <2>1. pc[r] # "target" /\ p = Post(r)
    BY <1>1, <1>2 DEF Local, JobKnown, LabelsOf, HasChanged, Conversion
  <2> QED
    BY <1>1, <1>2, <2>1 DEF Local, Progress, HasRead, Conversion
<1>3. CASE Op(r) \notin Conversion
  <2>1. (Op(r) = "create" /\ p = Post(r)) \/ HasRead(r, p)
    BY <1>1, <1>3 DEF HasChanged, HasRead, Merging
  <2> QED
    BY <1>1, <2>1 DEF Local, Progress
<1> QED
  BY <1>2, <1>3

LEMMA TouchOvertaken ==
    ASSUME Inv, Overtaken, NEW q \in Reqs, NEW S \in SUBSET Posts, Touch(q, S),
           row' = row, stale' = stale
    PROVE  Overtaken'
<1>1. TypeOK
  BY DEF Inv
<1>2. /\ dirty'[q] = dirty[q] \cup S /\ \A r \in Reqs \ {q} : dirty'[r] = dirty[r]
      /\ torn \subseteq torn'
  BY <1>1 DEF Touch, TypeOK
<1>3. \A p \in S : p \in stale[q] => p \in torn'
  BY DEF Touch, Clash
<1> QED
  BY <1>2, <1>3 DEF Overtaken

LEMMA EndOvertaken ==
    ASSUME Inv, Overtaken, NEW q \in Reqs, Leave(q), row' = row, torn \subseteq torn',
           stale' = [stale EXCEPT ![q] = {}]
    PROVE  Overtaken'
<1>1. \A r \in Reqs \ {q} : dirty'[r] = dirty[r] /\ stale'[r] = stale[r]
  BY DEF Inv, TypeOK, Leave
<1>2. dirty'[q] = {}
  BY DEF Inv, TypeOK, Leave
<1> QED
  BY <1>1, <1>2 DEF Overtaken

\* A commit tears, or deletes, the posts it changes under the hands of others.
LEMMA CommitOvertaken ==
    ASSUME Inv, Locked, Overtaken, NEW q \in Reqs, Commit(q)
    PROVE  Overtaken'
<1>1. TypeOK /\ Local(q)
  BY DEF Inv
<1>2. /\ stale'[q] = {} /\ \A r \in Reqs \ {q} : dirty'[r] = dirty[r]
      /\ torn' = torn \cup ({p \in Posts : stage[q][p] \notin {Unset, row[p]}} \cap stale[q])
      /\ \A p \in Posts : row'[p] = IF stage[q][p] = Unset THEN row[p] ELSE stage[q][p]
  BY <1>1 DEF Commit, Publish, Leave, TypeOK
<1>3. \A r \in Reqs \ {q} : \A p \in stale'[r] :
          p \in stale[r] \/ (p \in Posts /\ stage[q][p] \notin {Unset, row[p]} /\ seen[r][p] # Unset)
  BY <1>1 DEF Commit, Publish, TypeOK
<1> SUFFICES ASSUME NEW r \in Reqs \ {q}, NEW p \in dirty[r], p \in stale'[r], p \notin torn'
             PROVE  row'[p] = NoRow
  BY <1>2 DEF Overtaken
<1>4. p \in Posts /\ p \notin torn
  BY <1>1, <1>2 DEF TypeOK
<1>5. p \notin dirty[q]
  BY <1>4 DEF Inv, Exclusive
<1>6. CASE stage[q][p] \in {Unset, row[p]}
  BY <1>2, <1>3, <1>4, <1>6 DEF Overtaken
<1>7. CASE stage[q][p] \notin {Unset, row[p]}
  <2>1. p \notin stale[q]
    BY <1>2, <1>4, <1>7
  <2>2. ~(Op(q) = "create" /\ p = Post(q))
    <3> SUFFICES ASSUME Op(q) = "create", p = Post(q) PROVE FALSE
      OBVIOUS
    <3>1. p # Unset
      BY <1>4, ConstantAssumption
    <3> QED
      BY <1>1, <1>4, <3>1, ChangedIsRead DEF Local, Pending, Creating
  <2>3. seen[q][p] # Unset /\ (stage[q][p] = NoRow \/ stage[q][p] = seen[q][p])
    BY <1>1, <1>4, <1>5, <1>7, <2>1, <2>2 DEF Local, Written
  <2>4. pc[q] = "commit"
    BY DEF Commit
  <2>5. row[p] = seen[q][p]
    BY <1>1, <1>4, <2>1, <2>3, <2>4 DEF Local, Fresh
  <2> QED
    BY <1>2, <1>4, <1>7, <2>3, <2>5
<1> QED
  BY <1>6, <1>7

LEMMA TaskRowOvertaken ==
    ASSUME Inv, Overtaken, NEW q \in Reqs, TaskRow(q)
    PROVE  Overtaken'
<1>1. TypeOK /\ Local(q)
  BY DEF Inv
<1>2. /\ pc[q] = "row" /\ Op(q) = "task" /\ Post(q) \in Posts
      /\ row[Post(q)] # NoRow /\ row' = [row EXCEPT ![Post(q)] = Converted(q)]
      /\ dirty' = dirty /\ torn \subseteq torn'
      /\ \A r \in Reqs : \A p \in stale'[r] : p \in stale[r] \/ (p = Post(q) /\ r # q)
  BY <1>1 DEF TaskRow, Local, JobKnown, TypeOK
<1>3. Post(q) \in dirty[q]
  BY <1>1, <1>2 DEF Local, Progress, HasChanged, Conversion
<1>4. ASSUME NEW r \in Reqs, NEW p \in dirty[r], p \in stale'[r], p # Post(q)
      PROVE  p \in torn' \/ row'[p] = NoRow
  <2>1. p \in Posts
    BY <1>1 DEF TypeOK
  <2> QED
    BY <1>1, <1>2, <1>4, <2>1 DEF Overtaken, TypeOK
<1>5. ASSUME NEW r \in Reqs, Post(q) \in dirty[r], Post(q) \in stale'[r]
      PROVE  Post(q) \in torn'
  BY <1>2, <1>3, <1>5 DEF Inv, Exclusive, Overtaken
<1> QED
  BY <1>2, <1>4, <1>5 DEF Overtaken

LEMMA StepOvertaken ==
    ASSUME Inv, Locked, Overtaken, NEW q \in Reqs, Step(q)
    PROVE  Overtaken'
<1>1. TypeOK /\ Local(q)
  BY DEF Inv
<1>2. CASE Commit(q) \/ TaskRow(q)
  BY <1>2, CommitOvertaken, TaskRowOvertaken
<1>3. CASE ~Commit(q) /\ ~TaskRow(q) /\ RollBack(q)
  <2>1. row' = row
    BY <1>3, OthersLock
  <2> QED
    BY <1>3, <2>1, EndOvertaken DEF RollBack
<1>4. CASE /\ ~RollBack(q)
           /\ \/ Fill(q) \/ Unlink(q) \/ Encode(q) \/ MergePurge(q)
              \/ \E label \in {"swap1", "swap2", "swap3"} : SwapMove(q, label)
  <2>1. row' = row /\ stale' = stale
    BY <1>4 DEF Fill, Unlink, Encode, MergePurge, SwapMove, RollBack, dbVars
  <2>2. Touch(q, {Post(q)}) \/ Touch(q, {From(q)}) \/ Touch(q, {Post(q), From(q)})
    BY <1>4 DEF Fill, Unlink, Encode, MergePurge, SwapMove, RollBack
  <2>3. Post(q) \in Posts
    BY <1>1, <1>4, OpAt DEF Local, JobKnown, Fill, Unlink, Encode, MergePurge, SwapMove,
       Merging, Conversion, TypeOK, Jobs, Post
  <2>4. Touch(q, {Post(q)}) \/ From(q) \in Posts
    BY <1>1, <1>4, OpAt DEF Local, JobKnown, Fill, Unlink, Encode, MergePurge, SwapMove,
       Merging, RollBack
  <2> QED
    BY <2>1, <2>2, <2>3, <2>4, TouchOvertaken
<1>5. CASE row' = row /\ UNCHANGED <<dirty, stale, torn>>
  BY <1>5 DEF Overtaken
<1>6. CASE /\ ~RollBack(q)
           /\ \/ \E t \in Tokens : StartCreate(q, t)
              \/ \E p \in Posts : Insert(q, p)
              \/ \E op \in DOMAIN FirstStep, p \in Posts, t \in Tokens : Read(q, op, p, t)
              \/ \E op \in {"merge", "replace"}, p, s \in Posts : StartMerge(q, op, p, s)
              \/ Save(q) \/ ReplaceSignature(q) \/ Decode(q) \/ ConvertRow(q) \/ DeleteRow(q)
              \/ MergeRead(q) \/ MergeLock(q) \/ MergeAbsorb(q) \/ MergeMeta(q)
  <2>1. row' = row /\ UNCHANGED <<dirty, stale, torn>>
    BY <1>6 DEF StartCreate, Insert, Read, StartMerge, Save, ReplaceSignature, Decode, ConvertRow,
       DeleteRow, MergeRead, MergeLock, MergeAbsorb, MergeMeta, RollBack, dbVars, histVars
  <2> QED
    BY <1>5, <2>1
<1>7. CASE ConvertUndo(q) \/ TaskSweep(q) \/ Purge(q) \/ Abort(q)
  <2>1. Leave(q) /\ row' = row /\ torn \subseteq torn' /\ stale' = [stale EXCEPT ![q] = {}]
    BY <1>7 DEF ConvertUndo, TaskSweep, Purge, Abort, RollBack, dbVars
  <2> QED
    BY <2>1, EndOvertaken
<1> QED
  BY <1>2, <1>3, <1>4, <1>6, <1>7 DEF Step

LEMMA NextOvertaken ==
    ASSUME Inv, Locked, Overtaken, [Next]_vars
    PROVE  Overtaken'
<1>1. CASE UNCHANGED <<row, dirty, stale, torn>>
  BY <1>1 DEF Overtaken
<1>2. CASE \E r \in Reqs : Step(r)
  BY <1>2, StepOvertaken
<1>3. CASE Crash
  BY <1>3 DEF Crash, Overtaken
<1> QED
  BY <1>1, <1>2, <1>3 DEF Next, UploadFile, ExpireUpload, vars, dbVars, histVars

\* A post that nobody but the tasks is in the middle of is served.
LEMMA ServedBesideTasks ==
    ASSUME Inv, Overtaken
    PROVE  ContentServed
<1> SUFFICES ASSUME NEW p \in Posts, row[p] # NoRow, p \notin torn,
                    \A r \in Reqs : p \in dirty[r] => Op(r) = "task"
             PROVE  Served(p)
  BY DEF ContentServed
<1>1. CASE \A r \in Reqs : p \notin dirty[r]
  BY <1>1 DEF Inv, Settled
<1>2. ASSUME NEW r \in Reqs, p \in dirty[r]
      PROVE  Served(p)
  <2>1. Local(r) /\ Op(r) = "task"
    BY <1>2 DEF Inv
  <2>2. p = Post(r) /\ pc[r] \in {"row", "sweep"}
    BY <1>2, <2>1 DEF Local, JobKnown, LabelsOf, Progress, HasChanged, Conversion
  <2>3. p \notin stale[r] /\ seen[r][p] # Unset
    BY <1>2, <2>1, ChangedIsRead DEF Overtaken
  <2>4. Converts(r)
    BY <2>1, <2>2 DEF Local, UnderWay
  <2>5. CASE pc[r] = "row"
    BY <2>1, <2>2, <2>3, <2>4, <2>5 DEF Converts, Conversion
  <2>6. CASE pc[r] = "sweep"
    <3>1. row[p] = Converted(r)
      BY <2>1, <2>3, <2>6 DEF Local, Fresh
    <3> QED
      BY <2>1, <2>2, <2>4, <2>6, <3>1 DEF Converts, Conversion, Converted, Served
  <2> QED
    BY <2>2, <2>5, <2>6
<1> QED
  BY <1>1, <1>2
\* A post that was not torn by a rolled back or conflicting request, and that nobody but
\* JPEG XL tasks is in the middle of, has the file its row names, with that content
\* (create_impl, update_impl, convert_to_jxl, delete and merge of api/post.rs, the task of
\* admin/post.rs, for any number of posts, requests, uploads and encodings).
THEOREM ContentIsServed == Spec => []ContentServed
<1>1. Init => Locked /\ Overtaken
  BY DEF Init, Locked, Overtaken, Nothing
<1>2. Inv /\ Locked /\ Overtaken /\ [Next]_vars => Locked' /\ Overtaken'
  BY NextLocks, NextOvertaken
<1>3. Inv /\ Overtaken => ContentServed
  BY ServedBesideTasks
<1> QED
  BY <1>1, <1>2, <1>3, Invariance, PTL DEF Spec

-----------------------------------------------------------------------------
(* What conversions keep and merges choose.                                  *)

\* Request q is about to commit other content for p, or the end of p.
Replaces(q, p) ==
    /\ p \in dirty[q]
    /\ \/ Op(q) = "update" /\ Upload(q) # row[p]
       \/ Op(q) = "convert" /\ pc[q] # "row"
       \/ Op(q) = "replace" /\ p = Post(q) /\ seen[q][From(q)] # row[p]
       \/ Op(q) \in Merging /\ p = From(q)

\* A conversion holds the picture of the row it has read.  Only what it decoded in the
\* middle of a replacement can differ, and the end of that replacement makes it stale.
Decoded(r) ==
    LET p == Post(r)
    IN  Op(r) \in Conversion /\ pc[r] \notin {"decode", "sweep"} /\ p \notin torn \cup stale[r] =>
            \/ held[r] = seen[r][p].pic
            \/ \E q \in Reqs \ {r} : Replaces(q, p)

\* What is in the place of the original in the middle of an update and of a swap.
Midway(r) ==
    LET p == Post(r)  old == seen[r][p]
    IN  p \notin torn /\ row[p] # NoRow =>
            /\ Op(r) = "update" /\ pc[r] = "fill" => file[p][old.mime] = NoFile
            /\ pc[r] = "swap2" => file[p][old.mime] = old.pic
            /\ pc[r] = "swap3" => file[p][old.mime] = NoFile

\* A merge writes the row of the post it keeps first and then deletes the other, so it
\* has both to itself before it changes any file.
Marked(r) ==
    LET p == Post(r)  s == From(r)
    IN  Op(r) \in Merging /\ pc[r] \notin {"target", "describe"} =>
            /\ row[p] # NoRow => stage[r][p] # Unset
            /\ Op(r) = "merge" => stage[r][p] \in {Unset, row[p]}
            /\ pc[r] # "absorb" => /\ stage[r][s] \in {Unset, NoRow}
                                   /\ row[s] # NoRow => stage[r][s] = NoRow
            /\ s \in dirty[r] /\ s \notin torn => row[s] # NoRow

\* A step of one request leaves what the others remember, and may make them stale.
LEMMA StepOthers ==
    ASSUME Inv, NEW q \in Reqs, Step(q), NEW r \in Reqs \ {q}
    PROVE  /\ pc'[r] = pc[r] /\ job'[r] = job[r] /\ seen'[r] = seen[r]
           /\ stage'[r] = stage[r] /\ held'[r] = held[r] /\ dirty'[r] = dirty[r]
           /\ stale[r] \subseteq stale'[r] /\ torn \subseteq torn'
<1>1. TypeOK
  BY DEF Inv
<1>2. CASE RollBack(q)
  BY <1>1, <1>2 DEF RollBack, Leave, TypeOK
<1>3. CASE Commit(q)
  BY <1>1, <1>3 DEF Commit, Publish, Leave, Goto, TypeOK
<1>4. CASE TaskSweep(q) \/ Purge(q)
  BY <1>1, <1>4 DEF TaskSweep, Purge, Leave, TypeOK
<1>5. CASE TaskRow(q)
  BY <1>1, <1>5 DEF TaskRow, Goto, TypeOK
<1>6. CASE /\ ~RollBack(q)
           /\ \/ \E t \in Tokens : StartCreate(q, t)
              \/ \E p \in Posts : Insert(q, p)
              \/ \E op \in DOMAIN FirstStep, p \in Posts, t \in Tokens : Read(q, op, p, t)
              \/ \E op \in {"merge", "replace"}, p, s \in Posts : StartMerge(q, op, p, s)
              \/ MergeRead(q)
  BY <1>1, <1>6 DEF StartCreate, Insert, Read, StartMerge, MergeRead, Stage, Goto, TypeOK, histVars
<1>7. CASE /\ ~RollBack(q)
           /\ \/ Save(q) \/ ReplaceSignature(q) \/ Decode(q) \/ ConvertRow(q) \/ DeleteRow(q)
              \/ MergeLock(q) \/ MergeAbsorb(q) \/ MergeMeta(q)
  BY <1>1, <1>7 DEF Save, ReplaceSignature, Decode, ConvertRow, DeleteRow, MergeLock, MergeAbsorb,
     MergeMeta, Stage, Goto, TypeOK, histVars
<1>8. CASE /\ ~RollBack(q)
           /\ \/ Fill(q) \/ Unlink(q) \/ Encode(q) \/ MergePurge(q)
              \/ \E label \in {"swap1", "swap2", "swap3"} : SwapMove(q, label)
  BY <1>1, <1>8 DEF Fill, Unlink, Encode, MergePurge, SwapMove, Touch, Goto, TypeOK
<1> QED
  BY <1>2, <1>3, <1>4, <1>5, <1>6, <1>7, <1>8 DEF Step, ConvertUndo, Abort

\* Rows change by a commit or the task's update, with notice to those who have read them.
LEMMA StepRows ==
    ASSUME Inv, Locked, NEW q \in Reqs, Step(q), NEW p \in Posts, row'[p] # row[p]
    PROVE  /\ \/ Commit(q) /\ stage[q][p] # Unset /\ row'[p] = stage[q][p]
              \/ TaskRow(q) /\ p = Post(q) /\ p \in dirty[q] /\ row[p] # NoRow
           /\ \A r \in Reqs \ {q} : /\ stage[r][p] = Unset
                                    /\ seen[r][p] # Unset => p \in stale'[r]
<1>1. TypeOK /\ Local(q)
  BY DEF Inv
<1>2. CASE Commit(q)
  BY <1>1, <1>2 DEF Commit, Publish, Locked, TypeOK
<1>3. CASE TaskRow(q)
  <2>1. p = Post(q) /\ row[p] # NoRow /\ row'[p] = Converted(q)
    BY <1>1, <1>3 DEF TaskRow, TypeOK
  <2>2. p \in dirty[q]
    BY <1>1, <1>3, <2>1 DEF TaskRow, Local, Progress, HasChanged, Conversion
  <2>3. \A r \in Reqs \ {q} : stage[r][p] = Unset
    BY <1>3, <2>1 DEF TaskRow, MayWrite
  <2> QED
    BY <1>1, <1>3, <2>1, <2>2, <2>3 DEF TaskRow, TypeOK
<1> QED
  BY <1>2, <1>3, OthersLock

\* A row that is gone stays gone, for whoever has read it.
LEMMA GoneForGood ==
    ASSUME Inv, Locked, NEW q \in Reqs, Step(q), NEW r \in Reqs, NEW p \in Posts,
           seen[r][p] # Unset, row[p] = NoRow
    PROVE  row'[p] = NoRow
<1> SUFFICES ASSUME row'[p] # NoRow
             PROVE  FALSE
  OBVIOUS
<1>1. Commit(q) /\ stage[q][p] # Unset /\ row'[p] = stage[q][p]
  BY StepRows
<1>2. Op(q) = "create" /\ p = Post(q)
  BY <1>1 DEF Locked
<1>3. Local(q) /\ Local(r) /\ p # Unset
  BY ConstantAssumption DEF Inv
<1>4. CASE r = q
  BY <1>2, <1>3, <1>4 DEF Local, Progress, HasRead, Merging
<1>5. CASE r # q
  BY <1>2, <1>3, <1>5 DEF Local, Pending, Creating
<1> QED
  BY <1>4, <1>5

\* Files change under another's hands only of a post that is torn by it, or gone.
LEMMA StepFiles ==
    ASSUME Inv, NEW q \in Reqs, Step(q), NEW r \in Reqs \ {q}, NEW p \in Posts,
           p \in dirty[r], file'[p] # file[p]
    PROVE  p \in torn' \/ row[p] = NoRow
<1>1. TypeOK /\ Local(q) /\ torn \subseteq torn'
  BY StepOthers DEF Inv
<1>3. CASE Fill(q) \/ Unlink(q) \/ Encode(q)
  <2>1. Touch(q, {Post(q)}) /\ p = Post(q)
    BY <1>1, <1>3 DEF Fill, Unlink, Encode, TypeOK, fsVars
  <2> QED
    BY <2>1 DEF Touch, Clash
<1>4. CASE MergePurge(q)
  <2>1. Touch(q, {From(q)}) /\ p = From(q)
    BY <1>1, <1>4 DEF MergePurge, TypeOK
  <2> QED
    BY <2>1 DEF Touch, Clash
<1>5. CASE \E label \in {"swap1", "swap2", "swap3"} : SwapMove(q, label)
  <2>1. Touch(q, {Post(q), From(q)}) /\ p \in {Post(q), From(q)}
    BY <1>1, <1>5 DEF SwapMove, TypeOK, fsVars
  <2> QED
    BY <2>1 DEF Touch, Clash
<1>6. CASE ConvertUndo(q) \/ TaskSweep(q)
  <2>1. p = Post(q) /\ Op(q) \in Conversion /\ pc[q] \in {"row", "sweep"}
    BY <1>1, <1>6, OpAt DEF ConvertUndo, TaskSweep, TypeOK, Local, Conversion
  <2>2. p \in dirty[q]
    BY <1>1, <2>1 DEF Local, Progress, HasChanged
  <2> QED
    BY <1>1, <2>2 DEF Inv, Exclusive
<1>7. CASE Purge(q)
  BY <1>1, <1>7 DEF Purge, TypeOK, Local, Deleted
<1> QED
  BY <1>3, <1>4, <1>5, <1>6, <1>7
     DEF Step, StartCreate, Insert, Read, StartMerge, Save, ReplaceSignature, Decode, ConvertRow,
     TaskRow, DeleteRow, MergeRead, MergeLock, MergeAbsorb, MergeMeta, Commit, Abort, fsVars

\* What marks the rows of a merge is kept by the others' steps ...
LEMMA OthersMarked ==
    ASSUME Inv, Locked, NEW q \in Reqs, Step(q), NEW r \in Reqs \ {q}, Marked(r)
    PROVE  Marked(r)'
<1> DEFINE p == Post(r)  s == From(r)
<1>1. /\ pc'[r] = pc[r] /\ stage'[r] = stage[r] /\ dirty'[r] = dirty[r]
      /\ Op(r)' = Op(r) /\ Post(r)' = p /\ From(r)' = s /\ torn \subseteq torn'
  BY StepOthers DEF Op, Post, From
<1> SUFFICES ASSUME Op(r) \in Merging, pc[r] \notin {"target", "describe"}
             PROVE  Marked(r)'
  BY <1>1 DEF Marked
<1>2. p \in Posts /\ s \in Posts /\ seen[r][p] # Unset /\ seen[r][s] # Unset
  BY DEF Inv, Local, JobKnown, Progress, HasRead, Merging
<1>3. \A o \in {p, s} : row'[o] = row[o] \/ (stage[r][o] = Unset /\ row[o] # NoRow)
  BY <1>2, StepRows, GoneForGood
<1>4. pc[r] = "absorb" => s \notin dirty[r]
  BY <1>2 DEF Inv, Local, JobKnown, Progress, HasChanged, Merging, Conversion
<1> QED
  BY <1>1, <1>3, <1>4, ConstantAssumption DEF Marked

\* ... and by the merge's own.
LEMMA OwnMarked ==
    ASSUME Inv, Locked, NEW q \in Reqs, Step(q), Marked(q)
    PROVE  Marked(q)'
<1> DEFINE p == Post(q)  s == From(q)
<1>1. TypeOK /\ Local(q)
  BY DEF Inv
<1>2. CASE Leave(q)
  BY <1>1, <1>2 DEF Leave, NoJob, Op, Marked, Merging, TypeOK
<1>3. CASE \/ \E t \in Tokens : StartCreate(q, t)
           \/ \E o \in Posts : Insert(q, o)
           \/ \E op \in DOMAIN FirstStep, o \in Posts, t \in Tokens : Read(q, op, o, t)
  <2>1. ASSUME NEW t \in Tokens, StartCreate(q, t)
        PROVE  Op(q)' \notin Merging
    BY <1>1, <2>1 DEF StartCreate, NoJob, Op, Merging, TypeOK
  <2>2. ASSUME NEW o \in Posts, Insert(q, o)
        PROVE  Op(q)' \notin Merging \/ Leave(q)
    <3>1. pc[q] = "insert" /\ (Leave(q) \/ job' = [job EXCEPT ![q].post = o])
      BY <2>2 DEF Insert, RollBack
    <3>2. Op(q) = "create"
      BY <1>1, <3>1, OpAt DEF Local
    <3> QED
      BY <1>1, <3>1, <3>2 DEF Op, Merging, TypeOK, Jobs
  <2>3. ASSUME NEW op \in DOMAIN FirstStep, NEW o \in Posts, NEW t \in Tokens, Read(q, op, o, t)
        PROVE  Op(q)' \notin Merging
    <3>1. Op(q)' = op
      BY <1>1, <2>3 DEF Read, NoJob, Op, TypeOK
    <3> QED
      BY <3>1 DEF FirstStep, Merging
  <2> QED
    BY <1>2, <1>3, <2>1, <2>2, <2>3 DEF Marked
<1>4. CASE (\E op \in {"merge", "replace"}, o, d \in Posts : StartMerge(q, op, o, d)) \/ MergeRead(q)
  <2>1. pc'[q] \in {"target", "describe"} \/ Leave(q)
    BY <1>1, <1>4 DEF StartMerge, MergeRead, Goto, TypeOK, RollBack
  <2> QED
    BY <1>2, <2>1 DEF Marked
<1>5. CASE /\ ~Leave(q) /\ Op(q) \notin Merging
           /\ \/ Fill(q) \/ Unlink(q) \/ Save(q) \/ ReplaceSignature(q) \/ Decode(q) \/ Encode(q)
              \/ ConvertRow(q) \/ TaskRow(q) \/ DeleteRow(q) \/ Commit(q)
  <2>1. job' = job
    BY <1>5 DEF Fill, Unlink, Save, ReplaceSignature, Decode, Encode, ConvertRow, TaskRow,
       DeleteRow, Commit, RollBack
  <2> QED
    BY <1>5, <2>1 DEF Marked, Op
<1>6. CASE MergeLock(q)
  <2>0. pc[q] = "describe"
    BY <1>6 DEF MergeLock
  <2>1. Op(q) \in Merging /\ p \in Posts /\ s \in Posts /\ s # p
    BY <1>1, <2>0, OpAt DEF Local, JobKnown, Merging
  <2>2. /\ pc'[q] = "absorb" /\ job' = job /\ row' = row /\ dirty' = dirty /\ torn' = torn
        /\ stage'[q][p] = IF row[p] = NoRow THEN Unset ELSE row[p]
    BY <1>1, <1>6, <2>1 DEF MergeLock, Goto, Stage, TypeOK, dbVars, histVars
  <2>3. s \notin dirty[q]
    BY <1>1, <1>6, <2>1 DEF MergeLock, Local, Progress, HasChanged, Merging, Conversion
  <2>4. Op(q)' = Op(q) /\ Post(q)' = p /\ From(q)' = s
    BY <2>2 DEF Op, Post, From
  <2>5. row[p] # Unset
    BY <1>1, <2>1, ConstantAssumption DEF TypeOK
  <2> HIDE DEF p, s
  <2> QED
    BY <2>2, <2>3, <2>4, <2>5 DEF Marked, p, s
<1>7. CASE MergeAbsorb(q)
  <2>0. pc[q] = "absorb"
    BY <1>7 DEF MergeAbsorb
  <2>1. Op(q) \in Merging /\ p \in Posts /\ s \in Posts /\ s # p
    BY <1>1, <2>0, OpAt DEF Local, JobKnown, Merging
  <2>2. /\ pc[q] = "absorb" /\ job' = job /\ row' = row /\ dirty' = dirty /\ torn' = torn
        /\ stage'[q][s] = IF row[s] = NoRow THEN Unset ELSE NoRow
        /\ stage'[q][p] = stage[q][p]
    BY <1>1, <1>7, <2>1 DEF MergeAbsorb, Stage, TypeOK, dbVars, histVars
  <2>3. s \notin dirty[q]
    BY <1>1, <2>1, <2>2 DEF Local, Progress, HasChanged, Merging, Conversion
  <2> QED
    BY <2>1, <2>2, <2>3 DEF Marked, Op, Post, From
<1>8. CASE MergeMeta(q) /\ ~Leave(q)
  <2>1. Op(q) = "replace" /\ p \in Posts /\ s \in Posts /\ s # p /\ seen[q][s] # Unset
    BY <1>1, <1>8, OpAt DEF MergeMeta, Local, JobKnown, Merging, Progress, HasRead
  <2>2. /\ pc[q] = "meta" /\ job' = job /\ row' = row /\ dirty' = dirty /\ torn' = torn
        /\ stage'[q][p] = IF row[p] = NoRow THEN Unset ELSE seen[q][s]
        /\ stage'[q][s] = stage[q][s]
    BY <1>1, <1>8, <2>1 DEF MergeMeta, Stage, RollBack, TypeOK, dbVars, histVars
  <2> QED
    BY <2>1, <2>2 DEF Marked, Op, Post, From, Merging
<1>9. CASE /\ ~Leave(q)
           /\ \/ MergePurge(q)
              \/ \E label \in {"swap1", "swap2", "swap3"} : SwapMove(q, label)
  <2>1. /\ Op(q) \in Merging /\ p \in Posts /\ s \in Posts
        /\ pc[q] \in {"swap1", "swap2", "swap3", "purge"}
    BY <1>1, <1>9, OpAt DEF MergePurge, SwapMove, Local, JobKnown, Merging
  <2>2. /\ job' = job /\ row' = row /\ stage' = stage
        /\ Touch(q, {s}) \/ Touch(q, {p, s})
    BY <1>9 DEF MergePurge, SwapMove, RollBack, dbVars
  <2>3. torn \subseteq torn' /\ (s \in torn' \/ s \notin stale[q])
    BY <2>2 DEF Touch, Clash
  <2>4. s \notin stale[q] => row[s] = seen[q][s] /\ seen[q][s] # Unset
    BY <1>1, <2>1 DEF Local, Fresh, Progress, HasRead, Merging
  <2>5. s \in torn' \/ row[s] # NoRow
    BY <1>1, <2>1, <2>3, <2>4, ConstantAssumption DEF TypeOK
  <2> QED
    BY <2>1, <2>2, <2>3, <2>5 DEF Marked, Op, Post, From
<1>10. CASE Commit(q) /\ ~Leave(q)
  <2>1. Op(q) = "delete" /\ job' = job
    BY <1>10 DEF Commit
  <2> QED
    BY <2>1 DEF Marked, Op, Merging
<1>11. CASE Op(q) \in Merging
  <2>1. \/ Leave(q) \/ MergeLock(q) \/ MergeAbsorb(q) \/ MergeMeta(q) \/ MergePurge(q)
        \/ MergeRead(q) \/ Commit(q)
        \/ \E label \in {"swap1", "swap2", "swap3"} : SwapMove(q, label)
    BY <1>1, <1>11, OpAt DEF Step, Local, Merging, Conversion, StartCreate, Insert, Read,
       StartMerge,
       Fill, Unlink, Save, ReplaceSignature, Decode, Encode, ConvertRow, ConvertUndo, TaskRow,
       TaskSweep, DeleteRow, Purge, Abort, RollBack
  <2> QED
    BY <1>2, <1>4, <1>6, <1>7, <1>8, <1>9, <1>10, <2>1
<1>12. CASE Op(q) \notin Merging
  <2>1. ~MergeLock(q) /\ ~MergeAbsorb(q) /\ ~MergeMeta(q) /\ ~MergePurge(q)
        /\ ~(\E label \in {"swap1", "swap2", "swap3"} : SwapMove(q, label))
    BY <1>1, <1>12, OpAt DEF MergeLock, MergeAbsorb, MergeMeta, MergePurge, SwapMove, Local, Merging
  <2> QED
    BY <1>2, <1>3, <1>4, <1>5, <1>12, <2>1
       DEF Step, ConvertUndo, TaskSweep, Purge, Abort, RollBack
<1> QED
  BY <1>11, <1>12

\* What lies in the middle of an update or a swap lies there until its next step.
LEMMA OthersMidway ==
    ASSUME Inv, Locked, NEW q \in Reqs, Step(q), NEW r \in Reqs \ {q}, Midway(r)
    PROVE  Midway(r)'
<1> DEFINE p == Post(r)
<1>1. /\ pc'[r] = pc[r] /\ seen'[r] = seen[r] /\ torn \subseteq torn'
      /\ Op(r)' = Op(r) /\ Post(r)' = p
  BY StepOthers DEF Op, Post
<1>2. TypeOK /\ Local(r)
  BY DEF Inv
<1> SUFFICES ASSUME p \notin torn', row'[p] # NoRow,
                    (Op(r) = "update" /\ pc[r] = "fill") \/ pc[r] \in {"swap2", "swap3"}
             PROVE  row[p] # NoRow /\ file'[p] = file[p]
  BY <1>1 DEF Midway
<1>3. p \in Posts /\ seen[r][p] # Unset /\ p \in dirty[r]
  BY <1>2, OpAt DEF Local, JobKnown, Progress, HasRead, HasChanged, Merging
<1> QED
  BY <1>3, GoneForGood, StepFiles

LEMMA OwnMidway ==
    ASSUME Inv, Overtaken, NEW q \in Reqs, Step(q), Midway(q)
    PROVE  Midway(q)'
<1> DEFINE p == Post(q)  old == seen[q][p]
           s == From(q)  new == seen[q][s]
<1>1. TypeOK /\ Local(q) /\ Settled
  BY DEF Inv
<1>2. CASE pc'[q] \notin {"fill", "swap2", "swap3"}
  BY <1>2 DEF Midway
<1>3. CASE Op(q)' = "create" /\ pc'[q] = "fill"
  BY <1>3 DEF Midway
<1>4. CASE Unlink(q)
  <2>1. /\ job' = job /\ seen' = seen
        /\ file' = [file EXCEPT ![p][old.mime] = NoFile]
    BY <1>4 DEF Unlink
  <2>5. pc[q] = "unlink" /\ pc'[q] \notin {"swap2", "swap3"}
    BY <1>1, <1>4 DEF Unlink, Goto, TypeOK
  <2>6. Op(q) \in {"update", "convert"}
    BY <1>1, <2>5, OpAt DEF Local
  <2>2. p \in Posts /\ seen[q][p] \in Content /\ pc'[q] \notin {"swap2", "swap3"}
    BY <1>1, <2>5, <2>6, ConstantAssumption
       DEF Local, JobKnown, Progress, HasRead, TypeOK, Merging
  <2>3. old.mime \in Mimes
    BY <2>2 DEF Content
  <2>4. file'[p][old.mime] = NoFile
    BY <1>1, <2>1, <2>2, <2>3 DEF TypeOK
  <2> QED
    BY <2>1, <2>2, <2>4 DEF Midway, Op, Post
<1>5. ASSUME NEW label \in {"swap1", "swap2", "swap3"}, SwapMove(q, label),
             pc'[q] \in {"swap2", "swap3"}, p \notin torn', row[p] # NoRow
      PROVE  file'[p][old.mime] = IF pc'[q] = "swap2" THEN old.pic ELSE NoFile
  <2>0. pc[q] = label
    BY <1>5 DEF SwapMove
  <2>7. Op(q) = "replace"
    BY <1>1, <2>0, OpAt DEF Local
  <2>1. /\ Op(q) = "replace" /\ p \in Posts /\ s \in Posts /\ s # p
        /\ old \in Content /\ new \in Content /\ pc[q] = label
    BY <1>1, <2>0, <2>7, ConstantAssumption
       DEF Local, JobKnown, Progress, HasRead, TypeOK, Merging
  <2>2. old.mime \in Mimes /\ new.mime \in Mimes
    BY <2>1 DEF Content
  <2>3. Touch(q, {p, s}) /\ job' = job /\ seen' = seen
    BY <1>1, <1>5 DEF SwapMove, RollBack, Leave, TypeOK
  <2>4. CASE label = "swap1"
    <3>1. p \notin stale[q] /\ \A r \in Reqs : p \notin dirty[r]
      <4>1. p \notin dirty[q]
        BY <1>1, <2>1, <2>4 DEF Local, Progress, HasChanged, Conversion
      <4> QED
        BY <1>5, <2>3, <4>1 DEF Touch, Clash
    <3>2. p \notin torn
      BY <1>5, <2>3 DEF Touch
    <3>3. row[p] = old /\ Served(p)
      BY <1>1, <1>5, <2>1, <2>4, <3>1, <3>2, ConstantAssumption
         DEF Local, Fresh, Settled, TypeOK, Progress, HasRead
    <3>4. \/ old.mime = new.mime /\ file' = [file EXCEPT ![s][new.mime] = NoFile]
          \/ /\ old.mime # new.mime
             /\ file' = [file EXCEPT ![p][new.mime] = file[s][new.mime], ![s][new.mime] = NoFile]
      BY <1>1, <1>5, <2>1, <2>4 DEF SwapMove, RollBack, Leave, TypeOK
    <3>5. pc'[q] = "swap2"
      BY <1>1, <1>5, <2>1, <2>4 DEF SwapMove, RollBack, Leave, Goto, TypeOK
    <3>6. file'[p][old.mime] = file[p][old.mime]
      BY <1>1, <2>1, <2>2, <3>4 DEF TypeOK
    <3> QED
      BY <3>3, <3>5, <3>6 DEF Served
  <2>5. CASE label = "swap2"
    <3>1. file' = [file EXCEPT ![s][old.mime] = file[p][old.mime], ![p][old.mime] = NoFile]
      BY <1>1, <1>5, <2>1, <2>5 DEF SwapMove, RollBack, Leave, TypeOK
    <3>2. pc'[q] = "swap3"
      BY <1>1, <1>5, <2>1, <2>5 DEF SwapMove, RollBack, Leave, Goto, TypeOK
    <3> QED
      BY <1>1, <2>1, <2>2, <3>1, <3>2 DEF TypeOK
  <2>6. CASE label = "swap3"
    BY <1>1, <1>5, <2>1, <2>6 DEF SwapMove, Goto, TypeOK
  <2> QED
    BY <2>4, <2>5, <2>6
<1>6. CASE \E label \in {"swap1", "swap2", "swap3"} : SwapMove(q, label)
  <2>1. CASE pc'[q] \in {"swap2", "swap3"}
    <3>1. job' = job /\ seen' = seen /\ row' = row /\ Op(q) = "replace"
      BY <1>1, <1>6, <2>1, OpAt DEF SwapMove, RollBack, Leave, TypeOK, dbVars, Local
    <3>2. p \notin torn' /\ row[p] # NoRow =>
            file'[p][old.mime] = IF pc'[q] = "swap2" THEN old.pic ELSE NoFile
      BY <1>5, <1>6, <2>1
    <3> QED
      BY <2>1, <3>1, <3>2 DEF Midway, Op, Post
  <2>2. CASE pc'[q] = "fill"
    BY <1>1, <1>6, <2>2 DEF SwapMove, RollBack, Leave, Goto, TypeOK
  <2> QED
    BY <1>2, <2>1, <2>2
<1>7. CASE \E o \in Posts : Insert(q, o)
  <2>1. pc'[q] = "idle" \/ (Op(q)' = "create" /\ pc'[q] = "fill")
    BY <1>1, <1>7, OpAt DEF Insert, RollBack, Leave, Goto, TypeOK, Jobs, Op, Local
  <2> QED
    BY <1>2, <1>3, <2>1
<1>8. CASE ~Unlink(q) /\ ~(\E label \in {"swap1", "swap2", "swap3"} : SwapMove(q, label))
           /\ ~(\E o \in Posts : Insert(q, o))
  <2>1. CASE MergeAbsorb(q)
    BY <1>1, <1>2, <2>1 DEF MergeAbsorb, Goto, TypeOK
  <2>2. CASE \E op \in DOMAIN FirstStep, o \in Posts, t \in Tokens : Read(q, op, o, t)
    BY <1>1, <1>2, <2>2 DEF Read, Goto, TypeOK, FirstStep
  <2>3. CASE ~MergeAbsorb(q) /\ ~(\E op \in DOMAIN FirstStep, o \in Posts, t \in Tokens : Read(q, op, o, t))
    BY <1>1, <1>2, <1>8, <2>3 DEF Step, TypeOK, Leave, RollBack, Goto, StartCreate, StartMerge,
       Fill, Save, ReplaceSignature, Decode, Encode, ConvertRow, ConvertUndo, TaskRow, TaskSweep,
       DeleteRow, Purge, MergeRead, MergeLock, MergeMeta, MergePurge, Commit, Abort
  <2> QED
    BY <2>1, <2>2, <2>3
<1> QED
  BY <1>4, <1>6, <1>7, <1>8

\* What a request is about to replace it has staged when it commits.
LEMMA ReplacedIsStaged ==
    ASSUME Inv, NEW q \in Reqs, NEW p \in Posts, Replaces(q, p), pc[q] = "commit",
           p \notin torn, row[p] # NoRow, row[p].mime # Jxl
    PROVE  stage[q][p] \notin {Unset, row[p]}
<1>1. TypeOK /\ Local(q) /\ p \in dirty[q]
  BY DEF Inv, Replaces
<1>2. HasChanged(q, p)
  BY <1>1 DEF Local, Progress
<1>3. CASE Op(q) = "update" /\ Upload(q) # row[p]
  <2>1. p = Post(q)
    BY <1>2, <1>3 DEF HasChanged, Conversion
  <2>2. stage[q][p] = Upload(q)
    BY <1>1, <1>3, <2>1 DEF Local, UnderWay, ReplacesContent
  <2>3. Upload(q) \in Content
    BY <1>1, <1>3, ConstantAssumption DEF Local, JobKnown, Upload
  <2> QED
    BY <1>3, <2>2, <2>3, ConstantAssumption
<1>4. CASE Op(q) = "convert"
  <2>1. p = Post(q)
    BY <1>2, <1>4 DEF HasChanged, Conversion
  <2>2. stage[q][p] = Converted(q)
    BY <1>1, <1>4, <2>1 DEF Local, UnderWay, Converts, Conversion
  <2>3. Converted(q) \in Content /\ Converted(q).mime = Jxl
    BY <1>1, <1>4, ConstantAssumption DEF Local, JobKnown, Converted, Content, Conversion
  <2> QED
    BY <2>2, <2>3, ConstantAssumption
<1>5. CASE Op(q) = "replace" /\ p = Post(q) /\ seen[q][From(q)] # row[p]
  <2>1. stage[q][p] = seen[q][From(q)]
    BY <1>1, <1>5 DEF Local, UnderWay, Swaps
  <2>2. seen[q][From(q)] # Unset
    BY <1>1, <1>5 DEF Local, JobKnown, Progress, HasRead, Merging
  <2> QED
    BY <1>5, <2>1, <2>2
<1>6. CASE Op(q) \in Merging /\ p = From(q)
  <2>1. stage[q][p] = NoRow
    BY <1>1, <1>6 DEF Local, Deleted, Gone
  <2> QED
    BY <2>1, ConstantAssumption
<1> QED
  BY <1>3, <1>4, <1>5, <1>6 DEF Replaces

\* Somebody who is about to replace a post is still, until it is replaced or torn.
LEMMA StillReplaces ==
    ASSUME Inv, NEW q \in Reqs, Step(q), NEW o \in Reqs, NEW p \in Posts, Replaces(o, p),
           p \notin torn', row'[p] = row[p], row[p] # NoRow, row[p].mime # Jxl
    PROVE  Replaces(o, p)'
<1>1. TypeOK /\ Local(o) /\ Local(q) /\ p \in dirty[o]
  BY DEF Inv, Replaces
<1>2. CASE o # q
  <2>1. /\ pc'[o] = pc[o] /\ seen'[o] = seen[o] /\ dirty'[o] = dirty[o]
        /\ Op(o)' = Op(o) /\ Post(o)' = Post(o) /\ From(o)' = From(o) /\ Upload(o)' = Upload(o)
    BY <1>2, StepOthers DEF Op, Post, From, Upload
  <2> QED
    BY <2>1 DEF Replaces
<1>3. CASE o = q /\ RollBack(q)
  <2>1. dirty[q] \subseteq torn'
    <3>1. ~(Op(q) \in {"convert", "task"} /\ pc[q] \in {"row", "sweep"})
      BY <1>1, <1>3 DEF Replaces, Local, JobKnown, LabelsOf, Merging
    <3> QED
      BY <1>3, <3>1 DEF RollBack, Spoiled
  <2> QED
    BY <1>1, <1>3, <2>1
<1>4. CASE o = q /\ Commit(q)
  <2>1. pc[q] = "commit" /\ torn \subseteq torn'
    BY <1>4 DEF Commit, Publish
  <2>2. stage[q][p] \notin {Unset, row[p]}
    BY <1>4, <2>1, ReplacedIsStaged
  <2> QED
    BY <1>4, <2>2 DEF Commit, Publish
<1>5. CASE /\ o = q /\ ~RollBack(q)
           /\ \/ Fill(q) \/ Unlink(q) \/ Save(q) \/ MergeMeta(q) \/ MergePurge(q)
              \/ \E label \in {"swap1", "swap2", "swap3"} : SwapMove(q, label)
  <2>1. job' = job /\ seen' = seen /\ pc'[q] # "row"
    BY <1>1, <1>5 DEF Fill, Unlink, Save, MergeMeta, MergePurge, SwapMove, RollBack, Goto, TypeOK
  <2>2. p \in dirty'[q]
    BY <1>1, <1>5 DEF Fill, Unlink, Save, MergeMeta, MergePurge, SwapMove, RollBack, Touch,
       histVars, TypeOK
  <2>3. /\ Op(q)' = Op(q) /\ Post(q)' = Post(q) /\ From(q)' = From(q) /\ Upload(q)' = Upload(q)
        /\ seen'[q][From(q)'] = seen[q][From(q)]
    BY <2>1 DEF Op, Post, From, Upload
  <2> QED
    BY <1>5, <2>1, <2>2, <2>3 DEF Replaces
<1>6. CASE o = q
  <2>1. HasChanged(q, p) /\ Op(q) \in {"update", "convert", "replace", "merge"}
    BY <1>1, <1>6 DEF Local, Progress, Replaces, Merging
  <2>2. pc[q] \in {"fill", "save", "commit", "unlink", "purge", "swap2", "swap3", "meta"}
    BY <1>1, <1>6, <2>1 DEF Local, JobKnown, LabelsOf, HasChanged, Replaces, Merging, Conversion
  <2>3. (~Purge(q) /\ ~Abort(q)) \/ RollBack(q)
    BY <2>1 DEF Purge, Abort
  <2>4. \/ RollBack(q) \/ Commit(q) \/ Fill(q) \/ Unlink(q) \/ Save(q) \/ MergeMeta(q)
        \/ MergePurge(q)
        \/ \E label \in {"swap1", "swap2", "swap3"} : SwapMove(q, label)
    BY <2>2, <2>3 DEF Step, StartCreate, Insert, Read, StartMerge, ReplaceSignature, Decode, Encode,
       ConvertRow, ConvertUndo, TaskRow, TaskSweep, DeleteRow, MergeRead, MergeLock, MergeAbsorb
  <2> QED
    BY <1>3, <1>4, <1>5, <1>6, <2>4
<1> QED
  BY <1>2, <1>6

\* What a conversion that is not stale knows of its post.
LEMMA ConversionKnows ==
    ASSUME Inv, NEW r \in Reqs, Op(r) \in Conversion, pc[r] # "sweep", Post(r) \notin stale[r]
    PROVE  /\ Post(r) \in Posts /\ row[Post(r)] = seen[r][Post(r)]
           /\ row[Post(r)] \in Content /\ row[Post(r)] # NoRow /\ row[Post(r)].mime # Jxl
<1>1. TypeOK /\ Local(r) /\ Post(r) \in Posts
  BY DEF Inv, Local, JobKnown, Conversion
<1>2. seen[r][Post(r)] # Unset
  BY <1>1 DEF Local, JobKnown, LabelsOf, Progress, HasRead, Conversion
<1>3. row[Post(r)] = seen[r][Post(r)]
  BY <1>1, <1>2 DEF Local, Fresh, Conversion
<1> QED
  BY <1>1, <1>2, <1>3, ConstantAssumption DEF Local, JobKnown, TypeOK

LEMMA OthersDecoded ==
    ASSUME Inv, Locked, NEW q \in Reqs, Step(q), NEW r \in Reqs \ {q}, Decoded(r)
    PROVE  Decoded(r)'
<1> DEFINE p == Post(r)
<1>1. /\ pc'[r] = pc[r] /\ seen'[r] = seen[r] /\ held'[r] = held[r]
      /\ stale[r] \subseteq stale'[r] /\ torn \subseteq torn'
      /\ Op(r)' = Op(r) /\ Post(r)' = p
  BY StepOthers DEF Op, Post
<1> SUFFICES ASSUME Op(r) \in Conversion, pc[r] \notin {"decode", "sweep"},
                    p \notin torn', p \notin stale'[r]
             PROVE  held[r] = seen[r][p].pic \/ \E o \in Reqs \ {r} : Replaces(o, p)'
  BY <1>1 DEF Decoded
<1>2. p \notin torn /\ p \notin stale[r]
  BY <1>1
<1>3. p \in Posts /\ row[p] = seen[r][p] /\ row[p] # NoRow /\ row[p].mime # Jxl /\ row[p] \in Content
  BY <1>2, ConversionKnows
<1>4. row'[p] = row[p]
  BY <1>3, StepRows, ConstantAssumption
<1>5. PICK c \in Posts : c = p
  BY <1>3
<1>6. ASSUME NEW o \in Reqs \ {r}, Replaces(o, p)
      PROVE  Replaces(o, p)'
  <2>1. Replaces(o, c)
    BY <1>5, <1>6
  <2>2. Replaces(o, c)'
    BY <1>1, <1>3, <1>4, <1>5, <2>1, StillReplaces
  <2> QED
    BY <1>1, <1>5, <2>2 DEF Replaces
<1> QED
  BY <1>2, <1>6 DEF Decoded

\* What lies in the place of the original while somebody else changes it.
LEMMA OriginalOrReplaced ==
    ASSUME Inv, Overtaken, \A r \in Reqs : Midway(r), NEW q \in Reqs, pc[q] = "decode",
           Post(q) \notin torn, Post(q) \notin stale[q]
    PROVE  \/ file[Post(q)][seen[q][Post(q)].mime] \in {NoFile, seen[q][Post(q)].pic}
           \/ \E o \in Reqs \ {q} : Replaces(o, Post(q))
<1> DEFINE p == Post(q)  old == seen[q][p]
<1>1. TypeOK /\ Local(q) /\ Op(q) \in Conversion
  BY OpAt DEF Inv, Local
<1>2. p \in Posts /\ row[p] = old /\ row[p] # NoRow /\ row[p].mime # Jxl /\ old \in Content
  BY <1>1, ConversionKnows
<1>3. CASE \A r \in Reqs : p \notin dirty[r]
  BY <1>2, <1>3 DEF Inv, Settled, Served
<1>4. ASSUME NEW o \in Reqs, p \in dirty[o], ~Replaces(o, p)
      PROVE  file[p][old.mime] \in {NoFile, old.pic}
  <2>1. Local(o) /\ HasChanged(o, p) /\ Midway(o)
    BY <1>2, <1>4 DEF Inv, Local, Progress
  <2>2. ~(Op(o) = "create" /\ p = Post(o))
    BY <1>2, <2>1, ConstantAssumption DEF Local, Pending, Creating
  <2>3. seen[o][p] # Unset /\ p \notin stale[o]
    BY <1>2, <1>4, <2>2, ChangedIsRead DEF Overtaken
  <2>4. pc[o] # "sweep"
    BY <1>2, <2>1, <2>3 DEF Local, Fresh, Converted
  <2>5. seen[o][p] = old
    BY <1>2, <2>1, <2>3, <2>4 DEF Local, Fresh, HasChanged, Conversion
  <2>6. CASE p = Post(o) /\ Op(o) = "update"
    <3>1. Upload(o) = old /\ pc[o] \in {"fill", "save", "commit"}
      BY <1>2, <1>4, <2>1, <2>6 DEF Replaces, HasChanged, Conversion, Merging
    <3>2. pc[o] = "fill" => file[p][old.mime] = NoFile
      BY <1>2, <2>1, <2>5, <2>6 DEF Midway
    <3>3. pc[o] # "fill" => file[p][old.mime] = old.pic
      BY <1>2, <2>1, <2>6, <3>1 DEF Local, UnderWay, ReplacesContent
    <3> QED
      BY <3>2, <3>3
  <2>7. CASE p = Post(o) /\ Op(o) \in Conversion
    <3>1. pc[o] = "row"
      BY <1>4, <2>1, <2>4, <2>7 DEF Local, JobKnown, LabelsOf, HasChanged, Replaces, Conversion
    <3>2. Served(p)
      BY <1>2, <2>1, <2>3, <2>7, <3>1 DEF Local, UnderWay, Converts, Conversion
    <3> QED
      BY <1>2, <3>2 DEF Served
  <2>8. CASE p = Post(o) /\ Op(o) = "replace"
    <3>1. seen[o][From(o)] = old /\ pc[o] \in {"swap2", "swap3", "meta", "purge", "commit"}
      BY <1>2, <1>4, <2>1, <2>8 DEF Replaces, HasChanged, Conversion, Local, JobKnown, Merging
    <3>2. pc[o] = "swap2" => file[p][old.mime] = old.pic
      BY <1>2, <2>1, <2>5, <2>8 DEF Midway
    <3>3. pc[o] = "swap3" => file[p][old.mime] = NoFile
      BY <1>2, <2>1, <2>5, <2>8 DEF Midway
    <3>4. pc[o] \in {"meta", "purge", "commit"} => file[p][old.mime] = old.pic
      BY <1>2, <2>1, <2>8, <3>1 DEF Local, UnderWay, Swaps
    <3> QED
      BY <3>1, <3>2, <3>3, <3>4
  <2>9. CASE p = From(o) /\ Op(o) \in Merging
    BY <1>4, <2>9 DEF Replaces
  <2> QED
    BY <2>1, <2>2, <2>6, <2>7, <2>8, <2>9 DEF HasChanged, Merging
<1>5. p \notin dirty[q]
  BY <1>1, <1>2 DEF Local, Progress, HasChanged, Conversion
<1> QED
  BY <1>3, <1>4, <1>5

LEMMA OwnDecoded ==
    ASSUME Inv, Locked, Overtaken, \A r \in Reqs : Midway(r), NEW q \in Reqs, Step(q), Decoded(q)
    PROVE  Decoded(q)'
<1> DEFINE p == Post(q)
<1>1. TypeOK /\ Local(q)
  BY DEF Inv
<1>2. CASE Op(q)' \notin Conversion \/ pc'[q] \in {"decode", "sweep"}
  BY <1>2 DEF Decoded
<1>3. CASE Leave(q)
  BY <1>1, <1>2, <1>3 DEF Leave, NoJob, Op, Conversion, TypeOK
<1>4. CASE /\ ~Leave(q) /\ pc'[q] \notin {"decode", "sweep"} /\ Op(q) \in Conversion
           /\ Encode(q) \/ ConvertRow(q) \/ Unlink(q) \/ Decode(q)
  <2>1. /\ job' = job /\ seen' = seen /\ row' = row /\ stale' = stale
    BY <1>4 DEF Encode, ConvertRow, Unlink, Decode, RollBack, Touch, dbVars, histVars
  <2>2. torn \subseteq torn'
    BY <1>4 DEF Encode, ConvertRow, Unlink, Decode, RollBack, Touch, histVars
  <2>3. Op(q)' = Op(q) /\ Post(q)' = p
    BY <2>1 DEF Op, Post
  <2> SUFFICES ASSUME p \notin torn', p \notin stale[q]
               PROVE  held'[q] = seen[q][p].pic \/ \E o \in Reqs \ {q} : Replaces(o, p)'
    BY <2>1, <2>3 DEF Decoded
  <2>4. p \notin torn /\ pc[q] # "sweep"
    BY <1>1, <1>4, <2>2 DEF Encode, ConvertRow, Unlink, Decode
  <2>5. p \in Posts /\ row[p] = seen[q][p] /\ row[p] # NoRow /\ row[p].mime # Jxl
    BY <1>4, <2>4, ConversionKnows
  <2>6. held'[q] = seen[q][p].pic \/ \E o \in Reqs \ {q} : Replaces(o, p)
    <3>1. CASE Decode(q)
      <4>1. /\ pc[q] = "decode" /\ file[p][seen[q][p].mime] # NoFile
            /\ held'[q] = file[p][seen[q][p].mime]
        BY <1>1, <1>4, <3>1 DEF Decode, RollBack, TypeOK
      <4> QED
        BY <2>4, <4>1, OriginalOrReplaced
    <3>2. CASE ~Decode(q)
      <4>1. held' = held /\ pc[q] \in {"encode", "row", "unlink"}
        BY <1>4, <3>2 DEF Encode, ConvertRow, Unlink
      <4> QED
        BY <1>4, <2>4, <4>1 DEF Decoded
    <3> QED
      BY <3>1, <3>2
  <2>8. PICK c \in Posts : c = p
    BY <2>5
  <2>7. ASSUME NEW o \in Reqs \ {q}, Replaces(o, p)
        PROVE  Replaces(o, p)'
    <3>1. Replaces(o, c)
      BY <2>7, <2>8
    <3>2. Replaces(o, c)'
      BY <2>1, <2>5, <2>8, <3>1, StillReplaces
    <3> QED
      BY <2>3, <2>8, <3>2 DEF Replaces
  <2> QED
    BY <2>6, <2>7
<1>5. CASE ~Leave(q) /\ ~(Op(q) \in Conversion /\ (Encode(q) \/ ConvertRow(q) \/ Unlink(q) \/ Decode(q)))
  <2>1. CASE /\ Op(q) \notin Conversion
             /\ \/ Fill(q) \/ Unlink(q) \/ Save(q) \/ ReplaceSignature(q) \/ DeleteRow(q) \/ MergeRead(q)
                \/ MergeLock(q) \/ MergeAbsorb(q) \/ MergeMeta(q) \/ MergePurge(q)
                \/ \E label \in {"swap1", "swap2", "swap3"} : SwapMove(q, label)
    <3>1. job' = job
      BY <1>5, <2>1 DEF Fill, Unlink, Save, ReplaceSignature, DeleteRow, MergeRead, MergeLock,
         MergeAbsorb, MergeMeta, MergePurge, SwapMove, RollBack
    <3> QED
      BY <1>2, <2>1, <3>1 DEF Op
  <2>2. CASE Commit(q)
    BY <1>2, <1>5, <2>2 DEF Commit, Op, Conversion
  <2>3. CASE TaskRow(q)
    BY <1>1, <1>2, <2>3 DEF TaskRow, Goto, TypeOK
  <2>4. CASE (\E t \in Tokens : StartCreate(q, t)) \/ (\E o \in Posts : Insert(q, o))
    <3>1. pc'[q] \in {"insert", "fill"}
      BY <1>1, <1>5, <2>4 DEF StartCreate, Insert, RollBack, Goto, TypeOK
    <3>3. pc[q] = "insert" => Op(q) = "create"
      BY <1>1, OpAt DEF Local
    <3>2. Op(q)' = "create"
      BY <1>1, <1>5, <2>4, <3>3 DEF StartCreate, Insert, RollBack, NoJob, TypeOK, Jobs, Op
    <3> QED
      BY <1>2, <3>2 DEF Conversion
  <2>5. CASE \E op \in DOMAIN FirstStep, o \in Posts, t \in Tokens : Read(q, op, o, t)
    <3>1. PICK op \in DOMAIN FirstStep, o \in Posts, t \in Tokens : Read(q, op, o, t)
      BY <2>5
    <3>2. Op(q)' = op /\ pc'[q] = FirstStep[op]
      BY <1>1, <3>1 DEF Read, NoJob, Op, Goto, TypeOK
    <3> QED
      BY <1>2, <3>2 DEF FirstStep, Conversion
  <2>6. CASE \E op \in {"merge", "replace"}, o, d \in Posts : StartMerge(q, op, o, d)
    <3>1. Op(q)' \in {"merge", "replace"}
      BY <1>1, <2>6 DEF StartMerge, NoJob, Op, TypeOK
    <3> QED
      BY <1>2, <3>1 DEF Conversion
  <2>7. CASE Op(q) \in Conversion
    <3>1. pc[q] \notin {"idle", "insert", "fill", "save", "signature", "target", "describe", "absorb",
                        "swap1", "swap2", "swap3", "meta", "purge"}
      BY <1>1, <2>7 DEF Local, JobKnown, LabelsOf, Conversion
    <3>2. Commit(q) \/ TaskRow(q)
      BY <1>5, <2>7, <3>1 DEF Step, StartCreate, Insert, Read, StartMerge, Fill, Save,
         ReplaceSignature, ConvertUndo, TaskSweep, DeleteRow, Purge, MergeRead, MergeLock,
         MergeAbsorb, MergeMeta, MergePurge, SwapMove, Abort, RollBack, Conversion
    <3> QED
      BY <2>2, <2>3, <3>2
  <2>8. CASE Op(q) \notin Conversion
    <3>1. ~Decode(q) /\ ~Encode(q) /\ ~ConvertRow(q)
      BY <1>1, <2>8, OpAt DEF Decode, Encode, ConvertRow, Local, Conversion
    <3> QED
      BY <1>5, <2>1, <2>2, <2>3, <2>4, <2>5, <2>6, <2>8, <3>1
         DEF Step, ConvertUndo, TaskSweep, Purge, Abort, RollBack
  <2> QED
    BY <2>7, <2>8
<1> QED
  BY <1>2, <1>3, <1>4, <1>5

\* The three invariants hold together with the earlier ones.
Kept ==
    Inv /\ Locked /\ Overtaken /\ \A r \in Reqs : Decoded(r) /\ Midway(r) /\ Marked(r)

LEMMA InitKept ==
    ASSUME Init
    PROVE  Kept
<1>1. Inv /\ Locked /\ Overtaken
  BY InitInv DEF Init, Locked, Overtaken, Nothing
<1>2. \A r \in Reqs : Op(r) = "none" /\ pc[r] = "idle"
  BY DEF Init, Op, NoJob
<1> QED
  BY <1>1, <1>2 DEF Kept, Decoded, Midway, Marked, Conversion, Merging

LEMMA NextKept ==
    ASSUME Kept, [Next]_vars
    PROVE  Kept'
<1>1. Inv' /\ Locked'
  BY NextInv, NextLocks DEF Kept
<1>2. CASE \E q \in Reqs : Step(q)
  <2>1. PICK q \in Reqs : Step(q)
    BY <1>2
  <2>2. Overtaken'
    BY <2>1, StepOvertaken DEF Kept
  <2>3. ASSUME NEW r \in Reqs
        PROVE  (Decoded(r) /\ Midway(r) /\ Marked(r))'
    BY <2>1, OwnDecoded, OthersDecoded, OwnMidway, OthersMidway, OwnMarked, OthersMarked DEF Kept
  <2> QED
    BY <1>1, <2>2, <2>3 DEF Kept
<1>3. CASE Crash
  <2>1. \A r \in Reqs : Op(r)' = "none" /\ pc'[r] = "idle" /\ dirty'[r] = {}
    BY <1>3 DEF Crash, Op, NoJob
  <2> QED
    BY <1>1, <2>1 DEF Kept, Overtaken, Decoded, Midway, Marked, Conversion, Merging
<1>4. CASE UNCHANGED <<row, file, reqVars, histVars>>
  <2>1. UNCHANGED <<row, file, pc, job, seen, stage, held, dirty, stale, torn>>
    BY <1>4 DEF reqVars, histVars
  <2>2. \A r \in Reqs : /\ Op(r)' = Op(r) /\ Post(r)' = Post(r) /\ From(r)' = From(r)
                        /\ Upload(r)' = Upload(r)
    BY <2>1 DEF Op, Post, From, Upload
  <2>3. \A r \in Reqs : (Decoded(r) /\ Midway(r) /\ Marked(r))'
    BY <2>1, <2>2 DEF Kept, Decoded, Midway, Marked, Replaces
  <2> QED
    BY <1>1, <2>1, <2>3 DEF Kept, Overtaken
<1> QED
  BY <1>2, <1>3, <1>4 DEF Next, UploadFile, ExpireUpload, vars, dbVars, fsVars

\* A conversion that has the post's files to itself holds the picture of the post.
LEMMA HoldsOriginal ==
    ASSUME Kept, NEW r \in Reqs, Op(r) \in Conversion, pc[r] \notin {"decode", "sweep"},
           Post(r) \in dirty[r], Post(r) \notin torn, Post(r) \notin stale[r]
    PROVE  Converted(r) = [pic |-> row[Post(r)].pic, mime |-> Jxl]
<1>1. Post(r) \in Posts /\ row[Post(r)] = seen[r][Post(r)]
  BY ConversionKnows DEF Kept
<1>2. ~ \E q \in Reqs \ {r} : Replaces(q, Post(r))
  BY <1>1 DEF Kept, Inv, Exclusive, Replaces
<1> QED
  BY <1>1, <1>2 DEF Kept, Decoded, Converted

\* What a conversion commits.
LEMMA ConversionStep ==
    ASSUME Kept, [Next]_vars, NEW r \in Reqs,
           \/ Op(r) = "convert" /\ pc[r] = "commit" /\ pc'[r] # "commit"
           \/ Op(r) = "task" /\ pc[r] = "row" /\ pc'[r] = "sweep",
           row[Post(r)] # NoRow, Post(r) \notin torn'
    PROVE  row'[Post(r)] = [pic |-> row[Post(r)].pic, mime |-> Jxl]
<1> DEFINE p == Post(r)
<1>1. TypeOK /\ Local(r) /\ Op(r) \in Conversion /\ pc[r] \notin {"decode", "sweep"}
  BY DEF Kept, Inv, Conversion
<1>2. p \in Posts /\ p \in dirty[r]
  BY <1>1 DEF Local, JobKnown, Progress, HasChanged, Conversion
<1>3. CASE Crash
  <2>1. Op(r) = "convert" /\ pc[r] = "commit"
    BY <1>3 DEF Crash
  <2>2. p \in Spoiled(r)
    BY <1>2, <2>1 DEF Spoiled
  <2> QED
    BY <1>3, <2>2 DEF Crash
<1>4. CASE ~Crash
  <2>1. PICK q \in Reqs : Step(q)
    BY <1>4 DEF Next, UploadFile, ExpireUpload, vars, reqVars
  <2>2. q = r
    BY <2>1, StepOthers DEF Kept
  <2>3. CASE RollBack(r)
    <3>1. Op(r) = "convert" /\ pc[r] = "commit"
      BY <1>1, <2>3 DEF RollBack, Leave, TypeOK
    <3>2. p \in Spoiled(r)
      BY <1>2, <3>1 DEF Spoiled
    <3> QED
      BY <2>3, <3>2 DEF RollBack
  <2>4. CASE Commit(r)
    <3>1. /\ pc[r] = "commit" /\ torn \subseteq torn'
          /\ row'[p] = IF stage[r][p] = Unset THEN row[p] ELSE stage[r][p]
          /\ stage[r][p] \notin {Unset, row[p]} => p \notin stale[r]
      BY <1>2, <2>4 DEF Commit, Publish
    <3>2. stage[r][p] = Converted(r)
      BY <1>1, <3>1 DEF Local, UnderWay, Converts, Conversion
    <3>3. Converted(r) # Unset
      BY <1>1, ConstantAssumption DEF Local, JobKnown, Converted, Content
    <3>4. CASE row[p] = Converted(r)
      BY <3>1, <3>2, <3>3, <3>4 DEF Converted
    <3>5. CASE row[p] # Converted(r)
      BY <1>1, <1>2, <3>1, <3>2, <3>3, <3>5, HoldsOriginal
    <3> QED
      BY <3>4, <3>5
  <2>5. CASE TaskRow(r)
    <3>1. /\ row'[p] = Converted(r) /\ torn \subseteq torn'
          /\ row[p] # Converted(r) => p \notin stale[r]
      BY <1>1, <1>2, <2>5 DEF TaskRow, TypeOK
    <3>2. CASE row[p] = Converted(r)
      BY <3>1, <3>2 DEF Converted
    <3>3. CASE row[p] # Converted(r)
      BY <1>1, <1>2, <3>1, <3>3, HoldsOriginal
    <3> QED
      BY <3>2, <3>3
  <2>6. RollBack(r) \/ Commit(r) \/ TaskRow(r)
    <3>1. pc[r] = "commit" => Abort(r) \/ Commit(r)
      BY <2>1, <2>2 DEF Step, StartCreate, Insert, Read, StartMerge, Fill, Unlink, Save,
         ReplaceSignature, Decode, Encode, ConvertRow, ConvertUndo, TaskRow, TaskSweep,
         DeleteRow, Purge, MergeRead, MergeLock, MergeAbsorb, MergeMeta, MergePurge, SwapMove
    <3>2. pc[r] = "row" /\ Op(r) = "task" => TaskRow(r) \/ ConvertUndo(r) \/ Abort(r)
      BY <2>1, <2>2 DEF Step, StartCreate, Insert, Read, StartMerge, Fill, Unlink, Save,
         ReplaceSignature, Decode, Encode, ConvertRow, TaskSweep, Commit,
         DeleteRow, Purge, MergeRead, MergeLock, MergeAbsorb, MergeMeta, MergePurge, SwapMove
    <3> QED
      BY <3>1, <3>2 DEF Abort, ConvertUndo
  <2> QED
    BY <2>3, <2>4, <2>5, <2>6
<1> QED
  BY <1>3, <1>4

\* A conversion that takes effect keeps the post's picture and changes its encoding only,
\* whatever replaces the row or the files meanwhile, unless the post is torn by it
\* (convert_to_jxl of update/post.rs, convert_post_to_jxl of admin/post.rs).
THEOREM ConversionsKeepPictures == Spec => ConversionKeepsPicture
<1> DEFINE Picture ==
        \A r \in Reqs : LET p == Post(r) IN
          /\ \/ Op(r) = "convert" /\ pc[r] = "commit" /\ pc'[r] # "commit"
             \/ Op(r) = "task" /\ pc[r] = "row" /\ pc'[r] = "sweep"
          /\ row[p] # NoRow /\ p \notin torn'
          => row'[p] = [pic |-> row[p].pic, mime |-> Jxl]
<1>1. Kept /\ [Next]_vars => Picture
  BY ConversionStep
<1> HIDE DEF Picture
<1>2. Init => Kept
  BY InitKept
<1>3. Kept /\ [Next]_vars => Kept'
  BY NextKept
<1> QED
  BY <1>1, <1>2, <1>3, PTL DEF Spec, ConversionKeepsPicture, Picture

\* What a merge commits.
LEMMA MergeStep ==
    ASSUME Kept, [Next]_vars, NEW r \in Reqs, NEW p \in Posts, NEW s \in Posts,
           Op(r) \in Merging, p = Post(r), s = From(r),
           pc[r] = "commit", pc'[r] # pc[r], row' # row, row[p] # NoRow,
           p \notin torn', s \notin torn'
    PROVE  /\ row'[s] = NoRow
           /\ row'[p] = IF Op(r) = "replace" THEN row[s] ELSE row[p]
           /\ (\A q \in Reqs : p \notin dirty'[q]) => Served(p)'
<1>1. TypeOK /\ Local(r) /\ Marked(r) /\ Settled
  BY DEF Kept, Inv
<1>2. PICK q \in Reqs : Step(q)
  BY DEF Next, UploadFile, ExpireUpload, Crash, vars, dbVars, reqVars
<1>3. q = r
  BY <1>2, StepOthers DEF Kept
<1>4. Commit(r)
  BY <1>2, <1>3, OthersLock DEF Kept, TaskRow
<1>5. /\ torn \subseteq torn' /\ file' = file
      /\ \A o \in Posts : row'[o] = IF stage[r][o] = Unset THEN row[o] ELSE stage[r][o]
      /\ \A o \in Reqs \ {r} : dirty'[o] = dirty[o]
  BY <1>1, <1>4 DEF Commit, Publish, Leave, TypeOK, fsVars
<1>6. stage[r][s] \in {Unset, NoRow} /\ (row[s] # NoRow => stage[r][s] = NoRow)
  BY <1>1 DEF Marked
<1>7. row'[s] = NoRow
  BY <1>5, <1>6, ConstantAssumption
<1>8. CASE Op(r) = "merge"
  <2>1. row'[p] = row[p]
    BY <1>1, <1>5, <1>8 DEF Marked
  <2>2. p \notin dirty[r]
    BY <1>1, <1>8 DEF Local, JobKnown, Progress, HasChanged, Merging, Conversion
  <2>3. (\A o \in Reqs : p \notin dirty'[o]) => Served(p)
    BY <1>1, <1>5, <2>2 DEF Settled
  <2> QED
    BY <1>5, <1>7, <1>8, <2>1, <2>3 DEF Served
<1>9. CASE Op(r) = "replace"
  <2>1. /\ stage[r][p] = seen[r][s] /\ file[p][seen[r][s].mime] = seen[r][s].pic
    BY <1>1, <1>5, <1>9 DEF Local, UnderWay, Swaps
  <2>2. seen[r][s] # Unset /\ s \in dirty[r]
    BY <1>1, <1>9 DEF Local, JobKnown, Progress, HasRead, HasChanged, Merging
  <2>3. row[s] # NoRow
    BY <1>1, <1>5, <2>2 DEF Marked
  <2>4. s \notin stale[r]
    BY <1>5, <2>2, <2>3 DEF Kept, Overtaken
  <2>5. row[s] = seen[r][s]
    BY <1>1, <1>9, <2>2, <2>4 DEF Local, Fresh
  <2>6. row[s] \in Content
    BY <1>1, <2>3 DEF TypeOK
  <2>7. row'[p] = row[s]
    BY <1>5, <2>1, <2>2, <2>5
  <2> QED
    BY <1>5, <1>7, <1>9, <2>1, <2>3, <2>5, <2>7 DEF Served
<1> QED
  BY <1>8, <1>9 DEF Merging

\* A merge that commits leaves one post, with the content the client chose and the file to
\* go with it, whatever else runs, unless one of its posts is torn (update::post::merge,
\* which locks both rows before it swaps their files).
THEOREM MergesKeepChosenContent == Spec => MergeKeepsChosenContent
<1> DEFINE Chosen ==
        \A r \in Reqs, p, s \in Posts :
          /\ Op(r) \in {"merge", "replace"} /\ p = Post(r) /\ s = From(r)
          /\ pc[r] = "commit" /\ pc'[r] # pc[r] /\ row' # row
          /\ row[p] # NoRow /\ {p, s} \cap torn' = {}
          => /\ row'[s] = NoRow
             /\ row'[p] = IF Op(r) = "replace" THEN row[s] ELSE row[p]
             /\ (\A q \in Reqs : p \notin dirty'[q]) => Served(p)'
<1>1. Kept /\ [Next]_vars => Chosen
  BY MergeStep DEF Merging
<1> HIDE DEF Chosen
<1>2. Init => Kept
  BY InitKept
<1>3. Kept /\ [Next]_vars => Kept'
  BY NextKept
<1> QED
  BY <1>1, <1>2, <1>3, PTL DEF Spec, MergeKeepsChosenContent, Chosen

-----------------------------------------------------------------------------
(* The orphan cleaner beside the requests.  What a request has put in place   *)
(* is young, so the cleaner spares it, and what a row names is spared because  *)
(* the cleaner has read the row, or because the file came later and is young:  *)
(* until an hour passes, when the posts the cleaner no longer knows become     *)
(* exposed.                                                                    *)

\* Request r has put the file of p under m in place and goes on to name it in the row.
InPlace(r, p, m) ==
    LET new == seen[r][From(r)].mime
    IN  /\ p = Post(r)
        /\ \/ Op(r) = "create" /\ pc[r] = "commit" /\ m = Upload(r).mime
           \/ Op(r) = "update" /\ pc[r] \in {"save", "commit"} /\ m = Upload(r).mime
           \/ Op(r) \in Conversion /\ pc[r] \notin {"decode", "encode"} /\ m = Jxl
           \/ /\ Op(r) = "replace" /\ m = new
              /\ \/ pc[r] = "swap2" /\ seen[r][p].mime # new
                 \/ pc[r] \in {"meta", "purge", "commit"}

Safe(p, m) == <<p, m>> \in young \/ file[p][m] = NoFile

Guarded ==
    \A r \in Reqs : \A p \in Posts \ (exposed \cup torn), m \in Mimes :
        InPlace(r, p, m) => Safe(p, m)

\* A row the cleaner has read is as it was, or its file is one it takes for young.
Known ==
    at \in {"delete", "look", "remove"} =>
        \A o \in orphans : \A p \in Posts \ (exposed \cup torn) :
            p = o.file[1] /\ row[p] # NoRow =>
                types[p] = row[p].mime \/ Safe(p, row[p].mime)

Looked ==
    at \in {"look", "remove"} =>
        /\ target \in orphans
        /\ target.file[1] \notin exposed =>
              target.file \notin young /\ (at = "remove" => StillOrphan(target))

Found ==
    /\ types \in [Posts -> Mimes \cup {Unset}]
    /\ orphans \subseteq [file : Files, kind : {"no-post", "stale"}]

Tidy == Found /\ Guarded /\ Known /\ Looked

\* What is in place is of a post the request has changed the files of.
LEMMA InPlaceIsChanged ==
    ASSUME Inv, NEW r \in Reqs, NEW p \in Posts, NEW m \in Mimes, InPlace(r, p, m)
    PROVE  p \in dirty[r]
<1>1. Local(r)
  BY DEF Inv
<1>2. HasChanged(r, p)
  BY DEF InPlace, HasChanged, Conversion
<1> QED
  BY <1>1, <1>2 DEF Local, Progress

\* A file that a step makes or replaces is one it has moved or encoded.
LEMMA FilesArrive ==
    ASSUME Inv, NEW q \in Reqs, Step(q), NEW p \in Posts, NEW m \in Mimes,
           file'[p][m] # file[p][m], file'[p][m] # NoFile
    PROVE  <<p, m>> \in Moved(q) \cup Encoded(q)
<1>1. TypeOK /\ Local(q)
  BY DEF Inv
<1>2. CASE Fill(q)
  <2>1. pc[q] = "fill" /\ pc'[q] # "idle" /\ p = Post(q) /\ m = Upload(q).mime
    BY <1>1, <1>2 DEF Fill, Goto, TypeOK, fsVars
  <2> QED
    BY <2>1 DEF Moved
<1>3. CASE Encode(q)
  <2>1. pc[q] = "encode" /\ pc'[q] = "row" /\ p = Post(q) /\ m = Jxl
    BY <1>1, <1>3 DEF Encode, Goto, TypeOK
  <2> QED
    BY <2>1 DEF Encoded
<1>4. CASE \E label \in {"swap1", "swap2", "swap3"} : SwapMove(q, label)
  <2> DEFINE own == seen[q][Post(q)].mime  other == seen[q][From(q)].mime
  <2>1. PICK label \in {"swap1", "swap2", "swap3"} : SwapMove(q, label)
    BY <1>4
  <2>2. pc[q] = label /\ Op(q) = "replace"
    BY <1>1, <2>1, OpAt DEF SwapMove, Local
  <2>3. /\ Post(q) \in Posts /\ From(q) \in Posts /\ Post(q) # From(q)
        /\ seen[q][Post(q)] # Unset /\ seen[q][From(q)] # Unset
    BY <1>1, <2>1, <2>2 DEF Local, JobKnown, Progress, HasRead, Merging
  <2>4. own \in Mimes /\ other \in Mimes /\ file \in [Posts -> [Mimes -> Pics \cup {NoFile}]]
    BY <1>1, <2>3 DEF TypeOK, Content
  <2> HIDE DEF own, other
  <2>5. /\ pc'[q] # "idle"
        /\ \/ /\ label = "swap1" /\ own = other
              /\ file' = [file EXCEPT ![From(q)][other] = NoFile]
           \/ /\ label = "swap1" /\ own # other
              /\ file' = [file EXCEPT ![Post(q)][other] = file[From(q)][other],
                                      ![From(q)][other] = NoFile]
           \/ /\ label = "swap2"
              /\ file' = [file EXCEPT ![From(q)][own] = file[Post(q)][own],
                                      ![Post(q)][own] = NoFile]
           \/ label = "swap3" /\ file' = [file EXCEPT ![Post(q)][other] = held[q]]
    BY <1>1, <2>1 DEF SwapMove, Goto, TypeOK, own, other, fsVars
  <2>6. \/ label = "swap1" /\ own # other /\ p = Post(q) /\ m = other
        \/ label = "swap2" /\ p = From(q) /\ m = own
        \/ label = "swap3" /\ p = Post(q) /\ m = other
    BY <2>3, <2>4, <2>5
  <2>7. CASE label = "swap1" /\ own # other
    BY <2>2, <2>5, <2>6, <2>7 DEF Moved, own, other
  <2>8. CASE label = "swap2"
    <3>1. pc[q] = "swap2" /\ pc'[q] # "idle" /\ p = From(q) /\ m = own
      BY <2>2, <2>5, <2>6, <2>8
    <3> QED
      BY <3>1 DEF Moved, own
  <2>9. CASE label = "swap3"
    <3>1. pc[q] = "swap3" /\ pc'[q] # "idle" /\ p = Post(q) /\ m = other
      BY <2>2, <2>5, <2>6, <2>9
    <3> QED
      BY <3>1 DEF Moved, other
  <2> QED
    BY <2>6, <2>7, <2>8, <2>9
<1>5. CASE Unlink(q) \/ MergePurge(q) \/ ConvertUndo(q) \/ TaskSweep(q) \/ Purge(q)
  <2>1. PICK o, n : file' = [file EXCEPT ![o][n] = NoFile]
    BY <1>5 DEF Unlink, MergePurge, ConvertUndo, TaskSweep, Purge
  <2>2. file \in [Posts -> [Mimes -> Pics \cup {NoFile}]]
    BY <1>1 DEF TypeOK
  <2> QED
    BY <2>1, <2>2
<1>6. ASSUME UNCHANGED fsVars PROVE FALSE
  BY <1>6 DEF fsVars
<1>7. CASE \/ \E t \in Tokens : StartCreate(q, t)
           \/ \E o \in Posts : Insert(q, o)
           \/ \E op \in DOMAIN FirstStep, o \in Posts, t \in Tokens : Read(q, op, o, t)
           \/ \E op \in {"merge", "replace"}, o, s \in Posts : StartMerge(q, op, o, s)
  BY <1>6, <1>7 DEF StartCreate, Insert, Read, StartMerge
<1>8. CASE \/ Save(q) \/ ReplaceSignature(q) \/ Decode(q) \/ ConvertRow(q) \/ TaskRow(q)
           \/ DeleteRow(q) \/ MergeRead(q) \/ MergeLock(q) \/ MergeAbsorb(q) \/ MergeMeta(q)
           \/ Commit(q) \/ Abort(q)
  BY <1>6, <1>8 DEF Save, ReplaceSignature, Decode, ConvertRow, TaskRow, DeleteRow, MergeRead,
     MergeLock, MergeAbsorb, MergeMeta, Commit, Abort
<1> QED
  BY <1>2, <1>3, <1>4, <1>5, <1>7, <1>8 DEF Step

\* What a request has in place it had before, or it has just moved or encoded it.
LEMMA OwnInPlace ==
    ASSUME Inv, NEW q \in Reqs, Step(q), NEW p \in Posts, NEW m \in Mimes, InPlace(q, p, m)'
    PROVE  InPlace(q, p, m) \/ <<p, m>> \in Moved(q) \cup Encoded(q)
<1>1. TypeOK /\ Local(q)
  BY DEF Inv
<1>2. CASE Leave(q)
  BY <1>1, <1>2 DEF Leave, NoJob, InPlace, Op, Conversion, TypeOK
<1>3. ASSUME NEW t \in Tokens, StartCreate(q, t)
      PROVE  ~InPlace(q, p, m)'
  <2>1. Op(q)' = "create" /\ pc'[q] = "insert"
    BY <1>1, <1>3 DEF StartCreate, Goto, Op, TypeOK, NoJob
  <2> QED
    BY <2>1 DEF InPlace, Conversion
<1>4. ASSUME ~Leave(q), NEW o \in Posts, Insert(q, o)
      PROVE  ~InPlace(q, p, m)'
  <2>1. Op(q) = "create"
    BY <1>1, <1>4, OpAt DEF Insert, Local
  <2>2. pc'[q] = "fill" /\ job'[q] = [job[q] EXCEPT !.post = o]
    BY <1>1, <1>4 DEF Insert, RollBack, Goto, TypeOK
  <2>3. Op(q)' = "create"
    BY <1>1, <2>1, <2>2 DEF Op, TypeOK, Jobs
  <2> QED
    BY <2>2, <2>3 DEF InPlace, Conversion
<1>5. ASSUME NEW op \in DOMAIN FirstStep, NEW o \in Posts, NEW t \in Tokens, Read(q, op, o, t)
      PROVE  ~InPlace(q, p, m)'
  <2>1. Op(q)' = op /\ pc'[q] = FirstStep[op]
    BY <1>1, <1>5 DEF Read, Goto, Op, TypeOK, NoJob
  <2>2. /\ op \in {"edit", "update", "convert", "task", "delete"}
        /\ op = "update" => FirstStep[op] = "signature"
        /\ op \in Conversion => FirstStep[op] = "decode"
    BY DEF FirstStep, Conversion
  <2> QED
    BY <2>1, <2>2 DEF InPlace, Conversion
<1>6. ASSUME NEW op \in {"merge", "replace"}, NEW o \in Posts, NEW s \in Posts,
             StartMerge(q, op, o, s)
      PROVE  ~InPlace(q, p, m)'
  <2>1. Op(q)' = op /\ pc'[q] = "target"
    BY <1>1, <1>6 DEF StartMerge, Goto, Op, TypeOK, NoJob
  <2> QED
    BY <2>1 DEF InPlace, Conversion
<1>7. CASE ~Leave(q) /\ MergeRead(q)
  <2>1. Op(q) \in {"merge", "replace"}
    BY <1>1, <1>7, OpAt DEF MergeRead, Local, Merging
  <2>2. Op(q)' = Op(q) /\ pc'[q] = "describe"
    BY <1>1, <1>7 DEF MergeRead, RollBack, Goto, Op, TypeOK
  <2> QED
    BY <2>1, <2>2 DEF InPlace, Conversion
<1>8. CASE /\ ~Leave(q)
           /\ \/ Fill(q) \/ Unlink(q) \/ Save(q) \/ ReplaceSignature(q)
              \/ Decode(q) \/ Encode(q) \/ ConvertRow(q) \/ TaskRow(q)
              \/ DeleteRow(q) \/ MergeLock(q) \/ MergeAbsorb(q) \/ MergeMeta(q) \/ MergePurge(q)
              \/ Commit(q) \/ \E label \in {"swap1", "swap2", "swap3"} : SwapMove(q, label)
  <2>1. job' = job /\ seen' = seen
    BY <1>8 DEF Fill, Unlink, Save, ReplaceSignature, Decode, Encode, ConvertRow, TaskRow, DeleteRow,
       MergeLock, MergeAbsorb, MergeMeta, MergePurge, Commit, SwapMove, RollBack
  <2>2. /\ Op(q)' = Op(q) /\ Post(q)' = Post(q) /\ From(q)' = From(q) /\ Upload(q)' = Upload(q)
        /\ seen'[q] = seen[q]
    BY <2>1 DEF Op, Post, From, Upload
  <2>3. \/ pc[q] = "fill" /\ pc'[q] \in {"commit", "save"}
        \/ pc[q] = "unlink" /\ pc'[q] = IF Op(q) = "update" THEN "fill" ELSE "commit"
        \/ pc[q] = "save" /\ pc'[q] = "commit"
        \/ pc[q] = "signature" /\ pc'[q] = "unlink"
        \/ pc[q] = "decode" /\ pc'[q] = "encode"
        \/ pc[q] = "encode" /\ pc'[q] = "row"
        \/ pc[q] = "row" /\ Op(q) \in Conversion /\ pc'[q] \in {"unlink", "sweep"}
        \/ pc[q] = "row" /\ Op(q) = "delete"
        \/ pc[q] \in {"describe", "absorb"} /\ pc'[q] \in {"absorb", "swap1"}
        \/ pc[q] \in {"describe", "absorb"} /\ Op(q) # "replace"
        \/ pc[q] = "meta" /\ pc'[q] \in {"purge", "commit"}
        \/ pc[q] = "purge" /\ pc'[q] = "commit"
        \/ pc[q] = "commit" /\ Op(q) = "delete"
        \/ pc[q] = "swap1" /\ pc'[q] = "swap2"
        \/ pc[q] = "swap2" /\ pc'[q] = (IF seen[q][Post(q)].mime = seen[q][From(q)].mime
                                        THEN "swap3" ELSE "meta")
        \/ pc[q] = "swap3" /\ pc'[q] = "meta"
    BY <1>1, <1>8 DEF Fill, Unlink, Save, ReplaceSignature, Decode, Encode, ConvertRow, TaskRow,
       DeleteRow, MergeLock, MergeAbsorb, MergeMeta, MergePurge, Commit, SwapMove, RollBack, Goto,
       TypeOK, Conversion
  <2>4. CASE pc[q] \in {"fill", "encode", "swap1", "swap2", "swap3"}
    BY <1>1, <2>2, <2>3, <2>4, OpAt DEF InPlace, Moved, Encoded, Local, Conversion
  <2>5. CASE pc[q] \notin {"fill", "encode", "swap1", "swap2", "swap3"}
    BY <1>1, <2>2, <2>3, <2>5, OpAt DEF InPlace, Local, Conversion, Merging
  <2> QED
    BY <2>4, <2>5
<1> QED
  BY <1>2, <1>3, <1>4, <1>5, <1>6, <1>7, <1>8
     DEF Step, ConvertUndo, TaskSweep, Purge, Abort, RollBack

\* What a step makes visible in a row it has put in place before.
LEMMA RowPlaced ==
    ASSUME Inv, Locked, NEW q \in Reqs, Step(q), NEW p \in Posts, row'[p] # row[p],
           row'[p] # NoRow, p \notin torn'
    PROVE  InPlace(q, p, row'[p].mime)
<1>1. TypeOK /\ Local(q) /\ p # Unset
  BY ConstantAssumption DEF Inv
<1>2. CASE TaskRow(q)
  <2>1. p = Post(q) /\ row'[p] = Converted(q)
    BY <1>1, <1>2 DEF TaskRow, TypeOK
  <2> QED
    BY <1>2, <2>1 DEF TaskRow, InPlace, Converted, Conversion
<1>3. CASE ~TaskRow(q)
  <2>1. Commit(q) /\ pc[q] = "commit" /\ stage[q][p] # Unset /\ row'[p] = stage[q][p]
    BY <1>3, StepRows DEF Commit
  <2>2. torn \subseteq torn' /\ p \notin stale[q]
    BY <2>1 DEF Commit, Publish
  <2>3. CASE Op(q) = "create" /\ p = Post(q)
    BY <1>1, <2>1, <2>3 DEF Local, Pending, Creating, InPlace
  <2>4. CASE ~(Op(q) = "create" /\ p = Post(q))
    <3>1. seen[q][p] # Unset /\ row[p] # NoRow
      BY <1>1, <2>1, <2>4 DEF Local, Written, Locked
    <3>2. row[p] = seen[q][p]
      BY <1>1, <2>1, <2>2, <3>1 DEF Local, Fresh
    <3>3. p \in dirty[q]
      BY <1>1, <2>1, <2>2, <2>4, <3>2 DEF Local, Written
    <3>4. HasChanged(q, p)
      BY <1>1, <3>3 DEF Local, Progress
    <3>5. p = From(q) /\ Op(q) \in Merging => FALSE
      BY <1>1, <2>1, <2>2, <3>1 DEF Local, Deleted, Gone
    <3>6. p = Post(q) /\ Op(q) \in {"update", "convert", "task", "replace"}
      BY <2>4, <3>4, <3>5 DEF HasChanged, Merging, Conversion
    <3>7. ReplacesContent(q) /\ Converts(q) /\ Swaps(q)
      BY <1>1, <2>1, <2>2, <3>1, <3>6 DEF Local, UnderWay
    <3>8. CASE Op(q) = "update"
      BY <2>1, <3>6, <3>7, <3>8 DEF ReplacesContent, InPlace
    <3>9. CASE Op(q) \in Conversion
      BY <2>1, <3>6, <3>7, <3>9 DEF Converts, InPlace, Converted
    <3>10. CASE Op(q) = "replace"
      BY <2>1, <3>6, <3>7, <3>10 DEF Swaps, InPlace
    <3> QED
      BY <3>6, <3>8, <3>9, <3>10 DEF Conversion
  <2> QED
    BY <2>3, <2>4
<1> QED
  BY <1>2, <1>3

\* A file that is safe stays so through a step of the server, and what a step puts in
\* place is safe, unless the post becomes exposed by it.
LEMMA StaysSafe ==
    ASSUME Inv, NEW q \in Reqs, ServerStep(q), NEW p \in Posts, NEW m \in Mimes,
           p \notin exposed', Safe(p, m) \/ <<p, m>> \in Moved(q) \cup Encoded(q)
    PROVE  Safe(p, m)'
<1> SUFFICES ASSUME file'[p][m] # NoFile
             PROVE  <<p, m>> \in young'
  BY DEF Safe
<1>1. PICK old \in SUBSET Moved(q) :
          /\ young' = {f \in ((young \ old) \cup (Moved(q) \ old) \cup Encoded(q)) :
                          file'[f[1]][f[2]] # NoFile}
          /\ {f[1] : f \in old} \subseteq exposed'
  BY DEF ServerStep
<1>2. <<p, m>> \notin old
  BY <1>1
<1>3. <<p, m>> \in young \/ <<p, m>> \in Moved(q) \cup Encoded(q)
  BY FilesArrive DEF Safe, ServerStep
<1> QED
  BY <1>1, <1>2, <1>3

LEMMA TornGrows ==
    ASSUME NEW q \in Reqs, Step(q)
    PROVE  torn \subseteq torn'
<1>1. ASSUME RollBack(q) \/ histVars' = histVars \/ \E S : Touch(q, S)
      PROVE  torn \subseteq torn'
  BY <1>1 DEF RollBack, histVars, Touch
<1>2. CASE \/ \E t \in Tokens : StartCreate(q, t)
           \/ \E p \in Posts : Insert(q, p)
           \/ \E op \in DOMAIN FirstStep, p \in Posts, t \in Tokens : Read(q, op, p, t)
           \/ \E op \in {"merge", "replace"}, p, s \in Posts : StartMerge(q, op, p, s)
           \/ Save(q) \/ ReplaceSignature(q) \/ Decode(q) \/ ConvertRow(q) \/ ConvertUndo(q)
           \/ DeleteRow(q) \/ MergeRead(q) \/ MergeLock(q) \/ MergeAbsorb(q) \/ MergeMeta(q)
           \/ Abort(q)
  BY <1>1, <1>2 DEF StartCreate, Insert, Read, StartMerge, Save, ReplaceSignature, Decode,
     ConvertRow, ConvertUndo, DeleteRow, MergeRead, MergeLock, MergeAbsorb, MergeMeta, Abort
<1>3. CASE Fill(q) \/ Unlink(q) \/ Encode(q) \/ MergePurge(q)
  BY <1>1, <1>3 DEF Fill, Unlink, Encode, MergePurge
<1>4. CASE \E label \in {"swap1", "swap2", "swap3"} : SwapMove(q, label)
  BY <1>1, <1>4 DEF SwapMove
<1>5. CASE TaskRow(q) \/ TaskSweep(q) \/ Purge(q) \/ Commit(q)
  BY <1>5 DEF TaskRow, TaskSweep, Purge, Commit, Publish
<1> QED
  BY <1>2, <1>3, <1>4, <1>5 DEF Step

\* A step of the server keeps what the cleaner relies on.
LEMMA ServerTidy ==
    ASSUME Inv, Locked, TypeOK', Tidy, NEW q \in Reqs, ServerStep(q)
    PROVE  Tidy'
<1>1. /\ Step(q) /\ torn \subseteq torn' /\ exposed \subseteq exposed'
      /\ UNCHANGED <<at, types, unlisted, orphans, target>>
  BY TornGrows DEF ServerStep, cleanerVars
<1>2. Guarded'
  <2> SUFFICES ASSUME NEW r \in Reqs, NEW p \in Posts \ (exposed' \cup torn'), NEW m \in Mimes,
                      InPlace(r, p, m)'
               PROVE  Safe(p, m)'
    BY DEF Guarded
  <2>1. CASE r = q
    <3>1. InPlace(q, p, m) \/ <<p, m>> \in Moved(q) \cup Encoded(q)
      BY <1>1, <2>1, OwnInPlace
    <3> QED
      BY <1>1, <3>1, StaysSafe DEF Tidy, Guarded
  <2>2. CASE r # q
    <3>1. pc'[r] = pc[r] /\ job'[r] = job[r] /\ seen'[r] = seen[r]
      BY <1>1, <2>2, StepOthers
    <3>2. InPlace(r, p, m)
      BY <3>1 DEF InPlace, Op, Post, From, Upload
    <3> QED
      BY <1>1, <3>2, StaysSafe DEF Tidy, Guarded
  <2> QED
    BY <2>1, <2>2
<1>3. Known'
  <2>1. ASSUME NEW p \in Posts, row'[p] # NoRow
        PROVE  row'[p].mime \in Mimes
    BY <2>1 DEF TypeOK, Content
  <2> SUFFICES ASSUME at \in {"delete", "look", "remove"}, NEW o \in orphans,
                      NEW p \in Posts \ (exposed' \cup torn'), p = o.file[1], row'[p] # NoRow,
                      NEW m \in Mimes, m = row'[p].mime
               PROVE  types[p] = m \/ Safe(p, m)'
    BY <1>1, <2>1 DEF Known, Safe
  <2>2. CASE row'[p] = row[p]
    BY <1>1, <2>2, StaysSafe DEF Tidy, Known
  <2>3. CASE row'[p] # row[p]
    <3>1. InPlace(q, p, m)
      BY <1>1, <2>3, RowPlaced
    <3> QED
      BY <1>1, <3>1, StaysSafe DEF Tidy, Guarded
  <2> QED
    BY <2>2, <2>3
<1>4. Looked'
  <2> SUFFICES ASSUME at \in {"look", "remove"}, target.file[1] \notin exposed'
               PROVE  target.file \notin young' /\ (at = "remove" => StillOrphan(target)')
    BY <1>1 DEF Looked, Tidy
  <2> DEFINE p == target.file[1]  m == target.file[2]
  <2>1. /\ target \in orphans /\ p \notin exposed /\ target.file \notin young
        /\ at = "remove" => StillOrphan(target)
    BY <1>1 DEF Tidy, Looked
  <2>2. p \in Posts /\ m \in Mimes /\ target.file = <<p, m>>
    BY <2>1 DEF Tidy, Found, Files
  <2>3. p \notin Changed(q)
    BY DEF ServerStep
  <2>4. file'[p] = file[p] /\ target.file \notin Moved(q) \cup Encoded(q)
    BY <2>2, <2>3 DEF Changed
  <2>5. target.file \notin young'
    BY <2>1, <2>4 DEF ServerStep
  <2>6. StillOrphan(target)' <=> StillOrphan(target)
    BY <1>1, <2>4 DEF StillOrphan, Exists
  <2> QED
    BY <2>1, <2>5, <2>6
<1> QED
  BY <1>1, <1>2, <1>3, <1>4 DEF Tidy, Found

\* So do uploads, crashes and the passing of time.
LEMMA RestTidy ==
    ASSUME Inv, TypeOK', Tidy,
           \/ (Crash \/ \E t \in Tokens : UploadFile(t) \/ ExpireUpload(t)) /\ UNCHANGED orphanVars
           \/ HourPasses
    PROVE  Tidy'
<1>1. CASE Crash /\ UNCHANGED orphanVars
  <2>1. /\ UNCHANGED <<row, file, at, types, unlisted, orphans, target, young, exposed>>
        /\ torn \subseteq torn' /\ \A r \in Reqs : Op(r)' = "none"
    BY <1>1 DEF Crash, orphanVars, cleanerVars, dbVars, fsVars, Op, NoJob
  <2> QED
    BY <2>1 DEF Tidy, Found, Guarded, InPlace, Known, Looked, Safe, StillOrphan, Exists, Conversion
<1>2. CASE (\E t \in Tokens : UploadFile(t) \/ ExpireUpload(t)) /\ UNCHANGED orphanVars
  <2>1. UNCHANGED <<row, file, pc, job, seen, torn, at, types, unlisted, orphans, target,
                    young, exposed>>
    BY <1>2 DEF UploadFile, ExpireUpload, orphanVars, cleanerVars, dbVars, reqVars, histVars
  <2>2. \A r \in Reqs, p \in Posts, m \in Mimes : InPlace(r, p, m)' => InPlace(r, p, m)
    BY <2>1 DEF InPlace, Op, Post, From, Upload
  <2> QED
    BY <2>1, <2>2 DEF Tidy, Found, Guarded, Known, Looked, Safe, StillOrphan, Exists
<1>3. CASE HourPasses
  <2>1. /\ UNCHANGED <<row, file, pc, job, seen, torn, at, types, unlisted, orphans, target>>
        /\ young' = {} /\ exposed \subseteq exposed' /\ \A r \in Reqs : dirty[r] = {}
        /\ at \in {"delete", "look", "remove"} =>
              \A p \in Posts \ exposed' : row[p] # NoRow => types[p] = row[p].mime
    BY <1>3 DEF HourPasses, vars, cleanerVars, dbVars, fsVars, reqVars, histVars
  <2>2. Guarded'
    <3> SUFFICES ASSUME NEW r \in Reqs, NEW p \in Posts, NEW m \in Mimes, InPlace(r, p, m)'
                 PROVE  FALSE
      BY DEF Guarded
    <3>1. InPlace(r, p, m)
      BY <2>1 DEF InPlace, Op, Post, From, Upload
    <3> QED
      BY <2>1, <3>1, InPlaceIsChanged
  <2>3. Known' /\ Looked' /\ Found'
    BY <2>1 DEF Tidy, Found, Known, Looked, StillOrphan, Exists
  <2> QED
    BY <2>2, <2>3 DEF Tidy
<1> QED
  BY <1>1, <1>2, <1>3

\* And the steps of the cleaner that remove nothing: it goes by what it has just read.
LEMMA LookingTidy ==
    ASSUME Inv, Tidy, UNCHANGED vars,
           \/ StartScan
           \/ \E p \in Posts : ListDirectory(p)
           \/ \E kinds \in SUBSET {"no-post", "stale"} : Confirm(kinds)
           \/ \E o \in orphans : CheckAge(o)
           \/ LookAtPost
           \/ Quit
    PROVE  Tidy'
<1>1. /\ UNCHANGED <<row, file, pc, job, seen, torn, dirty>>
      /\ \A r \in Reqs, p \in Posts, m \in Mimes : InPlace(r, p, m)' <=> InPlace(r, p, m)
  <2>1. UNCHANGED <<row, file, pc, job, seen, torn, dirty>>
    BY DEF vars, dbVars, fsVars, reqVars, histVars
  <2> QED
    BY <2>1 DEF InPlace, Op, Post, From, Upload
<1>2. MimeTypes \in [Posts -> Mimes \cup {Unset}] /\ Nothing \in [Posts -> Mimes \cup {Unset}]
  BY DEF Inv, TypeOK, MimeTypes, Content, Nothing
<1>3. CASE StartScan
  <2>1. /\ at' = "scan" /\ types' = MimeTypes /\ UNCHANGED <<orphans, target, young>>
        /\ \A p \in Posts \ exposed' : p \in exposed => \A r \in Reqs : p \notin dirty[r]
    BY <1>3 DEF StartScan
  <2>2. Guarded'
    BY <1>1, <2>1, InPlaceIsChanged DEF Tidy, Guarded, Safe
  <2> QED
    BY <1>2, <2>1, <2>2 DEF Tidy, Found, Known, Looked
<1>4. ASSUME UNCHANGED <<young, exposed>>
      PROVE  Guarded'
  BY <1>1, <1>4 DEF Tidy, Guarded, Safe
<1>5. ASSUME NEW p \in Posts, ListDirectory(p)
      PROVE  Tidy'
  <2>1. at' = "scan" /\ UNCHANGED <<types, young, exposed>> /\ Guarded'
    BY <1>4, <1>5 DEF ListDirectory
  <2>2. {[file |-> f, kind |-> Kind(f)] : f \in {f \in {p} \X Mimes : Exists(f) /\ types[p] # f[2]}}
           \subseteq [file : Files, kind : {"no-post", "stale"}]
    BY DEF Kind, Files
  <2>3. Found'
    BY <1>5, <2>1, <2>2 DEF ListDirectory, Tidy, Found
  <2> QED
    BY <2>1, <2>3 DEF Tidy, Known, Looked
<1>6. ASSUME NEW kinds \in SUBSET {"no-post", "stale"}, Confirm(kinds)
      PROVE  Tidy'
  <2>1. /\ at' = "delete" /\ orphans' \subseteq orphans /\ UNCHANGED <<young, exposed>>
        /\ types' = [p \in Posts |->
               IF \E o \in orphans' : o.file[1] = p THEN MimeTypes[p] ELSE Unset]
    BY <1>6 DEF Confirm
  <2>2. Found'
    BY <1>2, <2>1 DEF Tidy, Found
  <2>3. Known'
    BY <1>1, <2>1 DEF Known, MimeTypes
  <2> QED
    BY <1>4, <2>1, <2>2, <2>3 DEF Tidy, Looked
<1>7. ASSUME at \in {"delete", "look", "remove"}, at' = "delete", orphans' \subseteq orphans,
             UNCHANGED <<types, young, exposed>>
      PROVE  Tidy'
  BY <1>1, <1>4, <1>7 DEF Tidy, Found, Known, Looked, Safe
<1>8. ASSUME NEW o \in orphans, CheckAge(o)
      PROVE  Tidy'
  <2>1. CASE Keep(o)
    BY <1>7, <1>8, <2>1 DEF CheckAge, Keep
  <2>2. CASE ~Keep(o)
    <3>1. /\ at = "delete" /\ at' = "look" /\ target' = o /\ o.file \notin young
          /\ UNCHANGED <<orphans, types, young, exposed>>
      BY <1>8, <2>2 DEF CheckAge
    <3> QED
      BY <1>1, <1>4, <3>1 DEF Tidy, Found, Known, Looked, Safe
  <2> QED
    BY <2>1, <2>2
<1>9. CASE LookAtPost
  <2>1. CASE Keep(target)
    BY <1>7, <1>9, <2>1 DEF LookAtPost, Keep
  <2>2. CASE ~Keep(target)
    <3>1. /\ at = "look" /\ at' = "remove" /\ StillOrphan(target)
          /\ UNCHANGED <<orphans, target, types, young, exposed>>
      BY <1>9, <2>2 DEF LookAtPost
    <3> QED
      BY <1>1, <1>4, <3>1 DEF Tidy, Found, Known, Looked, Safe, StillOrphan, Exists
  <2> QED
    BY <2>1, <2>2
<1>10. CASE Quit
  BY <1>2, <1>4, <1>10 DEF Quit, Stop, Tidy, Found, Known, Looked
<1> QED
  BY <1>3, <1>5, <1>6, <1>8, <1>9, <1>10

\* What the cleaner removes is neither a post's own file nor one put in place for it.
LEMMA OrphanSpared ==
    ASSUME Inv, Tidy, RemoveOrphan, NEW p \in Posts, NEW m \in Mimes, p \notin torn',
           file[p][m] # NoFile,
           (row[p] # NoRow /\ m = row[p].mime) \/ \E r \in Reqs : InPlace(r, p, m)
    PROVE  file'[p][m] = file[p][m]
<1> DEFINE f == target.file
<1>1. TypeOK
  BY DEF Inv
<1>2. /\ target \in orphans /\ f[1] \in Posts /\ f[2] \in Mimes /\ f = <<f[1], f[2]>>
      /\ types[f[1]] \in Mimes \cup {Unset} /\ target.kind \in {"no-post", "stale"}
  BY DEF RemoveOrphan, Tidy, Looked, Found, Files
<1> HIDE DEF f
<1>3. file' = [file EXCEPT ![f[1]][f[2]] = NoFile]
  BY DEF RemoveOrphan, f
<1> SUFFICES ASSUME p = f[1], m = f[2]
             PROVE  FALSE
  BY <1>1, <1>2, <1>3 DEF TypeOK
<1>4. p \notin exposed \cup torn
  BY DEF RemoveOrphan, f
<1>5. f \notin young /\ StillOrphan(target)
  BY <1>4 DEF RemoveOrphan, Tidy, Looked, f
<1>6. ~Safe(p, m)
  BY <1>2, <1>5 DEF Safe
<1>7. row[p] # NoRow /\ m = row[p].mime
  BY <1>4, <1>6 DEF Tidy, Guarded
<1>8. types[p] = m
  BY <1>2, <1>4, <1>6, <1>7 DEF RemoveOrphan, Tidy, Known, f
<1> QED
  BY <1>2, <1>5, <1>8, UnsetAssumption DEF StillOrphan, f

\* So a removal keeps what is true of the requests ...
LEMMA RemovalInv ==
    ASSUME Inv, Locked, Overtaken, Tidy, RemoveOrphan,
           UNCHANGED <<dbVars, temp, reqVars, dirty, stale>>
    PROVE  Inv' /\ Locked' /\ Overtaken'
<1> DEFINE f == target.file
<1>1. /\ UNCHANGED <<row, issued, temp, pc, job, seen, stage, held, dirty, stale>>
      /\ torn \subseteq torn' /\ torn' \subseteq torn \cup {f[1]}
      /\ file' = [file EXCEPT ![f[1]][f[2]] = NoFile]
  BY DEF RemoveOrphan, dbVars, reqVars
<1>2. /\ TypeOK /\ Issued /\ Exclusive /\ Settled
      /\ \A r \in Reqs : Local(r)
  BY DEF Inv
<1>3. f[1] \in Posts /\ f[2] \in Mimes
  BY DEF RemoveOrphan, Tidy, Looked, Found, Files
<1> HIDE DEF f
<1>4. TypeOK'
  BY <1>1, <1>2, <1>3, WriteFile DEF TypeOK, Directory
<1>5. ASSUME NEW p \in Posts, p \notin torn', row[p] # NoRow, Served(p)
      PROVE  Served(p)'
  <2>1. row[p].mime \in Mimes /\ row[p].pic \in Pics /\ row[p].pic # NoFile
    BY <1>2, <1>5, ConstantAssumption DEF TypeOK, Content
  <2> QED
    BY <1>1, <1>5, <2>1, OrphanSpared DEF Served
<1>6. /\ \A r \in Reqs : /\ Op(r)' = Op(r) /\ Post(r)' = Post(r) /\ From(r)' = From(r)
                         /\ Upload(r)' = Upload(r) /\ Converted(r)' = Converted(r)
  BY <1>1 DEF Op, Post, From, Upload, Converted
<1>7. ASSUME NEW r \in Reqs
      PROVE  Local(r)'
  <2>1. Local(r)
    BY <1>2
  <2>2. JobKnown(r)' /\ Progress(r)' /\ Fresh(r)' /\ Written(r)' /\ Deleted(r)'
    BY <1>1, <1>6, <2>1 DEF Local, JobKnown, Progress, HasRead, HasChanged, Fresh, Written, Deleted,
       Gone
  <2>3. ASSUME NEW p \in Posts, NEW m \in Mimes, p \notin torn', InPlace(r, p, m),
               file[p][m] \in Pics
        PROVE  file'[p][m] = file[p][m]
    BY <2>3, OrphanSpared, ConstantAssumption
  <2>4. Pending(r)'
    <3> SUFFICES ASSUME Creating(r), pc[r] = "commit", Post(r) \notin torn'
                 PROVE  file'[Post(r)][Upload(r).mime] = Upload(r).pic
      BY <1>1, <1>6, <2>1 DEF Local, Pending, Creating
    <3>1. Post(r) \in Posts /\ Upload(r) \in Content
      BY <1>2, <2>1, ConstantAssumption
         DEF Local, JobKnown, Creating, TypeOK, Jobs, Post, Upload
    <3>2. file[Post(r)][Upload(r).mime] = Upload(r).pic
      BY <1>1, <2>1 DEF Local, Pending
    <3> QED
      BY <2>3, <3>1, <3>2 DEF InPlace, Content, Creating
  <2>5. UnderWay(r)'
    <3> DEFINE p == Post(r)
    <3> SUFFICES ASSUME Op(r) \notin {"none", "create"}, pc[r] # "target",
                        p \notin torn', row[p] # NoRow
                 PROVE  (ReplacesContent(r) /\ Converts(r) /\ Swaps(r))'
      BY <1>1, <1>6 DEF UnderWay
    <3>1. p \in Posts /\ ReplacesContent(r) /\ Converts(r) /\ Swaps(r)
      BY <1>1, <2>1 DEF Local, JobKnown, UnderWay
    <3>2. ReplacesContent(r)'
      <4>1. CASE Op(r) = "update" /\ pc[r] \in {"save", "commit"}
        <5>1. Upload(r) \in Content
          BY <2>1, <4>1, ConstantAssumption DEF Local, JobKnown, Upload
        <5>2. file'[p][Upload(r).mime] = file[p][Upload(r).mime]
          BY <2>3, <3>1, <4>1, <5>1 DEF InPlace, ReplacesContent, Content
        <5> QED
          BY <1>1, <1>6, <3>1, <5>2 DEF ReplacesContent
      <4> QED
        BY <1>1, <1>6, <4>1 DEF ReplacesContent
    <3>3. Converts(r)'
      <4>1. CASE Op(r) \in Conversion /\ pc[r] \notin {"decode", "encode"}
        <5>1. held[r] \in Pics
          BY <2>1, <4>1 DEF Local, JobKnown
        <5>2. file'[p][Jxl] = file[p][Jxl]
          BY <2>3, <3>1, <4>1, <5>1, ConstantAssumption DEF InPlace, Converts
        <5> QED
          BY <1>1, <1>5, <1>6, <3>1, <5>2 DEF Converts
      <4> QED
        BY <1>1, <1>6, <4>1 DEF Converts
    <3>4. Swaps(r)'
      <4> DEFINE new == seen[r][From(r)]
      <4>1. CASE /\ Op(r) = "replace"
                 /\ pc[r] \in {"meta", "purge", "commit"}
                    \/ (pc[r] = "swap2" /\ seen[r][p].mime # new.mime)
        <5>1. From(r) \in Posts /\ new \in Content
          BY <1>2, <2>1, <4>1 DEF Local, JobKnown, Progress, HasRead, Merging, TypeOK
        <5>2. file'[p][new.mime] = file[p][new.mime]
          BY <2>3, <3>1, <4>1, <5>1 DEF InPlace, Swaps, Content
        <5> QED
          BY <1>1, <1>6, <3>1, <5>2 DEF Swaps
      <4>2. CASE ~(/\ Op(r) = "replace"
                   /\ pc[r] \in {"meta", "purge", "commit"}
                      \/ (pc[r] = "swap2" /\ seen[r][p].mime # new.mime))
        BY <1>1, <1>6, <3>1, <4>2 DEF Swaps
      <4> QED
        BY <4>1, <4>2
    <3> QED
      BY <3>2, <3>3, <3>4
  <2> QED
    BY <2>2, <2>4, <2>5 DEF Local
<1>8. Issued' /\ Exclusive'
  BY <1>1, <1>2, <1>6 DEF Issued, Exclusive
<1>9. Settled'
  <2> SUFFICES ASSUME NEW p \in Posts, row[p] # NoRow, p \notin torn',
                      \A r \in Reqs : p \notin dirty[r]
               PROVE  Served(p)'
    BY <1>1 DEF Settled
  <2> QED
    BY <1>1, <1>2, <1>5 DEF Settled
<1>10. Locked' /\ Overtaken'
  BY <1>1, <1>6 DEF Locked, Overtaken
<1> QED
  BY <1>4, <1>7, <1>8, <1>9, <1>10 DEF Inv

LEMMA RemovalKept ==
    ASSUME Kept, Tidy, RemoveOrphan, UNCHANGED <<dbVars, temp, reqVars, dirty, stale>>
    PROVE  Kept'
<1> DEFINE f == target.file
<1>1. /\ UNCHANGED <<row, pc, job, seen, stage, held, dirty, stale>> /\ torn \subseteq torn'
      /\ file' = [file EXCEPT ![f[1]][f[2]] = NoFile]
  BY DEF RemoveOrphan, dbVars, reqVars
<1> HIDE DEF f
<1>2. Inv' /\ Locked' /\ Overtaken'
  BY RemovalInv DEF Kept
<1>3. \A r \in Reqs : /\ Op(r)' = Op(r) /\ Post(r)' = Post(r) /\ From(r)' = From(r)
                      /\ Upload(r)' = Upload(r)
  BY <1>1 DEF Op, Post, From, Upload
<1>4. ASSUME NEW r \in Reqs
      PROVE  Decoded(r)' /\ Marked(r)'
  BY <1>1, <1>3 DEF Kept, Decoded, Replaces, Marked
<1>5. ASSUME NEW r \in Reqs
      PROVE  Midway(r)'
  <2> DEFINE p == Post(r)  old == seen[r][p]
  <2> SUFFICES ASSUME p \notin torn', row[p] # NoRow
               PROVE  /\ Op(r) = "update" /\ pc[r] = "fill" => file'[p][old.mime] = NoFile
                      /\ pc[r] = "swap2" => file'[p][old.mime] = old.pic
                      /\ pc[r] = "swap3" => file'[p][old.mime] = NoFile
    BY <1>1, <1>3 DEF Midway
  <2>1. TypeOK /\ Local(r) /\ Midway(r)
    BY DEF Kept, Inv
  <2>2. CASE (Op(r) = "update" /\ pc[r] = "fill") \/ pc[r] = "swap3"
    <3>1. p \in Posts /\ HasRead(r, p)
      BY <2>1, <2>2, OpAt DEF Local, JobKnown, HasRead
    <3>2. old \in Content
      BY <2>1, <3>1 DEF Local, Progress, TypeOK
    <3>3. file[p][old.mime] = NoFile /\ old.mime \in Mimes
      BY <1>1, <2>1, <2>2, <3>2 DEF Midway, Content
    <3>4. file'[p][old.mime] = NoFile
      BY <1>1, <2>1, <3>1, <3>3 DEF TypeOK
    <3> QED
      BY <2>2, <3>4
  <2>3. CASE pc[r] = "swap2"
    <3>1. p \in Posts /\ HasRead(r, p) /\ HasChanged(r, p)
      BY <2>1, <2>3, OpAt DEF Local, JobKnown, HasRead, HasChanged
    <3>2. seen[r][p] # Unset /\ p \in dirty[r]
      BY <2>1, <3>1 DEF Local, Progress
    <3>3. p \notin stale[r]
      BY <1>1, <3>2 DEF Kept, Overtaken
    <3>4. row[p] = old
      BY <2>1, <2>3, <3>1, <3>2, <3>3 DEF Local, Fresh
    <3>5. old.mime \in Mimes /\ old.pic \in Pics
      BY <2>1, <3>1, <3>2 DEF TypeOK, Content
    <3>6. file[p][old.mime] = old.pic
      BY <1>1, <2>1, <2>3 DEF Midway
    <3> QED
      BY <2>3, <3>1, <3>4, <3>5, <3>6, OrphanSpared, ConstantAssumption DEF Kept
  <2> QED
    BY <2>2, <2>3
<1> QED
  BY <1>2, <1>4, <1>5 DEF Kept

\* ... and what the cleaner relies on.
LEMMA RemovalTidy ==
    ASSUME Inv, Tidy, RemoveOrphan, UNCHANGED <<dbVars, temp, reqVars, dirty, stale>>
    PROVE  Tidy'
<1> DEFINE f == target.file
<1>1. /\ UNCHANGED <<row, pc, job, seen, types, exposed>>
      /\ at = "remove" /\ at' = "delete" /\ orphans' \subseteq orphans
      /\ young' = young \ {f} /\ torn \subseteq torn'
      /\ file' = [file EXCEPT ![f[1]][f[2]] = NoFile]
  BY DEF RemoveOrphan, Keep, dbVars, reqVars
<1>2. TypeOK /\ f[1] \in Posts /\ f[2] \in Mimes /\ f = <<f[1], f[2]>>
  BY DEF RemoveOrphan, Tidy, Looked, Found, Files, Inv
<1> HIDE DEF f
<1>3. ASSUME NEW p \in Posts, NEW m \in Mimes, Safe(p, m)
      PROVE  Safe(p, m)'
  BY <1>1, <1>2, <1>3 DEF Safe, TypeOK
<1>4. Guarded'
  <2>1. \A r \in Reqs, p \in Posts, m \in Mimes : InPlace(r, p, m)' => InPlace(r, p, m)
    BY <1>1 DEF InPlace, Op, Post, From, Upload
  <2> QED
    BY <1>1, <1>3, <2>1 DEF Tidy, Guarded
<1>5. Known'
  <2> SUFFICES ASSUME NEW o \in orphans', NEW p \in Posts, p \notin exposed \cup torn',
                      p = o.file[1], row[p] # NoRow
               PROVE  types[p] = row[p].mime \/ Safe(p, row[p].mime)'
    BY <1>1 DEF Known, Safe
  <2>1. types[p] = row[p].mime \/ Safe(p, row[p].mime)
    BY <1>1 DEF Tidy, Known
  <2>2. row[p].mime \in Mimes
    BY <1>2 DEF TypeOK, Content
  <2>3. CASE Safe(p, row[p].mime)
    BY <1>1, <1>3, <2>2, <2>3 DEF Safe
  <2> QED
    BY <2>1, <2>3
<1>6. Found' /\ Looked'
  BY <1>1 DEF Tidy, Found, Looked
<1> QED
  BY <1>4, <1>5, <1>6 DEF Tidy

CleanerInv == Kept /\ Tidy

LEMMA InitCleaner ==
    ASSUME Init, InitOrphans
    PROVE  CleanerInv
<1>1. \A r \in Reqs : Op(r) = "none"
  BY DEF Init, Op, NoJob
<1>2. Guarded
  BY <1>1 DEF Guarded, InPlace, Conversion
<1>3. Known /\ Looked /\ Found
  BY DEF InitOrphans, Known, Looked, Found, Nothing
<1> QED
  BY <1>2, <1>3, InitKept DEF CleanerInv, Tidy

\* Beside the cleaner the server makes its own steps, and the cleaner changes nothing a
\* request depends on except by a removal.
LEMMA StepsBeside ==
    ASSUME [Serve \/ Clean]_<<vars, orphanVars>>
    PROVE  \/ [Next]_vars
           \/ RemoveOrphan /\ UNCHANGED <<dbVars, temp, reqVars, dirty, stale>>
BY DEF Serve, Clean, ServerStep, HourPasses, Next

LEMMA NextCleaner ==
    ASSUME CleanerInv, [Serve \/ Clean]_<<vars, orphanVars>>
    PROVE  CleanerInv'
<1>1. Inv /\ Locked /\ Kept /\ Tidy
  BY DEF CleanerInv, Kept
<1>2. Kept' /\ Inv' /\ TypeOK'
  BY <1>1, StepsBeside, NextKept, RemovalKept DEF Kept, Inv
<1>3. CASE \E q \in Reqs : ServerStep(q)
  BY <1>1, <1>2, <1>3, ServerTidy DEF CleanerInv
<1>4. CASE \/ /\ Crash \/ \E t \in Tokens : UploadFile(t) \/ ExpireUpload(t)
              /\ UNCHANGED orphanVars
           \/ HourPasses
  BY <1>1, <1>2, <1>4, RestTidy DEF CleanerInv
<1>5. CASE RemoveOrphan /\ UNCHANGED <<dbVars, temp, reqVars, dirty, stale>>
  BY <1>1, <1>2, <1>5, RemovalTidy DEF CleanerInv
<1>6. CASE /\ UNCHANGED vars
           /\ \/ StartScan
              \/ \E p \in Posts : ListDirectory(p)
              \/ \E kinds \in SUBSET {"no-post", "stale"} : Confirm(kinds)
              \/ \E o \in orphans : CheckAge(o)
              \/ LookAtPost
              \/ Quit
  BY <1>1, <1>2, <1>6, LookingTidy DEF CleanerInv
<1>7. CASE UNCHANGED <<vars, orphanVars>>
  <2>1. UNCHANGED <<row, file, pc, job, seen, torn, at, types, unlisted, orphans, target,
                    young, exposed>>
    BY <1>7 DEF vars, orphanVars, cleanerVars, dbVars, fsVars, reqVars, histVars
  <2>2. \A r \in Reqs, p \in Posts, m \in Mimes : InPlace(r, p, m)' => InPlace(r, p, m)
    BY <2>1 DEF InPlace, Op, Post, From, Upload
  <2>3. Tidy'
    BY <1>1, <2>1, <2>2 DEF Tidy, Found, Guarded, Known, Looked, Safe, StillOrphan, Exists
  <2> QED
    BY <1>2, <2>3 DEF CleanerInv
<1> QED
  BY <1>3, <1>4, <1>5, <1>6, <1>7 DEF Serve, Clean

THEOREM CleanerInvariance == CleanerSpec => []CleanerInv
<1>1. Init /\ InitOrphans => CleanerInv
  BY InitCleaner
<1>2. CleanerInv /\ [Serve \/ Clean]_<<vars, orphanVars>> => CleanerInv'
  BY NextCleaner
<1> QED
  BY <1>1, <1>2, PTL DEF CleanerSpec

\* What requests promise they keep beside the cleaner: creations become visible with their
\* content, conversions keep the picture and merges the chosen content, whatever files the
\* cleaner removes meanwhile.
THEOREM PromisesBesideCleaner ==
    CleanerSpec => CreatedWithContent /\ ConversionKeepsPicture /\ MergeKeepsChosenContent
<1> DEFINE New == \A p \in Posts : row[p] = NoRow /\ row'[p] # NoRow /\ p \notin torn => Served(p)'
           Picture ==
        \A r \in Reqs : LET p == Post(r) IN
          /\ \/ Op(r) = "convert" /\ pc[r] = "commit" /\ pc'[r] # "commit"
             \/ Op(r) = "task" /\ pc[r] = "row" /\ pc'[r] = "sweep"
          /\ row[p] # NoRow /\ p \notin torn'
          => row'[p] = [pic |-> row[p].pic, mime |-> Jxl]
           Chosen ==
        \A r \in Reqs, p, s \in Posts :
          /\ Op(r) \in {"merge", "replace"} /\ p = Post(r) /\ s = From(r)
          /\ pc[r] = "commit" /\ pc'[r] # pc[r] /\ row' # row
          /\ row[p] # NoRow /\ {p, s} \cap torn' = {}
          => /\ row'[s] = NoRow
             /\ row'[p] = IF Op(r) = "replace" THEN row[s] ELSE row[p]
             /\ (\A q \in Reqs : p \notin dirty'[q]) => Served(p)'
<1>1. ASSUME Kept, [Next]_vars
      PROVE  New /\ Picture /\ Chosen
  <2>1. New
    BY <1>1, CreationStep DEF Kept
  <2>2. Picture
    BY <1>1, ConversionStep
  <2>3. Chosen
    BY <1>1, MergeStep DEF Merging
  <2> QED
    BY <2>1, <2>2, <2>3
<1>2. ASSUME UNCHANGED <<dbVars, reqVars>>
      PROVE  New /\ Picture /\ Chosen
  BY <1>2 DEF dbVars, reqVars
<1>3. CleanerInv /\ [Serve \/ Clean]_<<vars, orphanVars>> => New /\ Picture /\ Chosen
  BY <1>1, <1>2, StepsBeside DEF CleanerInv
<1> HIDE DEF New, Picture, Chosen
<1> QED
  BY <1>3, CleanerInvariance, PTL
     DEF CleanerSpec, CreatedWithContent, ConversionKeepsPicture, MergeKeepsChosenContent,
         New, Picture, Chosen

\* The cleaner takes no post's content: whatever it removes beside the requests, at every
\* moment, every post that is not torn and that only tasks are in the middle of has the
\* file its row names (find_orphan_files of admin/database.rs beside api/post.rs).
THEOREM CleanerSparesContent == CleanerSpec => []ContentServed
<1>1. CleanerInv => ContentServed
  BY ServedBesideTasks DEF CleanerInv, Kept
<1> QED
  BY <1>1, CleanerInvariance, PTL

\* A stale file the cleaner removes is not the only copy: its post, unless exposed, has a
\* file under the encoding the cleaner has read, and still has when the file is removed.
THEOREM CleanerKeepsLastCopy == CleanerSpec => LastCopyKept
<1> DEFINE Copied ==
        at = "remove" /\ at' = "delete" /\ target.kind = "stale" =>
            LET p == target.file[1]
            IN  p \notin exposed => \E m \in Mimes : file'[p][m] # NoFile
<1>1. ASSUME CleanerInv, Serve \/ Clean, at = "remove", at' = "delete", target.kind = "stale",
             target.file[1] \notin exposed
      PROVE  \E m \in Mimes : file'[target.file[1]][m] # NoFile
  <2> DEFINE f == target.file  p == f[1]
  <2>1. TypeOK /\ Looked /\ Found
    BY <1>1 DEF CleanerInv, Kept, Inv, Tidy
  <2>2. RemoveOrphan
    BY <1>1 DEF Serve, Clean, ServerStep, HourPasses, orphanVars, cleanerVars, StartScan,
       ListDirectory, Confirm, CheckAge, LookAtPost, Quit, Stop
  <2>3. p \in Posts /\ f[2] \in Mimes /\ types[p] \in Mimes \cup {Unset}
    BY <1>1, <2>1 DEF Looked, Found, Files
  <2>4. StillOrphan(target)
    BY <1>1, <2>1 DEF Looked
  <2>5. types[p] \in Mimes \ {f[2]} /\ file[p][types[p]] # NoFile
    BY <1>1, <2>3, <2>4 DEF StillOrphan, Exists
  <2> HIDE DEF f
  <2>6. file' = [file EXCEPT ![p][f[2]] = NoFile]
    BY <2>2 DEF RemoveOrphan, f
  <2>7. file'[p][types[p]] = file[p][types[p]]
    BY <2>1, <2>3, <2>5, <2>6 DEF TypeOK
  <2> QED
    BY <2>5, <2>7 DEF f
<1>2. CleanerInv /\ [Serve \/ Clean]_<<vars, orphanVars>> => [Copied]_<<vars, orphanVars>>
  BY <1>1
<1> HIDE DEF Copied
<1> QED
  BY <1>2, CleanerInvariance, PTL DEF CleanerSpec, LastCopyKept, Copied

=============================================================================
