---------------------------- MODULE AccountsProofs ----------------------------
(* Users: type correctness, what ranks allow, and where avatars are, for    *)
(* any number of requests, users and names.  Credentials: type correctness, *)
(* and that what was revoked stays so, for any number of requests, users    *)
(* and tokens.  No lemma speaks of both.                                    *)
EXTENDS Users, Credentials, TLAPS

-----------------------------------------------------------------------------
(* The inductive invariant.                                                 *)

Located == {"rank", "write avatar", "avatar", "name", "move", "commit"}

\* What a request has at each statement.
PhaseOf(r) ==
    /\ pc[r] = "idle" => wish[r] = None /\ actor[r] = None
    /\ pc[r] # "idle" => wish[r] \in Requests
    /\ pc[r] \notin Located => target[r] = NoTarget /\ pending[r] = None
    /\ pc[r] \in Located =>
          target[r].id \in Ids /\ target[r].id < next /\ target[r].path \in Names
    /\ pc[r] \in {"count", "insert"} => wish[r].kind = "create"
    /\ pc[r] \in {"rank", "name", "move"} => wish[r].kind = "update"
    /\ pc[r] \in {"write avatar", "avatar"} => wish[r].pic # None /\ wish[r].kind # "delete"
    /\ pc[r] = "insert" => wish[r].rank \in Ranks

\* The row a request has written.
PendingOf(r) ==
    /\ pc[r] \in Located /\ wish[r].kind = "create" =>
          /\ pending[r] # None /\ wish[r].rank \in Ranks
          /\ pending[r].name = wish[r].name /\ pending[r].rank = wish[r].rank
          /\ target[r].path = wish[r].name
    /\ pc[r] \in Located /\ wish[r].kind = "delete" => pending[r] = None
    /\ pc[r] \in Located /\ wish[r].kind = "update" /\ wish[r].name # None /\ pc[r] \in {"move", "commit"} =>
          pending[r] # None /\ pending[r].name = wish[r].name
    /\ pc[r] = "move" => wish[r].name # None
    /\ pending[r] # None /\ wish[r].kind = "update" =>
          /\ users[target[r].id] # None
          /\ pc[r] \notin {"move", "commit"} \/ wish[r].name = None =>
                pending[r].name = users[target[r].id].name

\* Users have IDs that were drawn; a user that is being created is nobody else's.
DrawnOK ==
    /\ \A i \in Ids : users[i] # None => i < next
    /\ \A i \in Ids : i >= next => avatar[i] = None
    /\ \A r \in Reqs : pc[r] \in Located /\ wish[r].kind = "create" =>
          /\ users[target[r].id] = None /\ avatar[target[r].id] = None
          /\ \A s \in Reqs \ {r} : target[s].id # target[r].id

\* Rows are locked, and names are unique among all that are written.
LocksOK ==
    \A r \in Reqs : pending[r] # None =>
        /\ \A s \in Reqs \ {r} : pending[s] # None =>
              target[s].id # target[r].id /\ pending[s].name # pending[r].name
        /\ \A i \in Ids : users[i] # None /\ i # target[r].id => users[i].name # pending[r].name

\* The types, but for the uniqueness of names, which LocksOK speaks of too.
Shapes ==
    /\ users \in [Ids -> Rows \cup {None}]
    /\ files \in [Names -> Pics \cup {None}]
    /\ begun \in 0..MaxReqs
    /\ next \in 1..MaxId + 1
    /\ pc \in [Reqs -> {"idle", "begin", "count", "insert", "rank", "write avatar",
                        "avatar", "name", "move", "commit"}]
    /\ actor \in [Reqs -> [id : Ids, rank : Ranks] \cup {None}]
    /\ wish \in [Reqs -> Requests \cup {None}]
    /\ target \in [Reqs -> [id : Ids \cup {None}, path : Names \cup {None}]]
    /\ pending \in [Reqs -> Rows \cup {None}]
    /\ avatar \in [Ids -> Pics \cup {None}]
    /\ raced \in [Reqs -> BOOLEAN]
    /\ muddled \subseteq Ids

Unique ==
    \A i, j \in Ids : users[i] # None /\ users[j] # None /\ i # j =>
                          users[i].name # users[j].name

RowsOK ==
    /\ TypeOK
    /\ \A r \in Reqs : PhaseOf(r)
    /\ \A r \in Reqs : PendingOf(r)
    /\ DrawnOK
    /\ LocksOK

LEMMA Begins == Start => RowsOK
BY NoneAssumption, BoundAssumption DEF Start, RowsOK, TypeOK, PhaseOf, PendingOf, DrawnOK,
   LocksOK, Located, NoTarget, Ids, Ranks


LEMMA ShapesUnique == TypeOK <=> Shapes /\ Unique
BY DEF TypeOK, Shapes, Unique

-----------------------------------------------------------------------------
(* What a request asks for.                                                 *)

LEMMA Asks ==
    ASSUME NEW w \in Requests
    PROVE  /\ w.kind \in {"create", "update", "delete"}
           /\ w.name \in Names \cup {None} /\ w.rank \in Ranks \cup {None}
           /\ w.pic \in Pics \cup {None}
           /\ w.kind = "create" => w.name \in Names
           /\ w.kind = "delete" => w.name = None /\ w.rank = None /\ w.pic = None
BY DEF Requests

LEMMA AskingRank ==
    ASSUME NEW w \in Requests, w.kind = "create", NEW k \in Ranks
    PROVE  LET v == [w EXCEPT !.rank = k] IN
           /\ v \in Requests /\ v.rank = k
           /\ v.kind = w.kind /\ v.user = w.user /\ v.name = w.name /\ v.pic = w.pic
BY DEF Requests

-----------------------------------------------------------------------------
(* The steps of a request, one by one, leave those of the others alone.     *)

Act(r) ==
    \/ \E i \in Ids \cup {None}, asked \in Asked : Authenticate(r, i, asked)
    \/ Create(r) \/ Update(r) \/ Delete(r) \/ Count(r) \/ InsertUser(r) \/ SetRank(r)
    \/ WriteAvatar(r) \/ RecordAvatar(r) \/ SetName(r) \/ MoveAvatar(r)
    \/ CommitChange(r) \/ CommitDelete(r) \/ Abort(r)

LEMMA NextActs == Next <=> \E r \in Reqs : Act(r)
BY DEF Next, Act

Kept(q) ==
    /\ pc'[q] = pc[q] /\ actor'[q] = actor[q] /\ wish'[q] = wish[q]
    /\ target'[q] = target[q] /\ pending'[q] = pending[q]

LEMMA OthersKept ==
    ASSUME Shapes, NEW r \in Reqs, Act(r), NEW q \in Reqs \ {r}
    PROVE  Kept(q)
<1> USE DEF Shapes, Kept, Goto
<1>1. ASSUME NEW i \in Ids \cup {None}, NEW asked \in Asked, Authenticate(r, i, asked) PROVE Kept(q)
  BY <1>1 DEF Authenticate
<1>2. CASE Create(r)
  BY <1>2 DEF Create
<1>3. CASE Update(r)
  BY <1>3 DEF Update
<1>4. CASE Delete(r)
  BY <1>4 DEF Delete
<1>5. CASE Count(r)
  BY <1>5 DEF Count
<1>6. CASE InsertUser(r)
  BY <1>6 DEF InsertUser
<1>7. CASE SetRank(r)
  BY <1>7 DEF SetRank, Write
<1>8. CASE WriteAvatar(r)
  BY <1>8 DEF WriteAvatar
<1>9. CASE RecordAvatar(r)
  BY <1>9 DEF RecordAvatar, Write
<1>10. CASE SetName(r)
  BY <1>10 DEF SetName, Write
<1>11. CASE MoveAvatar(r)
  BY <1>11 DEF MoveAvatar
<1>12. CASE CommitChange(r)
  BY <1>12 DEF CommitChange, Commit, End
<1>13. CASE CommitDelete(r)
  BY <1>13 DEF CommitDelete, Commit, End
<1>14. CASE Abort(r)
  BY <1>14 DEF Abort, End
<1> QED
  BY <1>1, <1>2, <1>3, <1>4, <1>5, <1>6, <1>7, <1>8, <1>9, <1>10, <1>11, <1>12, <1>13, <1>14
     DEF Act

LEMMA RowTyped ==
    ASSUME Shapes, NEW r \in Reqs, PhaseOf(r), pc[r] \in Located
    PROVE  Row(r) \in Rows \cup {None}
BY DEF Shapes, PhaseOf, Row

LEMMA ShapesKept ==
    ASSUME Shapes, NEW r \in Reqs, PhaseOf(r), PendingOf(r), Act(r)
    PROVE  Shapes'
<1>users. users \in [Ids -> Rows \cup {None}]
  BY DEF Shapes
<1>files. files \in [Names -> Pics \cup {None}]
  BY DEF Shapes
<1>begun. begun \in 0..MaxReqs
  BY DEF Shapes
<1>next. next \in 1..MaxId + 1
  BY DEF Shapes
<1>pc. pc \in [Reqs -> {"idle", "begin", "count", "insert", "rank", "write avatar",
                            "avatar", "name", "move", "commit"}]
  BY DEF Shapes
<1>actor. actor \in [Reqs -> [id : Ids, rank : Ranks] \cup {None}]
  BY DEF Shapes
<1>wish. wish \in [Reqs -> Requests \cup {None}]
  BY DEF Shapes
<1>target. target \in [Reqs -> [id : Ids \cup {None}, path : Names \cup {None}]]
  BY DEF Shapes
<1>pending. pending \in [Reqs -> Rows \cup {None}]
  BY DEF Shapes
<1>avatar. avatar \in [Ids -> Pics \cup {None}]
  BY DEF Shapes
<1>raced. raced \in [Reqs -> BOOLEAN]
  BY DEF Shapes
<1>muddled. muddled \subseteq Ids
  BY DEF Shapes
<1>b. pc[r] \in Located => Row(r) \in Rows \cup {None}
  BY RowTyped
<1>c. pc[r] \in {"count", "insert"} =>
          /\ wish[r] \in Requests /\ wish[r].kind = "create" /\ wish[r].name \in Names
          /\ wish[r].rank \in Ranks \cup {None}
          /\ pc[r] = "insert" => wish[r].rank \in Ranks
          /\ \A k \in Ranks : [wish[r] EXCEPT !.rank = k] \in Requests
  BY Asks, AskingRank DEF PhaseOf
<1>d. pc[r] # "idle" =>
          /\ wish[r].name \in Names \cup {None} /\ wish[r].rank \in Ranks \cup {None}
          /\ wish[r].pic \in Pics \cup {None}
  BY Asks DEF PhaseOf
<1>e. /\ pc[r] \in Located => target[r].id \in Ids /\ target[r].path \in Names
      /\ pc[r] = "write avatar" => wish[r].pic # None
      /\ pc[r] = "insert" => wish[r].rank # None
      /\ pc[r] = "move" => wish[r].name # None
  BY <1>d, NoneAssumption DEF PhaseOf, PendingOf
<1>r. MaxRank \in Ranks /\ DefaultRank \in Ranks
  BY RankAssumption DEF Ranks
<1>1. ASSUME NEW i \in Ids \cup {None}, NEW asked \in Asked, Authenticate(r, i, asked) PROVE Shapes'
  <2>1. begun' \in 0..MaxReqs
    BY <1>1, <1>begun, BoundAssumption DEF Authenticate
  <2>2. pc' \in [Reqs -> {"idle", "begin", "count", "insert", "rank", "write avatar",
                            "avatar", "name", "move", "commit"}]
    BY <1>1, <1>pc DEF Authenticate, Goto
  <2>3. actor' \in [Reqs -> [id : Ids, rank : Ranks] \cup {None}]
    BY <1>1, <1>actor, <1>users DEF Authenticate, Rows
  <2>4. wish' \in [Reqs -> Requests \cup {None}]
    BY <1>1, <1>wish, RankAssumption DEF Authenticate
  <2> QED
    BY <1>1, <2>1, <2>2, <2>3, <2>4, <1>users, <1>files, <1>next, <1>target, <1>pending,
       <1>avatar, <1>raced, <1>muddled DEF Shapes, Authenticate
<1>2. CASE Create(r)
  <2>1. pc' \in [Reqs -> {"idle", "begin", "count", "insert", "rank", "write avatar",
                            "avatar", "name", "move", "commit"}]
    BY <1>2, <1>pc DEF Create, Goto
  <2> QED
    BY <1>2, <2>1, <1>users, <1>files, <1>begun, <1>next, <1>actor, <1>wish, <1>target,
       <1>pending, <1>avatar, <1>raced, <1>muddled DEF Shapes, Create
<1>3. CASE Update(r)
  <2>1. pc' \in [Reqs -> {"idle", "begin", "count", "insert", "rank", "write avatar",
                            "avatar", "name", "move", "commit"}]
    BY <1>3, <1>pc DEF Update, Goto
  <2>2. target' \in [Reqs -> [id : Ids \cup {None}, path : Names \cup {None}]]
    <3>1. PICK i \in Ids :
            /\ users[i] # None
            /\ target' = [target EXCEPT ![r] = [id |-> i, path |-> users[i].name]]
      BY <1>3 DEF Update
    <3>2. users[i].name \in Names
      BY <3>1, <1>users DEF Rows
    <3> QED BY <3>1, <3>2, <1>target
  <2> QED
    BY <1>3, <2>1, <2>2, <1>users, <1>files, <1>begun, <1>next, <1>actor, <1>wish, <1>pending,
       <1>avatar, <1>raced, <1>muddled DEF Shapes, Update
<1>4. CASE Delete(r)
  <2>1. pc' \in [Reqs -> {"idle", "begin", "count", "insert", "rank", "write avatar",
                            "avatar", "name", "move", "commit"}]
    BY <1>4, <1>pc DEF Delete, Goto
  <2>2. target' \in [Reqs -> [id : Ids \cup {None}, path : Names \cup {None}]]
    <3>1. PICK i \in Ids :
            /\ users[i] # None
            /\ target' = [target EXCEPT ![r] = [id |-> i, path |-> users[i].name]]
      BY <1>4 DEF Delete
    <3>2. users[i].name \in Names
      BY <3>1, <1>users DEF Rows
    <3> QED BY <3>1, <3>2, <1>target
  <2> QED
    BY <1>4, <2>1, <2>2, <1>users, <1>files, <1>begun, <1>next, <1>actor, <1>wish, <1>pending,
       <1>avatar, <1>raced, <1>muddled DEF Shapes, Delete
<1>5. CASE Count(r)
  <2>1. pc' \in [Reqs -> {"idle", "begin", "count", "insert", "rank", "write avatar",
                            "avatar", "name", "move", "commit"}]
    BY <1>5, <1>pc DEF Count, Goto
  <2>2. wish' \in [Reqs -> Requests \cup {None}]
    BY <1>5, <1>wish, <1>c, <1>r DEF Count
  <2> QED
    BY <1>5, <2>1, <2>2, <1>users, <1>files, <1>begun, <1>next, <1>actor, <1>target, <1>pending,
       <1>avatar, <1>raced, <1>muddled DEF Shapes, Count
<1>6. CASE InsertUser(r)
  <2>1. next' \in 1..MaxId + 1
    <3>1. next <= MaxId /\ next' = next + 1
      BY <1>6 DEF InsertUser
    <3> QED BY <3>1, <1>next, BoundAssumption
  <2>2. pc' \in [Reqs -> {"idle", "begin", "count", "insert", "rank", "write avatar",
                            "avatar", "name", "move", "commit"}]
    BY <1>6, <1>pc DEF InsertUser, Goto
  <2>3. target' \in [Reqs -> [id : Ids \cup {None}, path : Names \cup {None}]]
    <3>1. next <= MaxId /\ target' = [target EXCEPT ![r] = [id |-> next, path |-> wish[r].name]]
      BY <1>6 DEF InsertUser
    <3>2. next \in Ids
      BY <3>1, <1>next, BoundAssumption DEF Ids
    <3>3. wish[r].name \in Names
      BY <1>6, <1>c DEF InsertUser
    <3> QED BY <3>1, <3>2, <3>3, <1>target
  <2>4. pending' \in [Reqs -> Rows \cup {None}]
    BY <1>6, <1>pending, <1>c, <1>d DEF InsertUser, Rows
  <2> QED
    BY <1>6, <2>1, <2>2, <2>3, <2>4, <1>users, <1>files, <1>begun, <1>actor, <1>wish, <1>avatar,
       <1>raced, <1>muddled DEF Shapes, InsertUser
<1>7. CASE SetRank(r)
  <2>1. pc' \in [Reqs -> {"idle", "begin", "count", "insert", "rank", "write avatar",
                            "avatar", "name", "move", "commit"}]
    BY <1>7, <1>pc DEF SetRank, Goto
  <2>2. pending' \in [Reqs -> Rows \cup {None}]
    <3>1. CASE wish[r].rank = None \/ users[target[r].id] = None
      BY <1>7, <3>1, <1>pending DEF SetRank, Row, Located, Write
    <3>2. CASE wish[r].rank # None /\ users[target[r].id] # None
      <4>1. Row(r) \in Rows
        BY <1>7, <3>2, <1>b DEF SetRank, Located, Row
      <4>2. [Row(r) EXCEPT !.rank = wish[r].rank] \in Rows
        BY <4>1, <3>2, <1>d, <1>7 DEF Rows, SetRank
      <4> QED BY <1>7, <3>2, <4>2, <1>pending DEF SetRank, Write
    <3> QED BY <3>1, <3>2
  <2> QED
    BY <1>7, <2>1, <2>2, <1>users, <1>files, <1>begun, <1>next, <1>actor, <1>wish, <1>target,
       <1>avatar, <1>raced, <1>muddled DEF Shapes, SetRank, Write
<1>8. CASE WriteAvatar(r)
  <2>1. files' \in [Names -> Pics \cup {None}]
    BY <1>8, <1>files, <1>d, <1>e DEF WriteAvatar, Located
  <2>2. pc' \in [Reqs -> {"idle", "begin", "count", "insert", "rank", "write avatar",
                            "avatar", "name", "move", "commit"}]
    BY <1>8, <1>pc DEF WriteAvatar, Goto
  <2>3. muddled' \subseteq Ids
    BY <1>8, <1>muddled DEF WriteAvatar, OthersAt
  <2> QED
    BY <1>8, <2>1, <2>2, <2>3, <1>users, <1>begun, <1>next, <1>actor, <1>wish, <1>target,
       <1>pending, <1>avatar, <1>raced DEF Shapes, WriteAvatar
<1>9. CASE RecordAvatar(r)
  <2>1. pc' \in [Reqs -> {"idle", "begin", "count", "insert", "rank", "write avatar",
                            "avatar", "name", "move", "commit"}]
    BY <1>9, <1>pc DEF RecordAvatar, Goto
  <2>2. pending' \in [Reqs -> Rows \cup {None}]
    BY <1>9, <1>pending, <1>b DEF RecordAvatar, Write, Located
  <2> QED
    BY <1>9, <2>1, <2>2, <1>users, <1>files, <1>begun, <1>next, <1>actor, <1>wish, <1>target,
       <1>avatar, <1>raced, <1>muddled DEF Shapes, RecordAvatar, Write
<1>10. CASE SetName(r)
  <2>1. pc' \in [Reqs -> {"idle", "begin", "count", "insert", "rank", "write avatar",
                            "avatar", "name", "move", "commit"}]
    BY <1>10, <1>pc DEF SetName, Goto
  <2>2. pending' \in [Reqs -> Rows \cup {None}]
    <3>1. CASE wish[r].name = None
      BY <1>10, <3>1, <1>pending DEF SetName
    <3>2. CASE wish[r].name # None
      <4>1. Row(r) \in Rows
        BY <1>10, <3>2, <1>b DEF SetName, Located, Row
      <4>2. [Row(r) EXCEPT !.name = wish[r].name] \in Rows
        BY <4>1, <3>2, <1>d, <1>10 DEF Rows, SetName
      <4> QED BY <1>10, <3>2, <4>2, <1>pending DEF SetName, Write
    <3> QED BY <3>1, <3>2
  <2> QED
    BY <1>10, <2>1, <2>2, <1>users, <1>files, <1>begun, <1>next, <1>actor, <1>wish, <1>target,
       <1>avatar, <1>raced, <1>muddled DEF Shapes, SetName, Write
<1>11. CASE MoveAvatar(r)
  <2>1. files' \in [Names -> Pics \cup {None}]
    BY <1>11, <1>files, <1>d, <1>e DEF MoveAvatar, Located
  <2>2. pc' \in [Reqs -> {"idle", "begin", "count", "insert", "rank", "write avatar",
                            "avatar", "name", "move", "commit"}]
    BY <1>11, <1>pc DEF MoveAvatar, Goto
  <2>3. muddled' \subseteq Ids
    BY <1>11, <1>muddled DEF MoveAvatar, OthersAt
  <2> QED
    BY <1>11, <2>1, <2>2, <2>3, <1>users, <1>begun, <1>next, <1>actor, <1>wish, <1>target,
       <1>pending, <1>avatar, <1>raced DEF Shapes, MoveAvatar
<1>12. CASE CommitChange(r)
  <2>1. users' \in [Ids -> Rows \cup {None}]
    BY <1>12, <1>users, <1>e, <1>pending DEF CommitChange, Located
  <2>2. pc' \in [Reqs -> {"idle", "begin", "count", "insert", "rank", "write avatar",
                            "avatar", "name", "move", "commit"}]
    BY <1>12, <1>pc DEF CommitChange, Commit, End, Goto
  <2>3. actor' \in [Reqs -> [id : Ids, rank : Ranks] \cup {None}]
    BY <1>12, <1>actor DEF CommitChange, Commit, End
  <2>4. wish' \in [Reqs -> Requests \cup {None}]
    BY <1>12, <1>wish DEF CommitChange, Commit, End
  <2>5. target' \in [Reqs -> [id : Ids \cup {None}, path : Names \cup {None}]]
    BY <1>12, <1>target DEF CommitChange, Commit, End, NoTarget
  <2>6. pending' \in [Reqs -> Rows \cup {None}]
    BY <1>12, <1>pending DEF CommitChange, Commit, End
  <2>7. avatar' \in [Ids -> Pics \cup {None}]
    BY <1>12, <1>avatar, <1>e, <1>d DEF CommitChange, Located
  <2>8. raced' \in [Reqs -> BOOLEAN]
    BY <1>12, <1>raced DEF CommitChange, Commit
  <2>9. muddled' \subseteq Ids
    BY <1>12, <1>muddled, <1>e DEF CommitChange, Commit, Located, Saved
  <2> QED
    BY <1>12, <2>1, <2>2, <2>3, <2>4, <2>5, <2>6, <2>7, <2>8, <2>9, <1>files, <1>begun, <1>next
       DEF Shapes, CommitChange, Commit, End
<1>13. CASE CommitDelete(r)
  <2>1. users' \in [Ids -> Rows \cup {None}]
    BY <1>13, <1>users, <1>e DEF CommitDelete, Located
  <2>2. pc' \in [Reqs -> {"idle", "begin", "count", "insert", "rank", "write avatar",
                            "avatar", "name", "move", "commit"}]
    BY <1>13, <1>pc DEF CommitDelete, Commit, End, Goto
  <2>3. actor' \in [Reqs -> [id : Ids, rank : Ranks] \cup {None}]
    BY <1>13, <1>actor DEF CommitDelete, Commit, End
  <2>4. wish' \in [Reqs -> Requests \cup {None}]
    BY <1>13, <1>wish DEF CommitDelete, Commit, End
  <2>5. target' \in [Reqs -> [id : Ids \cup {None}, path : Names \cup {None}]]
    BY <1>13, <1>target DEF CommitDelete, Commit, End, NoTarget
  <2>6. pending' \in [Reqs -> Rows \cup {None}]
    BY <1>13, <1>pending DEF CommitDelete, Commit, End
  <2>7. avatar' \in [Ids -> Pics \cup {None}]
    BY <1>13, <1>avatar, <1>e DEF CommitDelete, Located
  <2>8. raced' \in [Reqs -> BOOLEAN]
    BY <1>13, <1>raced DEF CommitDelete, Commit
  <2>9. muddled' \subseteq Ids
    BY <1>13, <1>muddled, <1>e DEF CommitDelete, Commit, Located, Saved
  <2> QED
    BY <1>13, <2>1, <2>2, <2>3, <2>4, <2>5, <2>6, <2>7, <2>8, <2>9, <1>files, <1>begun, <1>next
       DEF Shapes, CommitDelete, Commit, End
<1>14. CASE Abort(r)
  <2>1. pc' \in [Reqs -> {"idle", "begin", "count", "insert", "rank", "write avatar",
                            "avatar", "name", "move", "commit"}]
    BY <1>14, <1>pc DEF Abort, End, Goto
  <2>2. actor' \in [Reqs -> [id : Ids, rank : Ranks] \cup {None}]
    BY <1>14, <1>actor DEF Abort, End
  <2>3. wish' \in [Reqs -> Requests \cup {None}]
    BY <1>14, <1>wish DEF Abort, End
  <2>4. target' \in [Reqs -> [id : Ids \cup {None}, path : Names \cup {None}]]
    BY <1>14, <1>target DEF Abort, End, NoTarget
  <2>5. pending' \in [Reqs -> Rows \cup {None}]
    BY <1>14, <1>pending DEF Abort, End
  <2>6. raced' \in [Reqs -> BOOLEAN]
    BY <1>14, <1>raced DEF Abort
  <2>7. muddled' \subseteq Ids
    BY <1>14, <1>muddled, <1>e DEF Abort, Located, Saved, Saving
  <2> QED
    BY <1>14, <2>1, <2>2, <2>3, <2>4, <2>5, <2>6, <2>7, <1>users, <1>files, <1>begun, <1>next,
       <1>avatar DEF Shapes, Abort, End
<1> QED
  BY <1>1, <1>2, <1>3, <1>4, <1>5, <1>6, <1>7, <1>8, <1>9, <1>10, <1>11, <1>12, <1>13, <1>14
     DEF Act

-----------------------------------------------------------------------------
(* IDs are drawn in order; a user changes as the one request that may change *)
(* it commits.                                                              *)

LEMMA NextGrows ==
    ASSUME Shapes, NEW r \in Reqs, Act(r)
    PROVE  next' \in Nat /\ next \in Nat /\ next' >= next
<1>1. next \in Nat
  <2>1. next \in 1..MaxId + 1
    BY DEF Shapes
  <2> QED BY <2>1, BoundAssumption
<1>2. next' = next \/ next' = next + 1
  BY DEF Act, Authenticate, Create, Update, Delete, Count, InsertUser, SetRank, WriteAvatar,
     RecordAvatar, SetName, MoveAvatar, CommitChange, CommitDelete, Abort
<1> QED BY <1>1, <1>2

LEMMA OneUserChanges ==
    ASSUME Shapes, NEW r \in Reqs, Act(r), NEW i \in Ids, users'[i] # users[i] \/ avatar'[i] # avatar[i]
    PROVE  i = target[r].id /\ pc[r] = "commit" /\ (CommitChange(r) \/ CommitDelete(r))
<1>1. CommitChange(r) \/ CommitDelete(r)
  BY DEF Act, Authenticate, Create, Update, Delete, Count, InsertUser, SetRank,
         WriteAvatar, RecordAvatar, SetName, MoveAvatar, Abort
<1>2. CASE CommitChange(r)
  BY <1>2 DEF CommitChange, Shapes
<1>3. CASE CommitDelete(r)
  BY <1>3 DEF CommitDelete, Shapes
<1> QED BY <1>1, <1>2, <1>3

\* A row that a request has written is nobody else's to change.
LEMMA LockedKept ==
    ASSUME Shapes, LocksOK, \A q \in Reqs : PendingOf(q), NEW r \in Reqs, Act(r),
           PhaseOf(r), NEW q \in Reqs \ {r}, PhaseOf(q), pending[q] # None
    PROVE  users'[target[q].id] = users[target[q].id]
<1>1. target[q].id \in Ids
  BY NoneAssumption DEF PhaseOf
<1>2. CASE CommitChange(r)
  <2>1. CASE pending[r] = None
    BY <1>2, <2>1 DEF CommitChange
  <2>2. CASE pending[r] # None
    <3>1. target[q].id # target[r].id
      BY <2>2 DEF LocksOK
    <3> QED BY <1>1, <1>2, <3>1, OneUserChanges
  <2> QED BY <2>1, <2>2
<1>3. CASE CommitDelete(r)
  <2>1. target[q].id # target[r].id
    BY <1>3 DEF CommitDelete, Free
  <2> QED BY <1>1, <2>1, OneUserChanges
<1> QED BY <1>1, <1>2, <1>3, OneUserChanges

-----------------------------------------------------------------------------
(* What a request has, statement by statement.                              *)

LEMMA PhaseKept ==
    ASSUME Shapes, DrawnOK, NEW r \in Reqs, PhaseOf(r), PendingOf(r), Act(r), Shapes'
    PROVE  PhaseOf(r)'
<1>n. next \in Nat /\ next' \in Nat /\ next' >= next
  BY NextGrows
<1>c. /\ pc \in [Reqs -> {"idle", "begin", "count", "insert", "rank", "write avatar",
                        "avatar", "name", "move", "commit"}]
      /\ wish \in [Reqs -> Requests \cup {None}] /\ target \in [Reqs -> [id : Ids \cup {None}, path : Names \cup {None}]]
      /\ pending \in [Reqs -> Rows \cup {None}] /\ actor \in [Reqs -> [id : Ids, rank : Ranks] \cup {None}]
  BY DEF Shapes
<1>p. next > 0
  <2>1. next \in 1..MaxId + 1
    BY DEF Shapes
  <2> QED BY <2>1, BoundAssumption
<1>d. Ids \subseteq Nat
  BY DEF Ids
<1>w. wish[r] # None => wish[r].kind \in {"create", "update", "delete"}
  BY <1>c, Asks
<1>1. ASSUME NEW i \in Ids \cup {None}, NEW asked \in Asked, Authenticate(r, i, asked) PROVE PhaseOf(r)'
  BY <1>1, <1>c, RankAssumption, <1>w DEF Authenticate, Goto, PhaseOf, Located, PendingOf
<1>2. CASE Create(r)
  BY <1>2, <1>c, <1>w DEF Create, Goto, PhaseOf, Located, PendingOf
<1>3. CASE Update(r)
  <2>1. PICK i \in Ids :
          /\ users[i] # None
          /\ target' = [target EXCEPT ![r] = [id |-> i, path |-> users[i].name]]
    BY <1>3 DEF Update
  <2>2. target'[r].id = i /\ target'[r].path = users[i].name /\ pc'[r] = "rank" /\ wish'[r] = wish[r]
    BY <1>3, <1>c, <2>1 DEF Update, Goto
  <2>3. i < next' /\ users[i].name \in Names
    BY <1>3, <2>1 DEF Update, DrawnOK, Shapes, Rows
  <2> QED BY <2>1, <2>2, <2>3, <1>3, <1>c DEF Update, PhaseOf, Located
<1>4. CASE Delete(r)
  <2>1. PICK i \in Ids :
          /\ users[i] # None
          /\ target' = [target EXCEPT ![r] = [id |-> i, path |-> users[i].name]]
    BY <1>4 DEF Delete
  <2>2. target'[r].id = i /\ target'[r].path = users[i].name /\ pc'[r] = "commit" /\ wish'[r] = wish[r]
    BY <1>4, <1>c, <2>1 DEF Delete, Goto
  <2>3. i < next' /\ users[i].name \in Names
    BY <1>4, <2>1 DEF Delete, DrawnOK, Shapes, Rows
  <2> QED BY <2>1, <2>2, <2>3, <1>4, <1>c DEF Delete, PhaseOf, Located
<1>5. CASE Count(r)
  <2> DEFINE k == IF \A i \in Ids : users[i] = None THEN MaxRank
                ELSE IF wish[r].rank = None THEN DefaultRank ELSE wish[r].rank
  <2>0. wish[r].kind = "create" /\ wish[r] \in Requests /\ pc[r] = "count"
    BY <1>5 DEF Count, PhaseOf
  <2>1. wish' = [wish EXCEPT ![r].rank = k]
    BY <1>5 DEF Count
  <2>k. k \in Ranks
    <3>1. MaxRank \in Ranks /\ DefaultRank \in Ranks
      BY RankAssumption DEF Ranks
    <3>2. wish[r].rank \in Ranks \cup {None}
      BY <2>0, Asks
    <3> QED BY <3>1, <3>2
  <2> HIDE DEF k
  <2>2. /\ wish[r] \in Requests /\ wish'[r] = [wish[r] EXCEPT !.rank = k] /\ pc'[r] = "insert"
        /\ target'[r] = target[r] /\ pending'[r] = pending[r]
    BY <1>5, <2>0, <2>1, <1>c DEF Count, Goto
  <2>3. wish'[r] \in Requests /\ wish'[r].rank = k /\ wish'[r].kind = "create"
    <3> DEFINE v == [wish[r] EXCEPT !.rank = k]
    <3>1. v \in Requests /\ v.rank = k /\ v.kind = wish[r].kind
      BY <2>0, <2>k, AskingRank
    <3> QED BY <3>1, <2>0, <2>2
  <2> QED BY <2>0, <2>2, <2>3, <2>k DEF PhaseOf, Located
<1>6. CASE InsertUser(r)
  <2>1. /\ target'[r].id = next /\ target'[r].path = wish[r].name /\ wish'[r] = wish[r]
        /\ pc'[r] = IF wish[r].pic = None THEN "commit" ELSE "write avatar"
        /\ next' = next + 1 /\ next <= MaxId
    BY <1>6, <1>c DEF InsertUser, Goto
  <2>2. next \in Ids /\ wish[r].name \in Names /\ wish[r].kind = "create" /\ wish[r] \in Requests
    <3>1. next \in Ids
      <4>1. next <= MaxId
        BY <2>1
      <4> QED BY <1>n, <1>p, <4>1, BoundAssumption DEF Ids
    <3>2. wish[r].kind = "create" /\ wish[r] \in Requests
      BY <1>6 DEF InsertUser, PhaseOf
    <3> QED BY <3>1, <3>2, Asks
  <2>3. /\ pc'[r] \in {"commit", "write avatar"} /\ (pc'[r] = "write avatar" => wish'[r].pic # None)
        /\ target'[r].id \in Ids /\ target'[r].path \in Names /\ target'[r].id < next'
        /\ wish'[r] \in Requests /\ wish'[r].kind = "create"
    <3>1. next < next + 1
      BY <1>n
    <3> QED BY <2>1, <2>2, <3>1
  <2> QED BY <2>3 DEF PhaseOf, Located
<1>7. CASE SetRank(r)
  <2>1. /\ pc'[r] = IF wish[r].pic = None THEN "name" ELSE "write avatar"
        /\ wish'[r] = wish[r] /\ target'[r] = target[r] /\ next' = next /\ pc[r] = "rank"
    BY <1>7, <1>c DEF SetRank, Goto
  <2> QED BY <2>1, <1>w, NoneAssumption DEF PhaseOf, Located
<1>8. CASE WriteAvatar(r)
  BY <1>8, <1>c, <1>n, <1>w DEF WriteAvatar, Goto, PhaseOf, Located, PendingOf
<1>9. CASE RecordAvatar(r)
  <2>1. /\ pc'[r] = IF wish[r].kind = "create" THEN "commit" ELSE "name"
        /\ wish'[r] = wish[r] /\ target'[r] = target[r] /\ next' = next /\ pc[r] = "avatar"
    BY <1>9, <1>c DEF RecordAvatar, Goto
  <2> QED BY <2>1, <1>w, NoneAssumption DEF PhaseOf, Located
<1>10. CASE SetName(r)
  BY <1>10, <1>c, <1>n, <1>w DEF SetName, Write, Goto, PhaseOf, Located, PendingOf
<1>11. CASE MoveAvatar(r)
  BY <1>11, <1>c, <1>n, <1>w DEF MoveAvatar, Goto, PhaseOf, Located, PendingOf
<1>12. CASE CommitChange(r)
  BY <1>12, <1>c, <1>w DEF CommitChange, Commit, End, Goto, PhaseOf, Located, PendingOf, NoTarget
<1>13. CASE CommitDelete(r)
  BY <1>13, <1>c, <1>w DEF CommitDelete, Commit, End, Goto, PhaseOf, Located, PendingOf, NoTarget
<1>14. CASE Abort(r)
  BY <1>14, <1>c, <1>w DEF Abort, End, Goto, PhaseOf, Located, PendingOf, NoTarget
<1> QED
  BY <1>1, <1>2, <1>3, <1>4, <1>5, <1>6, <1>7, <1>8, <1>9, <1>10, <1>11, <1>12, <1>13, <1>14
     DEF Act

LEMMA PhaseOthers ==
    ASSUME Shapes, NEW r \in Reqs, Act(r), NEW q \in Reqs \ {r}, PhaseOf(q)
    PROVE  PhaseOf(q)'
<1>1. Kept(q)
  BY OthersKept
<1>2. next \in Nat /\ next' \in Nat /\ next' >= next
  BY NextGrows
<1>3. target[q].id \in Ids => target[q].id \in Nat
  BY DEF Ids
<1>4. target[q].id \in Ids /\ target[q].id < next => target[q].id < next'
  BY <1>2, <1>3
<1> QED BY <1>1, <1>4 DEF Kept, PhaseOf

-----------------------------------------------------------------------------
(* The rows that requests have written.                                     *)

LEMMA PendingOthers ==
    ASSUME Shapes, LocksOK, \A q \in Reqs : PendingOf(q) /\ PhaseOf(q), NEW r \in Reqs, Act(r),
           NEW q \in Reqs \ {r}
    PROVE  PendingOf(q)'
<1>1. Kept(q)
  BY OthersKept
<1>2. pending[q] # None => users'[target[q].id] = users[target[q].id]
  BY LockedKept
<1>3. PendingOf(q)
  OBVIOUS
<1> QED BY <1>1, <1>2, <1>3 DEF Kept, PendingOf

\* What the request asks for and where it is, after a step of each kind.
LEMMA PendingKept ==
    ASSUME Shapes, LocksOK, DrawnOK, NEW r \in Reqs, PhaseOf(r), PendingOf(r), Act(r)
    PROVE  PendingOf(r)'
<1>c. /\ pc \in [Reqs -> {"idle", "begin", "count", "insert", "rank", "write avatar",
                        "avatar", "name", "move", "commit"}]
      /\ wish \in [Reqs -> Requests \cup {None}] /\ target \in [Reqs -> [id : Ids \cup {None}, path : Names \cup {None}]]
      /\ pending \in [Reqs -> Rows \cup {None}] /\ actor \in [Reqs -> [id : Ids, rank : Ranks] \cup {None}]
  BY DEF Shapes
<1>w. /\ pc[r] # "idle" => wish[r].kind \in {"create", "update", "delete"}
      /\ pc[r] # "idle" /\ wish[r].kind = "delete" => wish[r].pic = None
  BY Asks DEF PhaseOf
<1>b. pc[r] \in Located => Row(r) \in Rows \cup {None}
  BY RowTyped
<1>d. pc[r] # "idle" =>
          /\ wish[r].name \in Names \cup {None} /\ wish[r].rank \in Ranks \cup {None}
          /\ wish[r].pic \in Pics \cup {None}
  BY Asks DEF PhaseOf
<1>1. ASSUME NEW i \in Ids \cup {None}, NEW asked \in Asked, Authenticate(r, i, asked) PROVE PendingOf(r)'
  <2>1. pc'[r] = "begin" /\ pending'[r] = None
    BY <1>1, <1>c DEF Authenticate, Goto, PhaseOf, Located
  <2> QED BY <2>1 DEF PendingOf, Located
<1>2. CASE Create(r)
  <2>1. pc'[r] = "count" /\ pending'[r] = None
    BY <1>2, <1>c DEF Create, Goto, PhaseOf, Located
  <2> QED BY <2>1 DEF PendingOf, Located
<1>3. CASE Update(r)
  <2>1. pc'[r] = "rank" /\ wish'[r] = wish[r] /\ pending'[r] = None
    BY <1>3, <1>c DEF Update, Goto, PhaseOf, Located
  <2>2. wish[r].kind = "update"
    BY <1>3 DEF Update
  <2> QED BY <2>1, <2>2 DEF PendingOf
<1>4. CASE Delete(r)
  <2>1. pc'[r] = "commit" /\ wish'[r] = wish[r] /\ pending'[r] = None
    BY <1>4, <1>c DEF Delete, Goto, PhaseOf, Located
  <2>2. wish[r].kind = "delete"
    BY <1>4 DEF Delete
  <2> QED BY <2>1, <2>2 DEF PendingOf
<1>5. CASE Count(r)
  <2>1. pc'[r] = "insert" /\ pending'[r] = None
    BY <1>5, <1>c DEF Count, Goto, PhaseOf, Located
  <2> QED BY <2>1 DEF PendingOf, Located
<1>6. CASE InsertUser(r)
  <2>1. /\ target'[r].path = wish[r].name /\ wish'[r] = wish[r]
        /\ pc'[r] \in {"commit", "write avatar"}
        /\ pending'[r] = [name |-> wish[r].name, rank |-> wish[r].rank]
    BY <1>6, <1>c DEF InsertUser, Goto
  <2>2. wish[r].kind = "create" /\ wish[r].rank \in Ranks /\ wish[r].name \in Names
    BY <1>6, Asks DEF InsertUser, PhaseOf
  <2>3. pending'[r] \in Rows /\ pending'[r] # None
    <3>1. [name |-> wish[r].name, rank |-> wish[r].rank] \in Rows
      BY <2>2 DEF Rows
    <3>2. None \notin Rows
      BY NoneAssumption
    <3> QED BY <2>1, <3>1, <3>2
  <2>4. pending'[r].name = wish[r].name /\ pending'[r].rank = wish[r].rank
    <3>1. pending'[r] = [name |-> wish[r].name, rank |-> wish[r].rank]
      BY <2>1
    <3> QED BY <3>1
  <2>5. /\ wish'[r].kind = "create" /\ wish'[r].rank \in Ranks /\ pending'[r].name = wish'[r].name
        /\ pending'[r].rank = wish'[r].rank /\ target'[r].path = wish'[r].name
        /\ pc'[r] \in Located /\ pc'[r] # "move"
    BY <2>1, <2>2, <2>4 DEF Located
  <2> QED BY <2>3, <2>5 DEF PendingOf
<1>7. CASE SetRank(r)
  <2>1. /\ pc[r] = "rank" /\ wish'[r] = wish[r] /\ target'[r] = target[r] /\ users' = users
        /\ pc'[r] \in {"name", "write avatar"} /\ wish[r].kind = "update"
    BY <1>7, <1>c DEF SetRank, Goto, PhaseOf
  <2>2. CASE pending'[r] = pending[r]
    BY <2>1, <2>2 DEF PendingOf, Located
  <2>3. CASE /\ users[target[r].id] # None /\ wish[r].rank # None
             /\ pending'[r] = [Row(r) EXCEPT !.rank = wish[r].rank]
    <3>1. Row(r) \in Rows /\ (pending[r] = None => Row(r) = users[target[r].id])
      BY <2>1, <2>3, <1>b DEF Row, Located
    <3>2. pending'[r] \in Rows /\ pending'[r].name = Row(r).name
      BY <2>3, <3>1, <1>d, <2>1 DEF Rows
    <3>3. Row(r).name = users[target[r].id].name
      BY <2>1, <3>1 DEF PendingOf, Row
    <3> QED BY <2>1, <2>3, <3>2, <3>3 DEF PendingOf
  <2> QED BY <1>7, <1>c, <2>2, <2>3 DEF SetRank, Write
<1>8. CASE WriteAvatar(r)
  <2>1. /\ pc'[r] = "avatar" /\ wish'[r] = wish[r] /\ target'[r] = target[r]
        /\ pending'[r] = pending[r] /\ users' = users /\ pc[r] = "write avatar"
    BY <1>8, <1>c DEF WriteAvatar, Goto
  <2> QED BY <2>1 DEF PendingOf, Located
<1>9. CASE RecordAvatar(r)
  <2>1. /\ pc[r] = "avatar" /\ wish'[r] = wish[r] /\ target'[r] = target[r] /\ users' = users
        /\ wish[r].kind = "create" => pc'[r] = "commit"
        /\ wish[r].kind # "create" => pc'[r] = "name"
        /\ pending'[r] = Row(r)
    BY <1>9, <1>c DEF RecordAvatar, Goto, Write, Row
  <2>2. wish[r].kind \in {"create", "update"}
    BY <1>w, <2>1 DEF PhaseOf
  <2> QED BY <2>1, <2>2, <1>b DEF PendingOf, Located, Row
<1>10. CASE SetName(r)
  <2>1. /\ pc[r] = "name" /\ wish'[r] = wish[r] /\ target'[r] = target[r] /\ users' = users
        /\ wish[r].kind = "update"
    BY <1>10, <1>c DEF SetName, Goto, PhaseOf
  <2>2. CASE wish[r].name = None
    <3>1. pending'[r] = pending[r] /\ pc'[r] = "commit"
      BY <1>10, <1>c, <2>2 DEF SetName, Goto
    <3> QED BY <2>1, <2>2, <3>1 DEF PendingOf, Located
  <2>3. CASE wish[r].name # None
    <3>1. /\ Row(r) # None /\ pc'[r] = "move"
          /\ pending'[r] = [Row(r) EXCEPT !.name = wish[r].name]
      BY <1>10, <1>c, <2>3 DEF SetName, Goto, Write
    <3>2. Row(r) \in Rows
      BY <2>1, <3>1, <1>b DEF Located
    <3>3. pending'[r] \in Rows /\ pending'[r].name = wish[r].name
      BY <2>1, <2>3, <3>1, <3>2, <1>d DEF Rows
    <3>4. users[target[r].id] # None
      BY <2>1, <3>1 DEF Row, PendingOf
    <3> QED BY <2>1, <2>3, <3>1, <3>3, <3>4, NoneAssumption DEF PendingOf
  <2> QED BY <2>2, <2>3
<1>11. CASE MoveAvatar(r)
  <2>1. /\ pc'[r] = "commit" /\ wish'[r] = wish[r] /\ target'[r] = target[r]
        /\ pending'[r] = pending[r] /\ users' = users /\ pc[r] = "move"
    BY <1>11, <1>c DEF MoveAvatar, Goto
  <2> QED BY <2>1 DEF PendingOf, Located
<1>12. CASE CommitChange(r)
  <2>1. pc'[r] = "idle" /\ pending'[r] = None
    BY <1>12, <1>c DEF CommitChange, Commit, End, Goto
  <2> QED BY <2>1 DEF PendingOf, Located
<1>13. CASE CommitDelete(r)
  <2>1. pc'[r] = "idle" /\ pending'[r] = None
    BY <1>13, <1>c DEF CommitDelete, Commit, End, Goto
  <2> QED BY <2>1 DEF PendingOf, Located
<1>14. CASE Abort(r)
  <2>1. pc'[r] = "idle" /\ pending'[r] = None
    BY <1>14, <1>c DEF Abort, End, Goto
  <2> QED BY <2>1 DEF PendingOf, Located
<1> QED
  BY <1>1, <1>2, <1>3, <1>4, <1>5, <1>6, <1>7, <1>8, <1>9, <1>10, <1>11, <1>12, <1>13, <1>14
     DEF Act

-----------------------------------------------------------------------------
(* IDs: a request finds the ID of a user there is, or draws the next one.   *)

LEMMA TargetFound ==
    ASSUME Shapes, NEW r \in Reqs, Act(r), target'[r] # target[r]
    PROVE  \/ target'[r].id = None
           \/ /\ target'[r].id \in Ids /\ users[target'[r].id] # None /\ pc'[r] \in {"rank", "commit"}
              /\ wish'[r] = wish[r] /\ wish[r].kind # "create"
           \/ InsertUser(r) /\ target'[r].id = next
<1>c. /\ target \in [Reqs -> [id : Ids \cup {None}, path : Names \cup {None}]]
      /\ pc \in [Reqs -> {"idle", "begin", "count", "insert", "rank", "write avatar",
                        "avatar", "name", "move", "commit"}]
  BY DEF Shapes
<1>1. CASE Update(r)
  <2>1. PICK i \in Ids :
          /\ users[i] # None
          /\ target' = [target EXCEPT ![r] = [id |-> i, path |-> users[i].name]]
    BY <1>1 DEF Update
  <2>2. target'[r].id = i /\ pc'[r] = "rank"
    BY <1>1, <1>c, <2>1 DEF Update, Goto
  <2> QED BY <1>1, <2>1, <2>2 DEF Update
<1>2. CASE Delete(r)
  <2>1. PICK i \in Ids :
          /\ users[i] # None
          /\ target' = [target EXCEPT ![r] = [id |-> i, path |-> users[i].name]]
    BY <1>2 DEF Delete
  <2>2. target'[r].id = i /\ pc'[r] = "commit"
    BY <1>2, <1>c, <2>1 DEF Delete, Goto
  <2> QED BY <1>2, <2>1, <2>2 DEF Delete
<1>3. CASE InsertUser(r)
  BY <1>3, <1>c DEF InsertUser
<1>4. CASE CommitChange(r) \/ CommitDelete(r) \/ Abort(r)
  <2>1. target' = [target EXCEPT ![r] = NoTarget]
    BY <1>4 DEF CommitChange, CommitDelete, Abort, Commit, End
  <2>2. target'[r] = NoTarget
    BY <1>c, <2>1
  <2> QED BY <2>2 DEF NoTarget
<1> QED BY <1>1, <1>2, <1>3, <1>4 DEF Act, Authenticate, Create, Count, SetRank,
         WriteAvatar, RecordAvatar, SetName, MoveAvatar

\* A user that is being created stays so, and stays its request's alone.
Creating(q) == pc[q] \in Located /\ wish[q].kind = "create"

LEMMA CreatingStarts ==
    ASSUME Shapes, NEW r \in Reqs, PhaseOf(r), PendingOf(r), DrawnOK, Act(r), PhaseOf(r)', Creating(r)'
    PROVE  (Creating(r) /\ target'[r] = target[r]) \/ (InsertUser(r) /\ target'[r].id = next)
<1>c. /\ target \in [Reqs -> [id : Ids \cup {None}, path : Names \cup {None}]]
      /\ wish \in [Reqs -> Requests \cup {None}]
      /\ pc \in [Reqs -> {"idle", "begin", "count", "insert", "rank", "write avatar",
                        "avatar", "name", "move", "commit"}]
  BY DEF Shapes
<1>1. CASE \E i \in Ids \cup {None}, asked \in Asked : Authenticate(r, i, asked)
  BY <1>1, <1>c DEF Authenticate, Goto, Creating, Located
<1>2. CASE Create(r) \/ Count(r) \/ Abort(r) \/ CommitChange(r) \/ CommitDelete(r)
  BY <1>2, <1>c DEF Create, Count, Abort, CommitChange, CommitDelete, Commit, End, Goto,
     Creating, Located
<1>3. CASE Update(r) \/ Delete(r) \/ SetRank(r)
  BY <1>3, <1>c DEF Update, Delete, SetRank, Creating, PhaseOf
<1>4. CASE InsertUser(r)
  BY <1>4, <1>c DEF InsertUser
<1>5. CASE WriteAvatar(r) \/ RecordAvatar(r) \/ SetName(r) \/ MoveAvatar(r)
  BY <1>5, <1>c DEF WriteAvatar, RecordAvatar, SetName, MoveAvatar, Creating, Located
<1> QED BY <1>1, <1>2, <1>3, <1>4, <1>5 DEF Act

LEMMA DrawnKept ==
    ASSUME Shapes, Shapes', DrawnOK, \A q \in Reqs : PhaseOf(q) /\ PendingOf(q), NEW r \in Reqs, Act(r),
           PhaseOf(r)'
    PROVE  DrawnOK'
<1>n. next \in Nat /\ next' \in Nat /\ next' >= next /\ Ids \subseteq Nat /\ None \notin Ids
  BY NextGrows, NoneAssumption DEF Ids
<1>t. \A q \in Reqs : target[q].id \in Ids => target[q].id < next
  <2> SUFFICES ASSUME NEW q \in Reqs, target[q].id \in Ids PROVE target[q].id < next
    OBVIOUS
  <2>1. target[q] # NoTarget
    BY <1>n DEF NoTarget
  <2> QED BY <2>1 DEF PhaseOf
<1>1. ASSUME NEW i \in Ids PROVE (users'[i] # None => i < next') /\ (i >= next' => avatar'[i] = None)
  <2>1. CASE users'[i] = users[i] /\ avatar'[i] = avatar[i]
    BY <1>1, <1>n, <2>1 DEF DrawnOK
  <2>2. CASE i = target[r].id
    <3>1. i < next
      BY <1>t, <2>2
    <3>2. i < next' /\ ~(i >= next')
      BY <1>n, <3>1
    <3> QED BY <3>2
  <2> QED BY <2>1, <2>2, OneUserChanges
<1>2. ASSUME NEW q \in Reqs, Creating(q)'
      PROVE  /\ users'[target'[q].id] = None /\ avatar'[target'[q].id] = None
             /\ \A s \in Reqs \ {q} : target'[s].id # target'[q].id
  <2>1. CASE Creating(q) /\ target'[q] = target[q] /\ pc'[q] # "idle"
    <3>1. /\ target[q].id \in Ids /\ users[target[q].id] = None /\ avatar[target[q].id] = None
          /\ \A s \in Reqs \ {q} : target[s].id # target[q].id
      BY <2>1 DEF DrawnOK, Creating, PhaseOf
    <3>2. ~(CommitChange(r) \/ CommitDelete(r)) \/ target[r].id # target[q].id
      <4>1. CASE r = q
        BY <2>1, <4>1 DEF CommitChange, CommitDelete, Commit, End, Goto, Shapes
      <4> QED BY <3>1, <4>1
    <3>3. users'[target[q].id] = None /\ avatar'[target[q].id] = None
      BY <3>1, <3>2, OneUserChanges
    <3>4. ASSUME NEW s \in Reqs \ {q} PROVE target'[s].id # target[q].id
      <4>1. CASE target'[s] = target[s]
        BY <3>1, <4>1
      <4>2. CASE s = r /\ target'[s] # target[s]
        <5>1. target[q].id # next
          BY <1>n, <1>t, <3>1
        <5> QED BY <1>n, <3>1, <4>2, <5>1, TargetFound
      <4> QED BY <4>1, <4>2, OthersKept DEF Kept
    <3> QED BY <2>1, <3>3, <3>4
  <2>2. CASE q = r /\ InsertUser(r) /\ target'[r].id = next
    <3>1. next \in Ids
      <4>1. next \in 1..MaxId + 1
        BY DEF Shapes
      <4>2. next <= MaxId
        BY <2>2 DEF InsertUser
      <4> QED BY <4>1, <4>2, BoundAssumption DEF Ids
    <3>2. users[next] = None /\ avatar[next] = None
      <4>1. next >= next /\ ~(next < next)
        BY <1>n
      <4> QED BY <3>1, <4>1 DEF DrawnOK
    <3>3. users' = users /\ avatar' = avatar
      BY <2>2 DEF InsertUser
    <3>4. ASSUME NEW s \in Reqs \ {r} PROVE target'[s].id # next
      <4>1. target'[s] = target[s]
        BY OthersKept DEF Kept
      <4>2. target[s].id # next
        BY <1>n, <1>t, <3>1
      <4> QED BY <4>1, <4>2
    <3> QED BY <2>2, <3>2, <3>3, <3>4
  <2>3. CASE q # r
    <3>1. Kept(q)
      BY <2>3, OthersKept
    <3>2. Creating(q) /\ target'[q] = target[q] /\ pc'[q] # "idle"
      BY <1>2, <3>1 DEF Creating, Kept, Located
    <3> QED BY <2>1, <3>2
  <2>4. CASE q = r
    <3>1. pc'[r] # "idle"
      BY <1>2, <2>4 DEF Creating, Located
    <3> QED BY <1>2, <2>1, <2>2, <2>4, <3>1, CreatingStarts
  <2> QED BY <2>3, <2>4
<1> QED BY <1>1, <1>2 DEF DrawnOK, Creating

-----------------------------------------------------------------------------
(* Locks and names.                                                         *)

\* The row r would write, id and name, collides with nothing that others have.
Fits(r, id, name) ==
    /\ \A s \in Reqs \ {r} : pending[s] # None => target[s].id # id /\ pending[s].name # name
    /\ \A i \in Ids : users[i] # None /\ i # id => users[i].name # name

\* An update of the row as it is fits.
LEMMA RowFits ==
    ASSUME Shapes, Unique, LocksOK, NEW r \in Reqs, PhaseOf(r), pc[r] \in Located, Row(r) # None,
           Free(r, target[r].id)
    PROVE  Fits(r, target[r].id, Row(r).name)
<1>1. target[r].id \in Ids
  BY DEF PhaseOf
<1>2. CASE pending[r] # None
  BY <1>2 DEF Fits, Row, LocksOK
<1>3. CASE pending[r] = None
  <2>1. Row(r) = users[target[r].id] /\ users[target[r].id] # None
    BY <1>3 DEF Row
  <2>2. ASSUME NEW s \in Reqs \ {r}, pending[s] # None
        PROVE  target[s].id # target[r].id /\ pending[s].name # Row(r).name
    BY <1>1, <2>1, <2>2 DEF Free, LocksOK
  <2>3. ASSUME NEW i \in Ids, users[i] # None, i # target[r].id PROVE users[i].name # Row(r).name
    BY <1>1, <2>1, <2>3 DEF Unique
  <2> QED BY <2>2, <2>3 DEF Fits
<1> QED BY <1>2, <1>3

\* What a request writes fits.
LEMMA WrittenFits ==
    ASSUME Shapes, Unique, LocksOK, NEW r \in Reqs, PhaseOf(r), Act(r), pending'[r] # None,
           None \notin Ids, DrawnOK, \A q \in Reqs : PhaseOf(q)
    PROVE  users' = users /\ Fits(r, target'[r].id, pending'[r].name)
<1>c. /\ target \in [Reqs -> [id : Ids \cup {None}, path : Names \cup {None}]]
      /\ pending \in [Reqs -> Rows \cup {None}]
  BY DEF Shapes
<1>d. pc[r] # "idle" => wish[r].name \in Names \cup {None} /\ wish[r].rank \in Ranks \cup {None}
  BY Asks DEF PhaseOf
<1>1. CASE pending'[r] = pending[r] /\ target'[r] = target[r] /\ users' = users
  BY <1>1 DEF LocksOK, Fits
<1>2. CASE InsertUser(r)
  <2>1. /\ pending'[r] = [name |-> wish[r].name, rank |-> wish[r].rank] /\ target'[r].id = next
        /\ users' = users /\ NameFree(r, next, wish[r].name)
    BY <1>2, <1>c DEF InsertUser
  <2>2. pending'[r].name = wish[r].name
    <3>1. pending'[r] = [name |-> wish[r].name, rank |-> wish[r].rank]
      BY <2>1
    <3> QED BY <3>1
  <2>3. ASSUME NEW s \in Reqs \ {r}, pending[s] # None PROVE target[s].id # next
    <3>1. target[s].id \in Ids /\ target[s].id < next
      BY <2>3 DEF PhaseOf
    <3>2. next \in Nat /\ target[s].id \in Nat
      BY <3>1, NextGrows DEF Ids
    <3> QED BY <3>1, <3>2
  <2> QED BY <2>1, <2>2, <2>3 DEF Fits, NameFree
<1>3. CASE SetRank(r)
  <2>1. target' = target /\ users' = users /\ pc[r] \in Located /\ pc[r] # "idle"
    BY <1>3 DEF SetRank, Located
  <2>2. CASE pending'[r] = pending[r]
    BY <1>1, <2>1, <2>2
  <2>3. CASE /\ Free(r, target[r].id) /\ users[target[r].id] # None /\ wish[r].rank # None
             /\ pending'[r] = [Row(r) EXCEPT !.rank = wish[r].rank]
    <3>1. Row(r) \in Rows
      BY <2>1, <2>3, RowTyped DEF Row
    <3>2. pending'[r].name = Row(r).name /\ Row(r) # None
      BY <2>1, <2>3, <3>1, <1>d DEF Rows, Row
    <3> QED BY <2>1, <2>3, <3>2, RowFits
  <2> QED BY <1>3, <1>c, <2>2, <2>3 DEF SetRank, Write
<1>4. CASE RecordAvatar(r)
  <2>1. target' = target /\ users' = users /\ pc[r] \in Located
    BY <1>4 DEF RecordAvatar, Located
  <2>2. CASE pending'[r] = pending[r]
    BY <1>1, <2>1, <2>2
  <2>3. CASE Free(r, target[r].id) /\ Row(r) # None /\ pending'[r] = Row(r)
    BY <2>1, <2>3, RowFits
  <2> QED BY <1>4, <1>c, <2>2, <2>3 DEF RecordAvatar, Write
<1>5. CASE SetName(r)
  <2>1. target' = target /\ users' = users /\ pc[r] \in Located /\ pc[r] # "idle"
    BY <1>5 DEF SetName, Located
  <2>2. CASE pending'[r] = pending[r]
    BY <1>1, <2>1, <2>2
  <2>3. CASE /\ Free(r, target[r].id) /\ Row(r) # None /\ wish[r].name # None
             /\ NameFree(r, target[r].id, wish[r].name)
             /\ pending'[r] = [Row(r) EXCEPT !.name = wish[r].name]
    <3>1. Row(r) \in Rows
      BY <2>1, <2>3, RowTyped
    <3>2. pending'[r].name = wish[r].name
      BY <2>1, <2>3, <3>1, <1>d DEF Rows
    <3> QED BY <2>1, <2>3, <3>2 DEF Fits, Free, NameFree
  <2> QED BY <1>5, <1>c, <2>2, <2>3 DEF SetName, Write
<1>6. CASE CommitChange(r) \/ CommitDelete(r) \/ Abort(r)
  BY <1>6, <1>c DEF CommitChange, CommitDelete, Abort, Commit, End
<1>7. CASE Update(r) \/ Delete(r)
  BY <1>7, <1>c DEF Update, Delete, PhaseOf, Located
<1> QED BY <1>1, <1>2, <1>3, <1>4, <1>5, <1>6, <1>7 DEF Act, Authenticate, Create, Count,
         WriteAvatar, MoveAvatar

LEMMA LocksKept ==
    ASSUME Shapes, Shapes', Unique, LocksOK, DrawnOK, \A q \in Reqs : PhaseOf(q) /\ PendingOf(q),
           NEW r \in Reqs, Act(r), None \notin Ids
    PROVE  LocksOK' /\ Unique'
<1>1. CASE pending'[r] # None
  <2>1. users' = users /\ Fits(r, target'[r].id, pending'[r].name)
    BY <1>1, WrittenFits
  <2>2. ASSUME NEW q \in Reqs, pending'[q] # None
        PROVE  /\ \A s \in Reqs \ {q} : pending'[s] # None =>
                     target'[s].id # target'[q].id /\ pending'[s].name # pending'[q].name
               /\ \A i \in Ids : users'[i] # None /\ i # target'[q].id =>
                     users'[i].name # pending'[q].name
    <3>1. CASE q = r
      BY <2>1, <3>1, OthersKept DEF Kept, Fits
    <3>2. CASE q # r
      <4>1. Kept(q) /\ pending[q] # None
        BY <2>2, <3>2, OthersKept DEF Kept
      <4>2. ASSUME NEW s \in Reqs \ {q}, pending'[s] # None
            PROVE target'[s].id # target'[q].id /\ pending'[s].name # pending'[q].name
        <5>1. CASE s = r
          BY <2>1, <3>2, <4>1, <5>1 DEF Kept, Fits
        <5>2. CASE s # r
          BY <4>1, <4>2, <5>2, OthersKept DEF Kept, LocksOK
        <5> QED BY <5>1, <5>2
      <4> QED BY <2>1, <4>1, <4>2 DEF Kept, LocksOK
    <3> QED BY <3>1, <3>2
  <2> QED BY <2>1, <2>2 DEF LocksOK, Unique
<1>2. CASE pending'[r] = None
  <2>1. ASSUME NEW q \in Reqs, pending'[q] # None
        PROVE q # r /\ Kept(q) /\ pending[q] # None /\ target'[q].id = target[q].id /\ pending'[q] = pending[q]
    BY <1>2, <2>1, OthersKept DEF Kept
  <2>2. ASSUME NEW q \in Reqs, pending'[q] # None, NEW s \in Reqs \ {q}, pending'[s] # None
        PROVE  target'[s].id # target'[q].id /\ pending'[s].name # pending'[q].name
    BY <2>1, <2>2 DEF LocksOK
  <2>3. ASSUME NEW i \in Ids, users'[i] # None, users'[i] # users[i]
        PROVE  pending[r] # None /\ i = target[r].id /\ users'[i] = pending[r]
    <3>1. i = target[r].id /\ (CommitChange(r) \/ CommitDelete(r))
      BY <2>3, OneUserChanges
    <3> QED BY <2>3, <3>1 DEF CommitChange, CommitDelete, Shapes
  <2>4. ASSUME NEW q \in Reqs, pending'[q] # None, NEW i \in Ids, users'[i] # None, i # target'[q].id
        PROVE  users'[i].name # pending'[q].name
    <3>1. CASE users'[i] = users[i]
      BY <2>1, <2>4, <3>1 DEF LocksOK
    <3>2. CASE users'[i] # users[i]
      BY <2>1, <2>3, <2>4, <3>2 DEF LocksOK
    <3> QED BY <3>1, <3>2
  <2>5. ASSUME NEW i \in Ids, NEW j \in Ids, users'[i] # None, users'[j] # None, i # j
        PROVE  users'[i].name # users'[j].name
    <3>1. CASE users'[i] = users[i] /\ users'[j] = users[j]
      BY <2>5, <3>1 DEF Unique
    <3>2. CASE users'[i] # users[i] /\ users'[j] = users[j]
      BY <2>3, <2>5, <3>2 DEF LocksOK
    <3>3. CASE users'[i] = users[i] /\ users'[j] # users[j]
      BY <2>3, <2>5, <3>3 DEF LocksOK
    <3>4. CASE users'[i] # users[i] /\ users'[j] # users[j]
      BY <2>3, <2>5, <3>4
    <3> QED BY <3>1, <3>2, <3>3, <3>4
  <2> QED BY <2>2, <2>4, <2>5 DEF LocksOK, Unique
<1> QED BY <1>1, <1>2

LEMMA RowsStep == RowsOK /\ [Next]_userVars => RowsOK'
<1> SUFFICES ASSUME RowsOK, [Next]_userVars PROVE RowsOK'
  OBVIOUS
<1>0. /\ Shapes /\ Unique /\ DrawnOK /\ LocksOK
      /\ \A q \in Reqs : PhaseOf(q) /\ PendingOf(q)
  BY ShapesUnique DEF RowsOK
<1>n. None \notin Ids
  BY NoneAssumption
<1>1. ASSUME NEW r \in Reqs, Act(r) PROVE RowsOK'
  <2>1. Shapes'
    BY <1>0, <1>1, ShapesKept
  <2>2. ASSUME NEW q \in Reqs PROVE PhaseOf(q)'
    BY <1>0, <1>1, <2>1, PhaseKept, PhaseOthers
  <2>3. ASSUME NEW q \in Reqs PROVE PendingOf(q)'
    BY <1>0, <1>1, <2>1, PendingKept, PendingOthers
  <2>4. DrawnOK'
    BY <1>0, <1>1, <2>1, <2>2, DrawnKept
  <2>5. LocksOK' /\ Unique'
    BY <1>0, <1>1, <1>n, <2>1, LocksKept
  <2>6. TypeOK'
    BY <2>1, <2>5 DEF TypeOK, Shapes, Unique
  <2> QED BY <2>2, <2>3, <2>4, <2>5, <2>6 DEF RowsOK
<1>2. CASE UNCHANGED userVars
  <2> USE <1>2 DEF userVars
  <2>1. TypeOK'
    BY DEF RowsOK, TypeOK
  <2>2. \A q \in Reqs : PhaseOf(q)' /\ PendingOf(q)'
    BY <1>0 DEF PhaseOf, PendingOf
  <2>3. DrawnOK' /\ LocksOK'
    BY <1>0 DEF DrawnOK, LocksOK
  <2> QED BY <2>1, <2>2, <2>3 DEF RowsOK
<1> QED BY <1>1, <1>2, NextActs

\* TypeOK always holds: among other things no two users, however their names are
\* changed and exchanged by concurrent requests, ever have the same name.
THEOREM TypeCorrect == Spec => []TypeOK
<1>1. RowsOK => TypeOK
  BY DEF RowsOK
<1> QED BY <1>1, Begins, RowsStep, PTL DEF Spec

-----------------------------------------------------------------------------
(* Ranks.                                                                   *)

\* What a request has seen and asked for is so still, while no other commits.
Fresh(r) ==
    /\ actor[r] # None => users[actor[r].id] # None /\ users[actor[r].id].rank = actor[r].rank
    /\ pc[r] \in Located /\ wish[r].kind # "create" =>
          users[target[r].id] # None /\ users[target[r].id].name = target[r].path
    /\ pc[r] \in Located /\ wish[r].kind = "update" /\ ~IsSelf(r, target[r].id) =>
          users[target[r].id].rank <= RankOf(r)
    /\ pc[r] # "begin" /\ wish[r].kind = "create" =>
          \/ wish[r].rank = None /\ pc[r] = "count"
          \/ wish[r].rank \in Ranks /\ (wish[r].rank <= DefaultRank \/ wish[r].rank <= RankOf(r))
          \/ pc[r] # "count" /\ \A i \in Ids : users[i] = None
    /\ wish[r].kind = "update" /\ pending[r] # None =>
          \/ pending[r].rank <= DefaultRank
          \/ pending[r].rank <= RankOf(r)
          \/ pending[r].rank = users[target[r].id].rank

FreshOK == \A r \in Reqs : pc[r] # "idle" /\ ~raced[r] => Fresh(r)

\* No other request commits while this one is fresh.
LEMMA NoneCommits ==
    ASSUME Shapes, NEW r \in Reqs, Act(r), NEW q \in Reqs, pc'[q] # "idle", ~raced'[q]
    PROVE  users' = users /\ avatar' = avatar /\ ~raced[q] /\ (q # r => pc[q] # "idle")
<1>c. /\ pc \in [Reqs -> {"idle", "begin", "count", "insert", "rank", "write avatar",
                        "avatar", "name", "move", "commit"}]
      /\ raced \in [Reqs -> BOOLEAN]
  BY DEF Shapes
<1>0. q # r => pc'[q] = pc[q]
  BY OthersKept DEF Kept
<1>1. CASE CommitChange(r) \/ CommitDelete(r)
  <2>1. pc'[r] = "idle" /\ raced' = [s \in Reqs |-> s # r /\ pc[s] # "idle"]
    BY <1>1, <1>c DEF CommitChange, CommitDelete, Commit, End, Goto
  <2> QED BY <1>0, <2>1
<1>2. CASE Abort(r)
  <2>1. pc'[r] = "idle" /\ users' = users /\ avatar' = avatar /\ raced' = [raced EXCEPT ![r] = FALSE]
    BY <1>2, <1>c DEF Abort, End, Goto
  <2> QED BY <1>0, <1>c, <2>1
<1>3. CASE ~(CommitChange(r) \/ CommitDelete(r) \/ Abort(r))
  <2>1. users' = users /\ avatar' = avatar /\ raced' = raced
    BY <1>3 DEF Act, Authenticate, Create, Update, Delete, Count, InsertUser, SetRank,
         WriteAvatar, RecordAvatar, SetName, MoveAvatar
  <2> QED BY <1>0, <2>1
<1> QED BY <1>1, <1>2, <1>3

LEMMA FreshKept ==
    ASSUME Shapes, Shapes', DrawnOK, NEW r \in Reqs, PhaseOf(r), PendingOf(r), Act(r), pc'[r] # "idle", ~raced'[r],
           pc[r] # "idle" => Fresh(r), PhaseOf(r)'
    PROVE  Fresh(r)'
<1>c. /\ pc \in [Reqs -> {"idle", "begin", "count", "insert", "rank", "write avatar",
                        "avatar", "name", "move", "commit"}]
      /\ wish \in [Reqs -> Requests \cup {None}] /\ target \in [Reqs -> [id : Ids \cup {None}, path : Names \cup {None}]]
      /\ pending \in [Reqs -> Rows \cup {None}] /\ actor \in [Reqs -> [id : Ids, rank : Ranks] \cup {None}]
  BY DEF Shapes
<1>u. users' = users /\ ~raced[r]
  BY NoneCommits
<1>d. pc[r] # "idle" => wish[r].name \in Names \cup {None} /\ wish[r].rank \in Ranks \cup {None}
  BY Asks DEF PhaseOf
<1>r. Ranks \subseteq Nat /\ MaxRank \in Nat /\ DefaultRank \in Nat /\ DefaultRank \in Ranks
  BY RankAssumption DEF Ranks
<1>p. pending[r] # None => pending[r].rank \in Ranks /\ pending[r] \in Rows
  BY <1>c DEF Rows
<1>1. ASSUME NEW i \in Ids \cup {None}, NEW asked \in Asked, Authenticate(r, i, asked) PROVE Fresh(r)'
  <2>1. /\ pc'[r] = "begin" /\ pending'[r] = None /\ i \in Ids \cup {None}
        /\ actor'[r] = IF i = None THEN None ELSE [id |-> i, rank |-> users[i].rank]
        /\ i # None => users[i] # None
    BY <1>1, <1>c DEF Authenticate, Goto, PhaseOf, Located
  <2>2. actor'[r] # None => actor'[r].id = i /\ actor'[r].rank = users[i].rank /\ i # None
    BY <2>1
  <2> QED BY <2>1, <2>2, <1>u DEF Fresh, Located
<1>2. CASE Create(r)
  <2>1. /\ pc'[r] = "count" /\ pending'[r] = None
        /\ wish'[r] = wish[r] /\ actor'[r] = actor[r]
        /\ pc[r] = "begin" /\ wish[r].kind = "create"
        /\ wish[r].rank # None /\ wish[r].rank > DefaultRank => RankOf(r) >= wish[r].rank
    BY <1>2, <1>c DEF Create, Goto, PhaseOf, Located, Allowed
  <2>2. RankOf(r) \in Nat /\ RankOf(r)' = RankOf(r)
    BY <1>c, <1>r, <2>1 DEF RankOf
  <2>3. \/ wish[r].rank = None
        \/ wish[r].rank \in Ranks /\ (wish[r].rank <= DefaultRank \/ wish[r].rank <= RankOf(r))
    <3>1. ASSUME wish[r].rank # None
          PROVE wish[r].rank \in Ranks /\ (wish[r].rank <= DefaultRank \/ wish[r].rank <= RankOf(r))
      <4>1. wish[r].rank \in Nat /\ DefaultRank \in Nat /\ wish[r].rank \in Ranks
        BY <1>d, <1>r, <2>1, <3>1
      <4>2. wish[r].rank > DefaultRank => RankOf(r) >= wish[r].rank
        BY <2>1, <3>1
      <4> QED BY <2>2, <4>1, <4>2
    <3> QED BY <3>1
  <2> QED BY <1>u, <2>1, <2>2, <2>3 DEF Fresh, Located
<1>3. CASE Update(r)
  <2>1. PICK i \in Ids :
          /\ users[i] # None
          /\ ~IsSelf(r, i) => Allowed(r, users[i].rank)
          /\ target' = [target EXCEPT ![r] = [id |-> i, path |-> users[i].name]]
    BY <1>3 DEF Update
  <2>2. /\ pc'[r] = "rank" /\ pending'[r] = None /\ target'[r].id = i /\ pc[r] # "idle"
        /\ target'[r].path = users[i].name
        /\ wish'[r] = wish[r] /\ actor'[r] = actor[r]
        /\ wish[r].kind = "update"
    BY <1>3, <1>c, <2>1 DEF Update, Goto, PhaseOf, Located
  <2>3. RankOf(r) \in Nat /\ RankOf(r)' = RankOf(r) /\ users[i].rank \in Ranks
    BY <1>c, <1>r, <2>1, <2>2 DEF RankOf, Shapes, Rows
  <2>4. ~IsSelf(r, i) => users[i].rank <= RankOf(r)
    BY <1>r, <2>1, <2>3 DEF Allowed
  <2> QED BY <1>u, <2>1, <2>2, <2>3, <2>4 DEF Fresh, IsSelf
<1>4. CASE Delete(r)
  <2>1. PICK i \in Ids :
          /\ users[i] # None
          /\ target' = [target EXCEPT ![r] = [id |-> i, path |-> users[i].name]]
    BY <1>4 DEF Delete
  <2>2. /\ pc'[r] = "commit" /\ pending'[r] = None /\ target'[r].id = i /\ pc[r] # "idle"
        /\ target'[r].path = users[i].name
        /\ wish'[r] = wish[r] /\ actor'[r] = actor[r]
        /\ wish[r].kind = "delete"
    BY <1>4, <1>c, <2>1 DEF Delete, Goto, PhaseOf, Located
  <2> QED BY <1>u, <2>1, <2>2 DEF Fresh, IsSelf
<1>5. CASE Count(r)
  <2> DEFINE k == IF \A i \in Ids : users[i] = None THEN MaxRank
                ELSE IF wish[r].rank = None THEN DefaultRank ELSE wish[r].rank
  <2>0. wish[r].kind = "create" /\ wish[r] \in Requests /\ pc[r] = "count"
    BY <1>5 DEF Count, PhaseOf
  <2>1. wish' = [wish EXCEPT ![r].rank = k]
    BY <1>5 DEF Count
  <2>k. /\ k \in Ranks
        /\ (\A i \in Ids : users[i] = None) \/ k = DefaultRank \/ (k = wish[r].rank /\ wish[r].rank # None)
    <3>1. MaxRank \in Ranks /\ DefaultRank \in Ranks
      BY RankAssumption DEF Ranks
    <3>2. wish[r].rank \in Ranks \cup {None}
      BY <2>0, Asks
    <3> QED BY <3>1, <3>2
  <2> HIDE DEF k
  <2>2. /\ wish'[r] = [wish[r] EXCEPT !.rank = k] /\ pc'[r] = "insert"
        /\ actor'[r] = actor[r] /\ pending'[r] = None
    BY <1>5, <2>0, <2>1, <1>c DEF Count, Goto, PhaseOf, Located
  <2>3. wish'[r].rank = k /\ wish'[r].kind = "create"
    <3> DEFINE v == [wish[r] EXCEPT !.rank = k]
    <3>1. v.rank = k /\ v.kind = wish[r].kind
      BY <2>0, <2>k, AskingRank
    <3> QED BY <3>1, <2>0, <2>2
  <2>4. (\A i \in Ids : users[i] = None) \/ k <= DefaultRank \/ k <= RankOf(r)
    BY <1>u, <1>r, <2>0, <2>k DEF Fresh
  <2>5. RankOf(r)' = RankOf(r)
    BY <2>2 DEF RankOf
  <2> QED BY <1>u, <2>0, <2>2, <2>3, <2>4, <2>5, <2>k DEF Fresh, Located
<1>6. CASE InsertUser(r)
  <2>1. /\ pc'[r] \in {"commit", "write avatar"} /\ pc[r] = "insert"
        /\ wish'[r] = wish[r] /\ actor'[r] = actor[r]
    BY <1>6, <1>c DEF InsertUser, Goto
  <2>2. wish[r].kind = "create" /\ RankOf(r)' = RankOf(r)
    BY <2>1 DEF PhaseOf, RankOf
  <2> QED BY <1>u, <2>1, <2>2 DEF Fresh
<1>7. CASE SetRank(r)
  <2>1. /\ pc'[r] \in {"name", "write avatar"} /\ target'[r] = target[r]
        /\ wish'[r] = wish[r] /\ actor'[r] = actor[r]
        /\ pc[r] = "rank"
    BY <1>7, <1>c DEF SetRank, Goto
  <2>2. RankOf(r)' = RankOf(r) /\ IsSelf(r, target[r].id)' = IsSelf(r, target[r].id)
    BY <1>c, <2>1 DEF RankOf, IsSelf
  <2>3. ASSUME wish[r].kind = "update", pending'[r] # None
        PROVE  \/ pending'[r].rank <= DefaultRank
               \/ pending'[r].rank <= RankOf(r)
               \/ pending'[r].rank = users[target[r].id].rank
    <3>0. Fresh(r) /\ Row(r) \in Rows \cup {None}
      BY <1>u, <2>1, RowTyped DEF Located
    <3>1. CASE pending'[r] = pending[r]
      BY <2>3, <3>0, <3>1 DEF Fresh
    <3>2. CASE /\ users[target[r].id] # None /\ wish[r].rank # None
               /\ wish[r].rank > DefaultRank => RankOf(r) >= wish[r].rank
               /\ pending'[r] = [Row(r) EXCEPT !.rank = wish[r].rank]
      <4>1. Row(r) \in Rows
        BY <1>p, <3>0, <3>2 DEF Row
      <4>2. pending'[r].rank = wish[r].rank /\ wish[r].rank \in Ranks
        BY <1>d, <2>1, <3>2, <4>1 DEF Rows
      <4>3. RankOf(r) \in Nat
        BY <1>c, <1>r DEF RankOf
      <4> QED BY <1>r, <3>2, <4>2, <4>3
    <3> QED BY <1>7, <1>c, <3>1, <3>2 DEF SetRank, Write, Allowed
  <2> QED BY <1>u, <2>1, <2>2, <2>3 DEF Fresh, Located
<1>8. CASE WriteAvatar(r)
  <2>1. /\ pc'[r] = "avatar" /\ target'[r] = target[r] /\ pending'[r] = pending[r]
        /\ wish'[r] = wish[r] /\ actor'[r] = actor[r]
        /\ pc[r] = "write avatar"
    BY <1>8, <1>c DEF WriteAvatar, Goto
  <2>2. RankOf(r)' = RankOf(r) /\ IsSelf(r, target[r].id)' = IsSelf(r, target[r].id)
    BY <1>c, <2>1 DEF RankOf, IsSelf
  <2> QED BY <1>u, <2>1, <2>2 DEF Fresh, Located
<1>9. CASE RecordAvatar(r)
  <2>1. /\ pc'[r] \in {"name", "commit"} /\ target'[r] = target[r]
        /\ wish'[r] = wish[r] /\ actor'[r] = actor[r]
        /\ pc[r] = "avatar"
    BY <1>9, <1>c DEF RecordAvatar, Goto
  <2>2. RankOf(r)' = RankOf(r) /\ IsSelf(r, target[r].id)' = IsSelf(r, target[r].id)
    BY <1>c, <2>1 DEF RankOf, IsSelf
  <2>3. ASSUME wish[r].kind = "update", pending'[r] # None
        PROVE  \/ pending'[r].rank <= DefaultRank
               \/ pending'[r].rank <= RankOf(r)
               \/ pending'[r].rank = users[target[r].id].rank
    <3>0. Fresh(r) /\ Row(r) \in Rows \cup {None}
      BY <1>u, <2>1, RowTyped DEF Located
    <3>1. CASE pending'[r] = pending[r]
      BY <2>3, <3>0, <3>1 DEF Fresh
    <3>2. CASE /\ Row(r) # None
               /\ pending'[r] = Row(r)
      <4>1. Row(r) \in Rows
        BY <3>0, <3>2
      <4>2. pending'[r].rank = Row(r).rank
        BY <3>2, <4>1 DEF Rows
      <4> QED BY <2>3, <3>0, <4>2 DEF Row, Fresh
    <3> QED BY <1>9, <1>c, <3>1, <3>2 DEF RecordAvatar, Write, Row
  <2> QED BY <1>u, <2>1, <2>2, <2>3 DEF Fresh, Located
<1>10. CASE SetName(r)
  <2>1. /\ pc'[r] \in {"commit", "move"} /\ target'[r] = target[r]
        /\ wish'[r] = wish[r] /\ actor'[r] = actor[r]
        /\ pc[r] = "name"
    BY <1>10, <1>c DEF SetName, Goto
  <2>2. RankOf(r)' = RankOf(r) /\ IsSelf(r, target[r].id)' = IsSelf(r, target[r].id)
    BY <1>c, <2>1 DEF RankOf, IsSelf
  <2>3. ASSUME wish[r].kind = "update", pending'[r] # None
        PROVE  \/ pending'[r].rank <= DefaultRank
               \/ pending'[r].rank <= RankOf(r)
               \/ pending'[r].rank = users[target[r].id].rank
    <3>0. Fresh(r) /\ Row(r) \in Rows \cup {None}
      BY <1>u, <2>1, RowTyped DEF Located
    <3>1. CASE pending'[r] = pending[r]
      BY <2>3, <3>0, <3>1 DEF Fresh
    <3>2. CASE /\ Row(r) # None
               /\ wish[r].name # None /\ pending'[r] = [Row(r) EXCEPT !.name = wish[r].name]
      <4>1. Row(r) \in Rows
        BY <3>0, <3>2
      <4>2. pending'[r].rank = Row(r).rank
        BY <3>2, <4>1 DEF Rows
      <4> QED BY <2>3, <3>0, <4>2 DEF Row, Fresh
    <3> QED BY <1>10, <1>c, <3>1, <3>2 DEF SetName, Write, Row
  <2> QED BY <1>u, <2>1, <2>2, <2>3 DEF Fresh, Located
<1>11. CASE MoveAvatar(r)
  <2>1. /\ pc'[r] = "commit" /\ target'[r] = target[r] /\ pending'[r] = pending[r]
        /\ wish'[r] = wish[r] /\ actor'[r] = actor[r]
        /\ pc[r] = "move"
    BY <1>11, <1>c DEF MoveAvatar, Goto
  <2>2. RankOf(r)' = RankOf(r) /\ IsSelf(r, target[r].id)' = IsSelf(r, target[r].id)
    BY <1>c, <2>1 DEF RankOf, IsSelf
  <2> QED BY <1>u, <2>1, <2>2 DEF Fresh, Located
<1>12. CASE CommitChange(r)
  BY <1>12, <1>c DEF CommitChange, Commit, End, Goto
<1>13. CASE CommitDelete(r)
  BY <1>13, <1>c DEF CommitDelete, Commit, End, Goto
<1>14. CASE Abort(r)
  BY <1>14, <1>c DEF Abort, End, Goto
<1> QED
  BY <1>1, <1>2, <1>3, <1>4, <1>5, <1>6, <1>7, <1>8, <1>9, <1>10, <1>11, <1>12, <1>13, <1>14
     DEF Act

LEMMA FreshStep ==
    ASSUME RowsOK, RowsOK', FreshOK, [Next]_userVars
    PROVE  FreshOK'
<1>0. /\ Shapes /\ Shapes' /\ DrawnOK
      /\ \A q \in Reqs : PhaseOf(q) /\ PendingOf(q) /\ PhaseOf(q)'
  BY ShapesUnique DEF RowsOK, TypeOK, Shapes
<1>1. ASSUME NEW r \in Reqs, Act(r), NEW q \in Reqs, pc'[q] # "idle", ~raced'[q]
      PROVE  Fresh(q)'
  <2>1. users' = users /\ ~raced[q] /\ (q # r => pc[q] # "idle")
    BY <1>0, <1>1, NoneCommits
  <2>2. CASE q = r
    BY <1>0, <1>1, <2>1, <2>2, FreshKept DEF FreshOK
  <2>3. CASE q # r
    <3>1. Kept(q) /\ Fresh(q)
      BY <1>0, <1>1, <2>1, <2>3, OthersKept DEF FreshOK
    <3>2. RankOf(q)' = RankOf(q) /\ IsSelf(q, target[q].id)' = IsSelf(q, target[q].id)
      BY <3>1, <2>3 DEF RankOf, IsSelf, Kept
    <3> QED BY <2>1, <3>1, <3>2 DEF Kept, Fresh
  <2> QED BY <2>2, <2>3
<1>2. CASE UNCHANGED userVars
  BY <1>2 DEF userVars, FreshOK, Fresh, RankOf, IsSelf
<1> QED BY <1>1, <1>2, NextActs DEF FreshOK

LEMMA FreshBegins == Start => FreshOK
BY DEF Start, FreshOK

LEMMA RowsAndRanks == Spec => [](RowsOK /\ FreshOK)
<1>1. RowsOK /\ FreshOK /\ [Next]_userVars => RowsOK' /\ FreshOK'
  BY RowsStep, FreshStep
<1> QED BY <1>1, Begins, FreshBegins, PTL DEF Spec

\* The only step that ends a request and changes users is its commit.
LEMMA CommitsAre ==
    ASSUME RowsOK, [Next]_userVars, NEW r \in Reqs, Commits(r), wish[r].kind # "delete"
    PROVE  /\ CommitChange(r) /\ pending[r] # None /\ target[r].id \in Ids
           /\ users'[target[r].id] = pending[r]
<1>0. Shapes /\ PhaseOf(r)
  BY ShapesUnique DEF RowsOK
<1>1. ASSUME NEW q \in Reqs, Act(q) PROVE CommitChange(r)
  <2>1. q = r
    BY <1>0, <1>1, OthersKept DEF Kept, Commits
  <2>2. users' # users /\ pc[r] = "commit"
    BY DEF Commits
  <2> QED BY <1>1, <2>1, <2>2 DEF Act, Authenticate, Create, Update, Delete, Count, InsertUser,
         SetRank, WriteAvatar, RecordAvatar, SetName, MoveAvatar, CommitDelete, Abort
<1>2. CommitChange(r)
  BY <1>1, NextActs DEF Commits, userVars
<1>3. target[r].id \in Ids
  BY <1>0 DEF PhaseOf, Located, Commits
<1> QED BY <1>0, <1>2, <1>3 DEF CommitChange, Commits, Shapes

\* An administrator is made only of the first user: a user of a rank above the
\* default and its creator's is created only when there is none, unless another
\* request committed meanwhile.
THEOREM FirstUser == Spec => FirstUserAlone
<1>1. ASSUME RowsOK, FreshOK, [Next]_userVars, NEW r \in Reqs, NEW i \in Ids,
             Commits(r), wish[r].kind = "create", ~raced[r], target[r].id = i
      PROVE  \/ users'[i].rank <= DefaultRank
             \/ users'[i].rank <= Own(r)
             \/ \A j \in Ids : users[j] = None
  <2>1. users'[i] = pending[r]
    BY <1>1, CommitsAre
  <2>2. PendingOf(r) /\ Fresh(r) /\ pc[r] = "commit"
    BY <1>1 DEF RowsOK, FreshOK, Commits
  <2>3. pending[r].rank = wish[r].rank /\ wish[r].rank \in Ranks
    BY <1>1, <2>2 DEF PendingOf, Located
  <2>4. Own(r) = RankOf(r)
    BY <2>2 DEF Fresh, Own, RankOf
  <2> QED BY <1>1, <2>1, <2>2, <2>3, <2>4 DEF Fresh
<1>2. RowsOK /\ FreshOK /\ [Next]_userVars =>
        [\A r \in Reqs, i \in Ids :
          Commits(r) /\ wish[r].kind = "create" /\ ~raced[r] /\ target[r].id = i =>
             \/ users'[i].rank <= DefaultRank
             \/ users'[i].rank <= Own(r)
             \/ \A j \in Ids : users[j] = None]_userVars
  BY <1>1
<1> QED BY <1>2, RowsAndRanks, PTL DEF Spec, FirstUserAlone

\* Ranks bind: who edits another has no lower rank than that user, and nobody
\* gives a rank above the default and its own, by the ranks at commit.
THEOREM RanksBind == Spec => RanksRespected
<1>1. ASSUME RowsOK, FreshOK, [Next]_userVars, NEW r \in Reqs, NEW i \in Ids,
             Commits(r), wish[r].kind = "update", ~raced[r], target[r].id = i
      PROVE  /\ ~IsSelf(r, i) => users[i].rank <= Own(r)
             /\ users'[i].rank > users[i].rank /\ users'[i].rank > DefaultRank =>
                   users'[i].rank <= Own(r)
  <2>1. users'[i] = pending[r] /\ pending[r] # None
    BY <1>1, CommitsAre
  <2>2. Fresh(r) /\ pc[r] = "commit" /\ Shapes
    BY <1>1, ShapesUnique DEF RowsOK, FreshOK, Commits
  <2>3. Own(r) = RankOf(r)
    BY <2>2 DEF Fresh, Own, RankOf
  <2>4. users[i] # None
    BY <1>1, <2>2 DEF Fresh, Located
  <2>5. users[i].rank \in Nat /\ pending[r].rank \in Nat /\ DefaultRank \in Nat
    <3>1. users[i] \in Rows /\ pending[r] \in Rows
      BY <1>1, <2>1, <2>2, <2>4 DEF Shapes
    <3> QED BY <3>1, RankAssumption DEF Rows, Ranks
  <2>6. \/ pending[r].rank <= DefaultRank \/ pending[r].rank <= RankOf(r)
        \/ pending[r].rank = users[i].rank
    BY <1>1, <2>1, <2>2 DEF Fresh
  <2> QED BY <1>1, <2>1, <2>2, <2>3, <2>5, <2>6 DEF Fresh, Located
<1>2. RowsOK /\ FreshOK /\ [Next]_userVars =>
        [\A r \in Reqs, i \in Ids :
          Commits(r) /\ ~raced[r] /\ target[r].id = i /\ wish[r].kind = "update" =>
             /\ ~IsSelf(r, i) => users[i].rank <= Own(r)
             /\ users'[i].rank > users[i].rank /\ users'[i].rank > DefaultRank =>
                   users'[i].rank <= Own(r)]_userVars
  BY <1>1
<1> QED BY <1>2, RowsAndRanks, PTL DEF Spec, RanksRespected

-----------------------------------------------------------------------------
(* Avatars.                                                                 *)

\* Where a request that has changed files has left the picture.
PathOf(r) ==
    IF pc[r] = "commit" /\ wish[r].kind = "update" /\ wish[r].name # None
    THEN wish[r].name ELSE target[r].path

\* The picture it will leave the user with.
Saves(r) == IF wish[r].pic # None THEN wish[r].pic ELSE avatar[target[r].id]

\* No other request has changed the user's files.
Alone(r) == \A s \in Reqs \ {r} : target[r].id \notin Saved(s)

SavingOK ==
    \A r \in Reqs :
        /\ Saving(r) /\ ~raced[r] /\ Alone(r)
        /\ target[r].id \notin muddled /\ Saves(r) # None
        => files[PathOf(r)] = Saves(r)

LEMMA SavedOthers ==
    ASSUME Shapes, NEW r \in Reqs, Act(r), NEW q \in Reqs \ {r}
    PROVE  /\ (Saving(q)' <=> Saving(q)) /\ Saved(q)' = Saved(q) /\ PathOf(q)' = PathOf(q)
           /\ target'[q] = target[q] /\ wish'[q] = wish[q]
<1>1. Kept(q)
  BY OthersKept
<1> QED BY <1>1 DEF Kept, Saving, Saved, PathOf

\* Before its first change of a file, and from then to the end.
Quiet(r) ==
    \/ \E i \in Ids \cup {None}, asked \in Asked : Authenticate(r, i, asked)
    \/ Create(r) \/ Update(r) \/ Delete(r) \/ Count(r) \/ InsertUser(r) \/ SetRank(r)
    \/ RecordAvatar(r) \/ SetName(r)

LEMMA QuietSaves ==
    ASSUME Shapes, NEW r \in Reqs, Quiet(r), PhaseOf(r)
    PROVE  /\ files' = files /\ users' = users /\ avatar' = avatar /\ muddled' = muddled
           /\ raced' = raced /\ (Saving(r)' <=> Saving(r)) /\ Saved(r)' = Saved(r)
           /\ Saving(r) => /\ target'[r] = target[r] /\ wish'[r] = wish[r]
                           /\ PathOf(r)' = PathOf(r)
<1>c. /\ pc \in [Reqs -> {"idle", "begin", "count", "insert", "rank", "write avatar",
                        "avatar", "name", "move", "commit"}]
      /\ wish \in [Reqs -> Requests \cup {None}] /\ target \in [Reqs -> [id : Ids \cup {None}, path : Names \cup {None}]]
  BY DEF Shapes
<1>1. files' = files /\ users' = users /\ avatar' = avatar /\ muddled' = muddled /\ raced' = raced
  BY DEF Quiet, Authenticate, Create, Update, Delete, Count, InsertUser, SetRank, RecordAvatar,
     SetName
<1>2. CASE RecordAvatar(r)
  <2>1. /\ pc[r] = "avatar" /\ pc'[r] \in {"name", "commit"} /\ target'[r] = target[r] /\ wish'[r] = wish[r]
        /\ pc'[r] = "commit" => wish[r].kind = "create"
    BY <1>2, <1>c DEF RecordAvatar, Goto
  <2>2. wish[r].pic # None
    BY <2>1 DEF PhaseOf
  <2>3. Saving(r) /\ Saving(r)'
    BY <2>1, <2>2 DEF Saving
  <2>4. PathOf(r)' = PathOf(r)
    BY <2>1 DEF PathOf
  <2> QED BY <1>1, <2>1, <2>3, <2>4 DEF Saved
<1>3. CASE SetName(r)
  <2>1. /\ pc[r] = "name" /\ pc'[r] \in {"move", "commit"} /\ target'[r] = target[r] /\ wish'[r] = wish[r]
        /\ pc'[r] = "commit" => wish[r].name = None
    BY <1>3, <1>c DEF SetName, Goto
  <2>2. (Saving(r)' <=> Saving(r))
    BY <2>1 DEF Saving
  <2>3. PathOf(r)' = PathOf(r)
    BY <2>1 DEF PathOf
  <2>4. Saved(r)' = Saved(r)
    BY <2>1, <2>2 DEF Saved
  <2> QED BY <1>1, <2>1, <2>2, <2>3, <2>4
<1>4. CASE ~Saving(r) /\ ~Saving(r)'
  BY <1>1, <1>4 DEF Saved
<1>5. CASE \E i \in Ids \cup {None}, asked \in Asked : Authenticate(r, i, asked)
  <2>1. pc[r] = "idle" /\ pc'[r] = "begin"
    BY <1>5, <1>c DEF Authenticate, Goto
  <2> QED BY <1>4, <2>1 DEF Saving
<1>6. CASE Create(r) \/ Count(r)
  <2>1. pc[r] \in {"begin", "count"} /\ pc'[r] \in {"count", "insert"}
    BY <1>6, <1>c DEF Create, Count, Goto
  <2> QED BY <1>4, <2>1 DEF Saving
<1>7. CASE Update(r)
  <2>1. pc[r] = "begin" /\ pc'[r] = "rank"
    BY <1>7, <1>c DEF Update, Goto
  <2> QED BY <1>4, <2>1 DEF Saving
<1>8. CASE Delete(r)
  <2>1. pc[r] = "begin" /\ pc'[r] = "commit" /\ wish[r].kind = "delete" /\ wish'[r] = wish[r]
    BY <1>8, <1>c DEF Delete, Goto
  <2>2. wish[r].pic = None
    BY <2>1, Asks DEF PhaseOf
  <2> QED BY <1>4, <2>1, <2>2 DEF Saving
<1>9. CASE InsertUser(r)
  <2>1. /\ pc[r] = "insert" /\ wish[r].kind = "create" /\ wish'[r] = wish[r]
        /\ pc'[r] = IF wish[r].pic = None THEN "commit" ELSE "write avatar"
    BY <1>9, <1>c DEF InsertUser, Goto, PhaseOf
  <2> QED BY <1>4, <2>1 DEF Saving
<1>10. CASE SetRank(r)
  <2>1. /\ pc[r] = "rank" /\ wish'[r] = wish[r]
        /\ pc'[r] = IF wish[r].pic = None THEN "name" ELSE "write avatar"
    BY <1>10, <1>c DEF SetRank, Goto
  <2> QED BY <1>4, <2>1 DEF Saving
<1> QED BY <1>2, <1>3, <1>5, <1>6, <1>7, <1>8, <1>9, <1>10 DEF Quiet

LEMMA MuddledGrows ==
    ASSUME NEW r \in Reqs, Act(r)
    PROVE  muddled \subseteq muddled'
BY DEF Act, Authenticate, Create, Update, Delete, Count, InsertUser, SetRank, WriteAvatar,
       RecordAvatar, SetName, MoveAvatar, CommitChange, CommitDelete, Commit, Abort

\* A step that changes files at some names, of a request that then has changed
\* files, leaves the others' where they are, or counts them among the muddled.
LEMMA FilesElsewhere ==
    ASSUME Shapes, Shapes', NEW r \in Reqs, Act(r), PhaseOf(r), NEW names, Saving(r)', target'[r] = target[r],
           users' = users, avatar' = avatar, raced' = raced,
           muddled' = muddled \cup OthersAt(r, names),
           \A n \in Names \ names : files'[n] = files[n],
           \A q \in Reqs : PhaseOf(q), target[r].id \in Ids,
           AvatarFollowsUser, SavingOK
    PROVE  /\ AvatarFollowsUser'
           /\ \A q \in Reqs \ {r} :
                 /\ Saving(q)' /\ ~raced'[q] /\ Alone(q)'
                 /\ target'[q].id \notin muddled' /\ Saves(q)' # None
                 => files'[PathOf(q)'] = Saves(q)'
<1>1. Saved(r)' = {target[r].id} /\ Saved(r) \subseteq Saved(r)'
  BY DEF Saved
<1>2. \A s \in Reqs : Saved(s) \subseteq Saved(s)'
  BY <1>1, SavedOthers
<1>3. ASSUME NEW i \in Ids \ muddled', users'[i] # None, avatar'[i] # None, \A s \in Reqs : i \notin Saved(s)'
      PROVE  files'[users'[i].name] = avatar'[i]
  <2>1. i # target[r].id /\ i \notin muddled /\ i \notin OthersAt(r, names)
    BY <1>1, <1>3
  <2>2. files[users[i].name] = avatar[i]
    BY <1>2, <1>3, <2>1 DEF AvatarFollowsUser
  <2>3. users[i].name \notin names /\ users[i].name \in Names
    BY <1>3, <2>1 DEF OthersAt, Shapes, Rows
  <2> QED BY <2>2, <2>3
<1>4. ASSUME NEW q \in Reqs \ {r}, Saving(q)', ~raced'[q], Alone(q)', target'[q].id \notin muddled',
             Saves(q)' # None
      PROVE  files'[PathOf(q)'] = Saves(q)'
  <2>1. /\ Saving(q) /\ PathOf(q)' = PathOf(q) /\ target'[q] = target[q] /\ wish'[q] = wish[q]
        /\ Saves(q)' = Saves(q)
    BY <1>4, SavedOthers DEF Saves
  <2>2. target[q].id # target[r].id /\ Alone(q)
    BY <1>1, <1>2, <1>4, <2>1 DEF Alone
  <2>3. files[PathOf(q)] = Saves(q)
    BY <1>4, <2>1, <2>2 DEF SavingOK
  <2>4. target[q].id \in Ids /\ target[q].id \notin OthersAt(r, names)
    BY <1>4, <2>1 DEF PhaseOf, Saving, Located
  <2>5. {target[q].path, wish[q].name} \cap names = {}
    BY <2>1, <2>2, <2>4 DEF OthersAt
  <2>6. PathOf(q) \in Names
    <3>1. target[q].path \in Names /\ wish[q].name \in Names \cup {None}
      BY <2>1, Asks DEF PhaseOf, Saving, Located
    <3> QED BY <3>1 DEF PathOf
  <2>7. PathOf(q) \notin names
    BY <2>5 DEF PathOf
  <2> QED BY <2>1, <2>3, <2>6, <2>7
<1> QED BY <1>3, <1>4 DEF AvatarFollowsUser

LEMMA AvatarsStep ==
    ASSUME RowsOK, RowsOK', FreshOK, AvatarFollowsUser, SavingOK, [Next]_userVars
    PROVE  AvatarFollowsUser' /\ SavingOK'
<1>0. /\ Shapes /\ Shapes' /\ DrawnOK
      /\ \A q \in Reqs : PhaseOf(q) /\ PendingOf(q)
  BY ShapesUnique DEF RowsOK, TypeOK, Shapes
<1>c. /\ pc \in [Reqs -> {"idle", "begin", "count", "insert", "rank", "write avatar",
                        "avatar", "name", "move", "commit"}]
      /\ wish \in [Reqs -> Requests \cup {None}] /\ target \in [Reqs -> [id : Ids \cup {None}, path : Names \cup {None}]]
      /\ pending \in [Reqs -> Rows \cup {None}] /\ files \in [Names -> Pics \cup {None}]
      /\ raced \in [Reqs -> BOOLEAN]
  BY <1>0 DEF Shapes
<1>1. ASSUME NEW r \in Reqs, Quiet(r) PROVE AvatarFollowsUser' /\ SavingOK'
  <2>0. Act(r)
    BY <1>1 DEF Act, Quiet
  <2>1. /\ files' = files /\ users' = users /\ avatar' = avatar /\ muddled' = muddled
        /\ raced' = raced /\ (Saving(r)' <=> Saving(r)) /\ Saved(r)' = Saved(r)
        /\ Saving(r) => /\ target'[r] = target[r] /\ wish'[r] = wish[r]
                        /\ PathOf(r)' = PathOf(r)
    BY <1>0, <1>1, QuietSaves
  <2>2. \A s \in Reqs : /\ Saved(s)' = Saved(s) /\ (Saving(s)' <=> Saving(s))
                        /\ Saving(s) => /\ target'[s] = target[s] /\ wish'[s] = wish[s]
                                        /\ PathOf(s)' = PathOf(s)
    BY <1>0, <2>0, <2>1, SavedOthers
  <2>3. AvatarFollowsUser'
    BY <2>1, <2>2 DEF AvatarFollowsUser
  <2>4. ASSUME NEW q \in Reqs, Saving(q)', ~raced'[q], Alone(q)', target'[q].id \notin muddled',
               Saves(q)' # None
        PROVE  files'[PathOf(q)'] = Saves(q)'
    <3>1. /\ Saving(q) /\ PathOf(q)' = PathOf(q) /\ target'[q] = target[q] /\ wish'[q] = wish[q]
      BY <2>2, <2>4
    <3>2. Alone(q) /\ Saves(q)' = Saves(q)
      BY <2>1, <2>2, <2>4, <3>1 DEF Alone, Saves
    <3> QED BY <2>1, <2>4, <3>1, <3>2 DEF SavingOK
  <2> QED BY <2>3, <2>4 DEF SavingOK
<1>2. ASSUME NEW r \in Reqs, WriteAvatar(r) PROVE AvatarFollowsUser' /\ SavingOK'
  <2>0. Act(r)
    BY <1>2 DEF Act
  <2>1. /\ pc[r] = "write avatar" /\ pc'[r] = "avatar" /\ target'[r] = target[r] /\ wish'[r] = wish[r]
        /\ files' = [files EXCEPT ![target[r].path] = wish[r].pic]
        /\ users' = users /\ avatar' = avatar /\ raced' = raced
        /\ muddled' = muddled \cup OthersAt(r, {target[r].path})
    BY <1>2, <1>c DEF WriteAvatar, Goto
  <2>2. target[r].id \in Ids /\ target[r].path \in Names /\ wish[r].pic # None
    BY <1>0, <2>1 DEF PhaseOf, Located
  <2>3. Saving(r)' /\ PathOf(r)' = target[r].path /\ Saves(r)' = wish[r].pic
    BY <2>1, <2>2 DEF Saving, PathOf, Saves
  <2>4. files'[target[r].path] = wish[r].pic /\ \A n \in Names \ {target[r].path} : files'[n] = files[n]
    BY <1>c, <2>1, <2>2
  <2>5. /\ AvatarFollowsUser'
        /\ \A q \in Reqs \ {r} :
              /\ Saving(q)' /\ ~raced'[q] /\ Alone(q)'
              /\ target'[q].id \notin muddled' /\ Saves(q)' # None
              => files'[PathOf(q)'] = Saves(q)'
    BY <1>0, <2>0, <2>1, <2>2, <2>3, <2>4, FilesElsewhere
  <2> QED BY <2>3, <2>4, <2>5 DEF SavingOK
<1>3. ASSUME NEW r \in Reqs, MoveAvatar(r) PROVE AvatarFollowsUser' /\ SavingOK'
  <2>0. Act(r)
    BY <1>3 DEF Act
  <2>1. /\ pc[r] = "move" /\ pc'[r] = "commit" /\ target'[r] = target[r] /\ wish'[r] = wish[r]
        /\ files' = IF files[target[r].path] = None \/ wish[r].name = target[r].path THEN files
                    ELSE [files EXCEPT ![wish[r].name] = files[target[r].path],
                                       ![target[r].path] = None]
        /\ users' = users /\ avatar' = avatar /\ raced' = raced
        /\ muddled' = muddled \cup OthersAt(r, {target[r].path, wish[r].name})
    BY <1>3, <1>c DEF MoveAvatar, Goto
  <2>2. /\ target[r].id \in Ids /\ target[r].path \in Names /\ wish[r].name # None /\ wish[r].name \in Names
        /\ wish[r].kind = "update"
    BY <1>0, <2>1, Asks DEF PhaseOf, PendingOf, Located
  <2>3. Saving(r)' /\ PathOf(r)' = wish[r].name /\ Saves(r)' = Saves(r)
    BY <2>1, <2>2 DEF Saving, PathOf, Saves
  <2>4. \A n \in Names \ {target[r].path, wish[r].name} : files'[n] = files[n]
    BY <1>c, <2>1, <2>2
  <2>5. /\ AvatarFollowsUser'
        /\ \A q \in Reqs \ {r} :
              /\ Saving(q)' /\ ~raced'[q] /\ Alone(q)'
              /\ target'[q].id \notin muddled' /\ Saves(q)' # None
              => files'[PathOf(q)'] = Saves(q)'
    BY <1>0, <2>0, <2>1, <2>2, <2>3, <2>4, FilesElsewhere
  <2>6. ASSUME ~raced'[r], Alone(r)', target'[r].id \notin muddled', Saves(r)' # None
        PROVE  files'[wish[r].name] = Saves(r)
    <3>1. ~raced[r] /\ target[r].id \notin muddled /\ Saves(r) # None
      BY <2>1, <2>3, <2>6
    <3>2. Alone(r)
      BY <1>0, <2>0, <2>1, <2>6, SavedOthers DEF Alone
    <3>3. files[target[r].path] = Saves(r)
      <4>1. CASE Saving(r)
        <5>1. PathOf(r) = target[r].path
          BY <2>1 DEF PathOf
        <5> QED BY <3>1, <3>2, <4>1, <5>1 DEF SavingOK
      <4>2. CASE ~Saving(r)
        <5>1. Saves(r) = avatar[target[r].id] /\ \A s \in Reqs : target[r].id \notin Saved(s)
          BY <2>1, <3>2, <4>2 DEF Saving, Saves, Alone, Saved
        <5>2. users[target[r].id] # None /\ users[target[r].id].name = target[r].path
          BY <2>1, <2>2, <3>1 DEF FreshOK, Fresh, Located
        <5> QED BY <2>2, <3>1, <5>1, <5>2 DEF AvatarFollowsUser
      <4> QED BY <4>1, <4>2
    <3> QED BY <1>c, <2>1, <2>2, <3>1, <3>3
  <2> QED BY <2>3, <2>5, <2>6 DEF SavingOK
<1>4. ASSUME NEW r \in Reqs, CommitChange(r) \/ CommitDelete(r) \/ Abort(r)
      PROVE AvatarFollowsUser' /\ SavingOK'
  <2>0. Act(r)
    BY <1>4 DEF Act
  <2>1. files' = files /\ pc'[r] = "idle"
    BY <1>4, <1>c DEF CommitChange, CommitDelete, Abort, Commit, End, Goto
  <2>2. ~Saving(r)' /\ Saved(r)' = {}
    BY <2>1 DEF Saving, Saved
  <2>3. muddled \subseteq muddled'
    BY <2>0, MuddledGrows
  <2>4. ASSUME NEW q \in Reqs, Saving(q)', ~raced'[q], Alone(q)', target'[q].id \notin muddled',
               Saves(q)' # None
        PROVE  files'[PathOf(q)'] = Saves(q)'
    <3>1. q # r
      BY <2>2, <2>4
    <3>2. Saving(q) /\ PathOf(q)' = PathOf(q) /\ target'[q] = target[q] /\ wish'[q] = wish[q]
      BY <1>0, <2>0, <2>4, <3>1, SavedOthers
    <3>3. CASE Abort(r)
      <4>1. /\ avatar' = avatar /\ raced' = [raced EXCEPT ![r] = FALSE]
            /\ muddled' = muddled \cup Saved(r)
        BY <3>3 DEF Abort
      <4>2. Alone(q)
        BY <1>0, <2>0, <2>4, <3>1, <3>2, <4>1, SavedOthers DEF Alone
      <4>3. Saves(q)' = Saves(q) /\ ~raced[q]
        BY <1>c, <2>4, <3>1, <3>2, <4>1 DEF Saves
      <4> QED BY <2>1, <2>3, <2>4, <3>2, <4>2, <4>3 DEF SavingOK
    <3>4. CASE CommitChange(r) \/ CommitDelete(r)
      <4>1. raced' = [s \in Reqs |-> s # r /\ pc[s] # "idle"]
        BY <3>4 DEF CommitChange, CommitDelete, Commit
      <4>2. pc[q] # "idle"
        BY <3>2 DEF Saving
      <4> QED BY <2>4, <3>1, <4>1, <4>2
    <3> QED BY <1>4, <3>3, <3>4
  <2>5. ASSUME NEW i \in Ids \ muddled', users'[i] # None, avatar'[i] # None, \A s \in Reqs : i \notin Saved(s)'
        PROVE  files'[users'[i].name] = avatar'[i]
    <3>1. \A s \in Reqs \ {r} : i \notin Saved(s)
      BY <1>0, <2>0, <2>5, SavedOthers
    <3>2. i \notin muddled
      BY <2>3
    <3>3. CASE users'[i] = users[i] /\ avatar'[i] = avatar[i] /\ i \notin Saved(r)
      BY <2>1, <2>5, <3>1, <3>2, <3>3 DEF AvatarFollowsUser
    <3>4. CASE Abort(r)
      BY <2>5, <3>3, <3>4 DEF Abort
    <3>5. CASE i # target[r].id
      <4>1. users'[i] = users[i] /\ avatar'[i] = avatar[i]
        BY <1>0, <2>0, <3>5, OneUserChanges
      <4>2. i \notin Saved(r)
        BY <3>5 DEF Saved
      <4> QED BY <3>3, <4>1, <4>2
    <3>6. CASE CommitDelete(r) /\ i = target[r].id
      BY <1>0, <2>5, <3>6 DEF CommitDelete, Shapes
    <3>7. CASE CommitChange(r) /\ i = target[r].id
      <4>1. /\ users'[i] = IF pending[r] = None THEN users[i] ELSE pending[r]
            /\ avatar'[i] = IF wish[r].pic = None THEN avatar[i] ELSE wish[r].pic
            /\ muddled' = muddled \cup (IF raced[r] THEN Saved(r) ELSE {})
            /\ pc[r] = "commit" /\ wish[r].kind # "delete"
        BY <1>0, <3>7 DEF CommitChange, Commit, Shapes
      <4>2. wish[r].kind \in {"create", "update"} /\ pc[r] \in Located
        BY <1>0, <4>1, Asks DEF PhaseOf, Located
      <4>3. wish[r].kind = "create" =>
              pending[r] # None /\ pending[r].name = target[r].path /\ avatar[i] = None
        BY <1>0, <3>7, <4>2 DEF PendingOf, DrawnOK
      <4>4. CASE ~Saving(r)
        <5>1. wish[r].pic = None /\ (wish[r].kind = "update" => wish[r].name = None)
          BY <4>1, <4>4 DEF Saving
        <5>2. wish[r].kind = "update"
          BY <2>5, <4>1, <4>2, <4>3, <5>1
        <5>3. pending[r] # None => users[i] # None /\ pending[r].name = users[i].name
          BY <1>0, <3>7, <5>1, <5>2 DEF PendingOf
        <5>4. users[i] # None /\ users'[i].name = users[i].name
          BY <2>5, <4>1, <5>3
        <5>5. avatar[i] = avatar'[i] /\ avatar[i] # None /\ \A s \in Reqs : i \notin Saved(s)
          BY <2>5, <3>1, <4>1, <4>4, <5>1 DEF Saved
        <5>6. files[users[i].name] = avatar[i]
          BY <3>2, <5>4, <5>5 DEF AvatarFollowsUser
        <5> QED BY <2>1, <5>4, <5>5, <5>6
      <4>5. CASE Saving(r)
        <5>1. ~raced[r]
          BY <3>7, <4>1, <4>5 DEF Saved
        <5>2. Fresh(r)
          BY <4>1, <5>1 DEF FreshOK
        <5>3. Alone(r)
          BY <3>1, <3>7 DEF Alone
        <5>4. avatar'[i] = Saves(r)
          BY <3>7, <4>1 DEF Saves
        <5>5. files[PathOf(r)] = Saves(r)
          BY <2>5, <3>2, <3>7, <4>5, <5>1, <5>3, <5>4 DEF SavingOK
        <5>6. users'[i].name = PathOf(r)
          <6>1. CASE wish[r].kind = "create"
            BY <4>1, <4>3, <6>1 DEF PathOf
          <6>2. CASE wish[r].kind = "update" /\ wish[r].name # None
            BY <1>0, <4>1, <4>2, <6>2 DEF PathOf, PendingOf
          <6>3. CASE wish[r].kind = "update" /\ wish[r].name = None
            <7>1. users[i] # None /\ users[i].name = target[r].path
              BY <3>7, <4>2, <5>2, <6>3 DEF Fresh
            <7>2. pending[r] # None => pending[r].name = users[i].name
              BY <1>0, <3>7, <6>3 DEF PendingOf
            <7> QED BY <4>1, <6>3, <7>1, <7>2 DEF PathOf
          <6> QED BY <4>2, <6>1, <6>2, <6>3
        <5> QED BY <2>1, <5>4, <5>5, <5>6
      <4> QED BY <4>4, <4>5
    <3> QED BY <1>4, <3>4, <3>5, <3>6, <3>7
  <2> QED BY <2>4, <2>5 DEF AvatarFollowsUser, SavingOK
<1>5. CASE UNCHANGED userVars
  BY <1>5 DEF userVars, AvatarFollowsUser, SavingOK, Saving, Saved, Saves, PathOf, Alone
<1>6. ASSUME NEW r \in Reqs, Act(r) PROVE AvatarFollowsUser' /\ SavingOK'
  BY <1>1, <1>2, <1>3, <1>4, <1>6 DEF Act, Quiet
<1> QED BY <1>5, <1>6, NextActs

LEMMA AvatarsBegin == Start => AvatarFollowsUser /\ SavingOK
BY DEF Start, AvatarFollowsUser, SavingOK, Saving

\* A user's avatar follows it: the picture its last edit saved is under its name
\* through renames and exchanges of names, but where an avatar was written by
\* another's request, or by one that failed or was overtaken.
THEOREM AvatarsFollow == Spec => []AvatarFollowsUser
<1>1. RowsOK /\ FreshOK /\ AvatarFollowsUser /\ SavingOK /\ [Next]_userVars =>
        (RowsOK /\ FreshOK /\ AvatarFollowsUser /\ SavingOK)'
  BY RowsStep, FreshStep, AvatarsStep
<1> QED BY <1>1, Begins, FreshBegins, AvatarsBegin, PTL DEF Spec

-----------------------------------------------------------------------------
(* Credentials.                                                             *)

-----------------------------------------------------------------------------
(* The inductive invariant.                                                 *)

\* The salts of current passwords have been drawn, for one password each, and
\* outdate no link that was mailed for them.
SaltsOK ==
    /\ \A i \in Holders : accounts[i] # None =>
          /\ i \in used
          /\ accounts[i].salt <= drawn /\ accounts[i].hash <= drawn
          /\ accounts[i].salt \notin outdated
    /\ \A i, j \in Holders : accounts[i] # None /\ accounts[j] # None /\ i # j =>
          accounts[i].salt # accounts[j].salt

\* The row a request writes is good only where the row it read was, or it was asked for.
Grants(old, asked, new) ==
    /\ new.enabled => old.enabled \/ asked.enabled = TRUE
    /\ new.until <= old.until \/ asked.until = 1

\* What a request has read holds until another commits; the user of a token for good.
ReadsOK(r) ==
    /\ at[r] = "password" => op[r].user \in Holders /\ (late[r] \/ op[r].link \notin outdated)
    /\ at[r] = "new token" =>
          op[r].user \in Holders /\ op[r].enabled \in BOOLEAN /\ op[r].until \in {0, 1}
    /\ at[r] = "token" =>
          /\ op[r].token \in Uuids \cap used /\ op[r].row \in TokenRows
          /\ tokens[op[r].token] # None => tokens[op[r].token].user = op[r].row.user
          /\ late[r] \/ /\ tokens[op[r].token] # None
                         /\ Grants(tokens[op[r].token], op[r].asked, op[r].row)

CInv ==
    /\ CredentialsTypeOK /\ SaltsOK
    /\ \A t \in Uuids : tokens[t] # None => t \in used
    /\ \A r \in Reqs : ReadsOK(r)

LEMMA Starts ==
    ASSUME Constants, NEW first, NEW issued, Possible(first, issued), CredentialsStart(first, issued)
    PROVE  CInv
<1>1. drawn \in 0..MaxDraw /\ MaxDraw \in Nat
  BY DEF CredentialsStart, Constants
<1>2. ASSUME NEW i \in Holders, accounts[i] # None
      PROVE  /\ accounts[i] \in AccountRows /\ accounts[i].salt <= drawn /\ accounts[i].hash <= drawn
             /\ i \in used
  <2>1. accounts[i] \in AccountRows
    BY <1>2 DEF CredentialsStart, Possible
  <2>2. accounts[i].salt \in 1..MaxDraw /\ accounts[i].hash \in 1..MaxDraw
    BY <2>1 DEF AccountRows
  <2>3. \A n \in 1..MaxDraw : n \in {accounts[i].hash, accounts[i].salt} => n <= drawn
    BY <1>2 DEF CredentialsStart
  <2>4. i \in used
    BY <1>2 DEF CredentialsStart
  <2> QED BY <2>1, <2>2, <2>3, <2>4
<1>3. CredentialsTypeOK
  <2>1. accounts \in [Holders -> AccountRows \cup {None}] /\ tokens \in [Uuids -> TokenRows \cup {None}]
    BY DEF CredentialsStart, Possible
  <2>2. clock \in {0, 1} /\ came \in 0..MaxAsks /\ used \subseteq Holders \cup Uuids
    BY DEF CredentialsStart, Constants
  <2>3. mailed = {} /\ outdated = {}
    BY DEF CredentialsStart
  <2>4. op \in [Reqs -> Ops]
    BY DEF CredentialsStart, NoOp, Ops
  <2>5. /\ at \in [Reqs -> {"idle", "password", "named password", "new token", "token"}]
        /\ late \in [Reqs -> BOOLEAN]
    BY DEF CredentialsStart
  <2>6. /\ \A i, j \in Holders : accounts[i] # None /\ accounts[j] # None /\ i # j =>
                                accounts[i].name # accounts[j].name
        /\ \A t \in Uuids : tokens[t] # None => accounts[tokens[t].user] # None
    BY DEF CredentialsStart, Possible
  <2> QED BY <1>1, <2>1, <2>2, <2>3, <2>4, <2>5, <2>6 DEF CredentialsTypeOK
<1>4. SaltsOK
  <2>1. outdated = {}
    BY DEF CredentialsStart
  <2>2. \A i, j \in Holders : accounts[i] # None /\ accounts[j] # None /\ i # j =>
          accounts[i].salt # accounts[j].salt
    BY DEF CredentialsStart, Possible
  <2> QED BY <1>2, <2>1, <2>2 DEF SaltsOK
<1>5. /\ \A t \in Uuids : tokens[t] # None => t \in used
      /\ \A r \in Reqs : ReadsOK(r)
  BY DEF CredentialsStart, ReadsOK
<1> QED BY <1>3, <1>4, <1>5 DEF CInv

-----------------------------------------------------------------------------
(* A request begins, or ends without a change.                              *)

LEMMA OneMore ==
    ASSUME NEW m \in Nat, NEW n \in 0..m, n < m
    PROVE  n + 1 \in 0..m /\ n + 1 \in 1..m /\ n + 1 >= n
OBVIOUS

LEMMA BeginKeeps ==
    ASSUME Constants, CInv, NEW r \in Reqs, NEW asked \in Ops,
           NEW label \in {"password", "named password", "new token", "token"},
           Begin(r, label, asked),
           label = "password" => asked.user \in Holders /\ asked.link \notin outdated,
           label = "new token" =>
               asked.user \in Holders /\ asked.enabled \in BOOLEAN /\ asked.until \in {0, 1},
           label = "token" =>
               /\ asked.token \in Uuids /\ asked.row \in TokenRows
               /\ tokens[asked.token] # None
               /\ tokens[asked.token].user = asked.row.user
               /\ Grants(tokens[asked.token], asked.asked, asked.row)
    PROVE  CInv'
<1>0. /\ op \in [Reqs -> Ops] /\ late \in [Reqs -> BOOLEAN]
      /\ at \in [Reqs -> {"idle", "password", "named password", "new token", "token"}]
      /\ came \in 0..MaxAsks
  BY DEF CInv, CredentialsTypeOK
<1>1. /\ accounts' = accounts /\ tokens' = tokens /\ clock' = clock /\ drawn' = drawn /\ used' = used
      /\ mailed' = mailed /\ outdated' = outdated
  BY DEF Begin
<1>2. /\ op'[r] = asked /\ at'[r] = label /\ ~late'[r]
      /\ \A q \in Reqs \ {r} : op'[q] = op[q] /\ at'[q] = at[q] /\ late'[q] = late[q]
  BY <1>0 DEF Begin
<1>3. CredentialsTypeOK'
  <2>1. came' \in 0..MaxAsks
    <3>1. came' = came + 1 /\ came < MaxAsks
      BY DEF Begin
    <3>2. MaxAsks \in Nat
      BY DEF Constants
    <3>3. came \in 0..MaxAsks
      BY <1>0
    <3> QED BY <3>1, <3>2, <3>3, OneMore
  <2>2. op' \in [Reqs -> Ops] /\ late' \in [Reqs -> BOOLEAN]
    BY <1>0 DEF Begin
  <2>3. at' \in [Reqs -> {"idle", "password", "named password", "new token", "token"}]
    BY <1>0 DEF Begin
  <2> QED BY <1>1, <2>1, <2>2, <2>3 DEF CInv, CredentialsTypeOK
<1>4. SaltsOK' /\ \A t \in Uuids : tokens'[t] # None => t \in used'
  BY <1>1 DEF CInv, SaltsOK
<1>5. ASSUME NEW q \in Reqs PROVE ReadsOK(q)'
  <2>1. CASE q # r
    BY <1>1, <1>2, <2>1 DEF CInv, ReadsOK, Grants
  <2>2. CASE q = r
    BY <1>1, <1>2, <2>2 DEF CInv, ReadsOK, Grants
  <2> QED BY <2>1, <2>2
<1> QED BY <1>3, <1>4, <1>5 DEF CInv

LEMMA StillKeeps ==
    ASSUME CInv, UNCHANGED <<accounts, tokens, drawn, used, outdated>>,
           clock' \in {0, 1}, mailed' \subseteq 1..drawn, came' \in 0..MaxAsks,
           at' \in [Reqs -> {"idle", "password", "named password", "new token", "token"}],
           op' \in [Reqs -> Ops], late' \in [Reqs -> BOOLEAN],
           \A q \in Reqs : \/ at'[q] = "idle"
                           \/ at'[q] = at[q] /\ op'[q] = op[q] /\ late'[q] = late[q]
    PROVE  CInv'
<1>1. CredentialsTypeOK'
  BY DEF CInv, CredentialsTypeOK
<1>2. SaltsOK' /\ \A t \in Uuids : tokens'[t] # None => t \in used'
  BY DEF CInv, SaltsOK
<1>3. ASSUME NEW q \in Reqs PROVE ReadsOK(q)'
  <2>1. CASE at'[q] = "idle"
    BY <2>1 DEF ReadsOK
  <2>2. CASE at'[q] = at[q] /\ op'[q] = op[q] /\ late'[q] = late[q]
    <3>1. ReadsOK(q) /\ tokens' = tokens /\ used' = used /\ outdated' = outdated
      BY DEF CInv
    <3> QED BY <2>2, <3>1 DEF ReadsOK, Grants
  <2> QED BY <2>1, <2>2
<1> QED BY <1>1, <1>2, <1>3 DEF CInv

-----------------------------------------------------------------------------
(* A commit: passwords stay or are drawn anew, one at a time; tokens stay    *)
(* their users' or come under a new UUID.                                    *)

SameSecret(i) ==
    accounts[i] # None /\ accounts'[i].hash = accounts[i].hash /\ accounts'[i].salt = accounts[i].salt

NewSecret(i) ==
    /\ accounts'[i].hash = drawn + 1 /\ accounts'[i].salt = drawn + 1 /\ drawn' = drawn + 1
    /\ i \in used'

Renewal ==
    /\ accounts' \in [Holders -> AccountRows \cup {None}]
    /\ tokens' \in [Uuids -> TokenRows \cup {None}]
    /\ used \subseteq used' /\ used' \subseteq Holders \cup Uuids
    /\ drawn' \in 0..MaxDraw /\ drawn' >= drawn
    /\ \A i \in Holders : accounts'[i] # None => SameSecret(i) \/ NewSecret(i)
    /\ \A i, j \in Holders : accounts'[i] # None /\ accounts'[j] # None /\ i # j =>
          accounts'[i].name # accounts'[j].name /\ (SameSecret(i) \/ SameSecret(j))
    /\ \A t \in Uuids : tokens'[t] # None =>
          /\ t \in used' /\ accounts'[tokens'[t].user] # None
          /\ t \notin used \/ (tokens[t] # None /\ tokens'[t].user = tokens[t].user)

EndOrStay ==
    /\ came' = came
    /\ at' \in [Reqs -> {"idle", "password", "named password", "new token", "token"}]
    /\ op' \in [Reqs -> Ops]
    /\ \A q \in Reqs : at'[q] = "idle" \/ (at'[q] = at[q] /\ op'[q] = op[q])

LEMMA CommitKeeps ==
    ASSUME Constants, CInv, Committed, Renewal, EndOrStay
    PROVE  CInv'
<1>d. drawn \in Nat /\ drawn' \in Nat /\ drawn' >= drawn
  <2>1. drawn \in 0..MaxDraw /\ drawn' \in 0..MaxDraw /\ drawn' >= drawn
    BY DEF Renewal, CInv, CredentialsTypeOK
  <2>2. MaxDraw \in Nat
    BY DEF Constants
  <2> QED BY <2>1, <2>2
<1>s. \A i \in Holders : accounts[i] # None =>
          accounts[i].salt \in 1..drawn /\ accounts[i].hash \in 1..drawn
  <2> SUFFICES ASSUME NEW i \in Holders, accounts[i] # None
               PROVE accounts[i].salt \in 1..drawn /\ accounts[i].hash \in 1..drawn
    OBVIOUS
  <2>1. accounts[i] \in AccountRows
    BY DEF CInv, CredentialsTypeOK
  <2>2. accounts[i].salt \in 1..MaxDraw /\ accounts[i].hash \in 1..MaxDraw
    BY <2>1 DEF AccountRows
  <2>3. accounts[i].salt <= drawn /\ accounts[i].hash <= drawn
    BY DEF CInv, SaltsOK
  <2> QED BY <1>d, <2>2, <2>3
<1>o. outdated' = outdated \cup
          {accounts[i].salt : i \in {j \in Holders :
              accounts[j] # None /\ (accounts'[j] = None \/ accounts'[j].hash # accounts[j].hash)}}
  BY DEF Committed
<1>1. CredentialsTypeOK'
  <2>1. outdated' \subseteq 1..drawn
    BY <1>o, <1>s DEF CInv, CredentialsTypeOK
  <2>2. 1..drawn \subseteq 1..drawn'
    BY <1>d
  <2>3. clock' = clock /\ mailed' = mailed /\ late' = [s \in Reqs |-> at[s] # "idle"]
    BY DEF Committed
  <2>4. late' \in [Reqs -> BOOLEAN]
    BY <2>3
  <2>5. mailed' \subseteq 1..drawn' /\ outdated' \subseteq 1..drawn'
    BY <2>1, <2>2, <2>3 DEF CInv, CredentialsTypeOK
  <2> QED BY <2>3, <2>4, <2>5 DEF CInv, CredentialsTypeOK, Renewal, EndOrStay
<1>2. ASSUME NEW i \in Holders, accounts'[i] # None
      PROVE  /\ i \in used' /\ accounts'[i].salt <= drawn' /\ accounts'[i].hash <= drawn'
             /\ accounts'[i].salt \notin outdated'
  <2>1. CASE SameSecret(i)
    <3>1. i \in used' /\ accounts[i].salt \notin outdated
      BY <2>1 DEF SameSecret, CInv, SaltsOK, Renewal
    <3>2. accounts'[i].salt <= drawn' /\ accounts'[i].hash <= drawn'
      BY <1>d, <1>s, <2>1 DEF SameSecret
    <3>3. ASSUME NEW j \in Holders, accounts[j] # None,
                 accounts'[j] = None \/ accounts'[j].hash # accounts[j].hash
          PROVE  accounts[j].salt # accounts[i].salt
      <4>1. i # j
        BY <1>2, <2>1, <3>3 DEF SameSecret
      <4> QED BY <2>1, <3>3, <4>1 DEF SameSecret, CInv, SaltsOK
    <3>4. accounts[i].salt \notin outdated'
      BY <1>o, <3>1, <3>3
    <3> QED BY <2>1, <3>1, <3>2, <3>4 DEF SameSecret
  <2>2. CASE NewSecret(i)
    <3>1. drawn + 1 \notin outdated'
      <4>1. drawn + 1 \notin 1..drawn
        BY <1>d
      <4> QED BY <1>o, <1>s, <4>1 DEF CInv, CredentialsTypeOK
    <3> QED BY <1>d, <2>2, <3>1 DEF NewSecret
  <2> QED BY <1>2, <2>1, <2>2 DEF Renewal
<1>3. ASSUME NEW i \in Holders, NEW j \in Holders, accounts'[i] # None, accounts'[j] # None, i # j
      PROVE  accounts'[i].salt # accounts'[j].salt
  <2>1. drawn + 1 \notin 1..drawn
    BY <1>d
  <2>2. CASE SameSecret(i) /\ SameSecret(j)
    BY <1>3, <2>2 DEF SameSecret, CInv, SaltsOK
  <2>3. CASE SameSecret(i) /\ NewSecret(j)
    BY <1>s, <2>1, <2>3 DEF SameSecret, NewSecret
  <2>4. CASE NewSecret(i) /\ SameSecret(j)
    BY <1>s, <2>1, <2>4 DEF SameSecret, NewSecret
  <2> QED BY <1>3, <2>2, <2>3, <2>4 DEF Renewal
<1>4. SaltsOK'
  BY <1>2, <1>3 DEF SaltsOK
<1>5. \A t \in Uuids : tokens'[t] # None => t \in used'
  BY DEF Renewal
<1>6. ASSUME NEW q \in Reqs PROVE ReadsOK(q)'
  <2>1. CASE at'[q] = "idle"
    BY <2>1 DEF ReadsOK
  <2>2. CASE at'[q] # "idle"
    <3>1. at'[q] = at[q] /\ op'[q] = op[q] /\ late'[q]
      BY <2>2 DEF EndOrStay, Committed
    <3>2. ReadsOK(q)
      BY DEF CInv
    <3>3. ASSUME at[q] = "token"
          PROVE  /\ op[q].token \in Uuids \cap used' /\ op[q].row \in TokenRows
                 /\ tokens'[op[q].token] # None => tokens'[op[q].token].user = op[q].row.user
      BY <3>2, <3>3 DEF ReadsOK, Renewal
    <3> QED BY <3>1, <3>2, <3>3 DEF ReadsOK
  <2> QED BY <2>1, <2>2
<1> QED BY <1>1, <1>4, <1>5, <1>6 DEF CInv

-----------------------------------------------------------------------------
(* Each step.                                                               *)

LEMMA EndEnds ==
    ASSUME CInv, NEW r \in Reqs, Finish(r)
    PROVE  EndOrStay
<1>1. NoOp \in Ops
  BY DEF NoOp, Ops
<1> QED BY <1>1 DEF CInv, CredentialsTypeOK, Finish, EndOrStay

LEMMA StayStays ==
    ASSUME CInv, UNCHANGED <<came, at, op>>
    PROVE  EndOrStay
BY DEF CInv, CredentialsTypeOK, EndOrStay

\* A hashed password, for the users of rows, of whom there is at most one.
LEMMA SetPasswordKeeps ==
    ASSUME Constants, CInv, NEW r \in Reqs, NEW rows \in SUBSET Holders, SetPassword(r, rows),
           \A i \in rows : accounts[i] # None,
           \A i, j \in rows : i = j
    PROVE  CInv'
<1>1. drawn' = drawn + 1 /\ drawn < MaxDraw /\ tokens' = tokens /\ used' = used
  BY DEF SetPassword
<1>d. drawn \in 0..MaxDraw /\ MaxDraw \in Nat
  BY DEF CInv, CredentialsTypeOK, Constants
<1>2. drawn + 1 \in 1..MaxDraw /\ drawn' \in 0..MaxDraw /\ drawn' >= drawn
  BY <1>1, <1>d
<1>3. accounts' = [i \in Holders |-> IF i \in rows THEN Hashed(accounts[i]) ELSE accounts[i]]
  BY DEF SetPassword
<1>4. ASSUME NEW i \in rows
      PROVE  /\ Hashed(accounts[i]) \in AccountRows /\ Hashed(accounts[i]).name = accounts[i].name
             /\ Hashed(accounts[i]).hash = drawn + 1 /\ Hashed(accounts[i]).salt = drawn + 1
  <2>1. accounts[i] \in AccountRows
    BY DEF CInv, CredentialsTypeOK
  <2> QED BY <1>2, <2>1 DEF Hashed, AccountRows
<1>n. None \notin AccountRows
  BY DEF Constants
<1>5. \A i \in Holders : accounts'[i] # None => accounts[i] # None /\ accounts'[i].name = accounts[i].name
  BY <1>3, <1>4
<1>6. ASSUME NEW i \in Holders, accounts'[i] # None
      PROVE  IF i \in rows THEN NewSecret(i) ELSE SameSecret(i)
  <2>1. CASE i \in rows
    <3>1. i \in used'
      BY <1>1, <2>1 DEF CInv, SaltsOK
    <3> QED BY <1>1, <1>3, <1>4, <2>1, <3>1 DEF NewSecret
  <2>2. CASE i \notin rows
    BY <1>3, <1>6, <2>2 DEF SameSecret
  <2> QED BY <2>1, <2>2
<1>7. accounts' \in [Holders -> AccountRows \cup {None}]
  BY <1>3, <1>4 DEF CInv, CredentialsTypeOK
<1>8. \A t \in Uuids : tokens'[t] # None => accounts'[tokens'[t].user] # None /\ t \in used'
  BY <1>1, <1>3, <1>4, <1>n DEF CInv, CredentialsTypeOK, TokenRows
<1>9. Renewal
  <2>1. \A i, j \in Holders : accounts'[i] # None /\ accounts'[j] # None /\ i # j =>
          accounts'[i].name # accounts'[j].name /\ (SameSecret(i) \/ SameSecret(j))
    BY <1>5, <1>6 DEF CInv, CredentialsTypeOK
  <2>2. tokens' \in [Uuids -> TokenRows \cup {None}] /\ used' \subseteq Holders \cup Uuids /\ used \subseteq used'
    BY <1>1 DEF CInv, CredentialsTypeOK
  <2> QED BY <1>1, <1>2, <1>6, <1>7, <1>8, <2>1, <2>2 DEF Renewal
<1>10. Committed /\ Finish(r)
  BY DEF SetPassword
<1> QED BY <1>9, <1>10, CommitKeeps, EndEnds


\* A step that is not a request's keeps every row it does not concern.
LEMMA StepKeeps == Constants /\ CInv /\ CredentialsNext => CInv'
<1> SUFFICES ASSUME Constants, CInv, CredentialsNext PROVE CInv'
  OBVIOUS
<1>t. /\ accounts \in [Holders -> AccountRows \cup {None}] /\ tokens \in [Uuids -> TokenRows \cup {None}]
      /\ op \in [Reqs -> Ops] /\ late \in [Reqs -> BOOLEAN] /\ used \subseteq Holders \cup Uuids
      /\ at \in [Reqs -> {"idle", "password", "named password", "new token", "token"}]
      /\ \A t \in Uuids : tokens[t] # None => accounts[tokens[t].user] # None /\ t \in used
      /\ \A i, j \in Holders : accounts[i] # None /\ accounts[j] # None /\ i # j =>
            accounts[i].name # accounts[j].name
  BY DEF CInv, CredentialsTypeOK
<1>n. None \notin AccountRows /\ None \notin TokenRows /\ None \notin Nat
  BY DEF Constants
<1>d. drawn \in 0..MaxDraw /\ MaxDraw \in Nat
  BY DEF CInv, CredentialsTypeOK, Constants
<1>e. drawn \in 0..MaxDraw /\ drawn >= drawn
  BY <1>d
<1>o. None \notin outdated
  <2>1. 1..drawn \subseteq Nat
    BY <1>d
  <2> QED BY <1>n, <2>1 DEF CInv, CredentialsTypeOK
<1>m. mailed \subseteq 1..drawn /\ outdated \subseteq 1..drawn /\ came \in 0..MaxAsks
  BY DEF CInv, CredentialsTypeOK
<1>u. \A t \in Uuids : tokens[t] # None => tokens[t] \in TokenRows /\ tokens[t].user \in Holders
  BY <1>t DEF TokenRows
<1>v. \A i \in Holders : accounts[i] # None => accounts[i] \in AccountRows /\ i \in used
  BY <1>t DEF CInv, SaltsOK
<1>1. ASSUME NEW r \in Reqs, NEW i \in Holders, NEW salt \in mailed, StartReset(r, i, salt) PROVE CInv'
  <2> DEFINE asked == [user |-> i, link |-> salt]
  <2>1. accounts[i] # None /\ accounts[i].salt = salt /\ Begin(r, "password", asked)
    BY <1>1 DEF StartReset
  <2>2. salt \in 1..MaxDraw
    BY <1>d, <1>m
  <2>3. asked \in Ops /\ asked.user = i /\ asked.link = salt
    BY <2>2 DEF Ops
  <2>4. asked.link \notin outdated
    BY <2>1, <2>3 DEF CInv, SaltsOK
  <2> HIDE DEF asked
  <2> QED BY <2>1, <2>3, <2>4, BeginKeeps
<1>2. ASSUME NEW r \in Reqs, NEW i \in Holders, StartChange(r, i) PROVE CInv'
  <2> DEFINE asked == [user |-> i, link |-> None]
  <2>1. Begin(r, "password", asked)
    BY <1>2 DEF StartChange
  <2>2. asked \in Ops /\ asked.user = i /\ asked.link = None
    BY DEF Ops
  <2>3. asked.link \notin outdated
    BY <1>o, <2>2
  <2> HIDE DEF asked
  <2> QED BY <2>1, <2>2, <2>3, BeginKeeps
<1>3. ASSUME NEW r \in Reqs, NEW i \in Holders, StartAdminReset(r, i) PROVE CInv'
  <2> DEFINE asked == [user |-> i, name |-> accounts[i].name]
  <2>1. accounts[i] # None /\ Begin(r, "named password", asked)
    BY <1>3 DEF StartAdminReset
  <2>2. asked \in Ops
    BY <1>t, <2>1 DEF Ops, AccountRows
  <2> HIDE DEF asked
  <2> QED BY <2>1, <2>2, BeginKeeps
<1>4. ASSUME NEW r \in Reqs, NEW i \in Holders, NEW enabled \in BOOLEAN, NEW until \in {0, 1},
             StartToken(r, i, enabled, until)
      PROVE  CInv'
  <2> DEFINE asked == [user |-> i, enabled |-> enabled, until |-> until]
  <2>1. Begin(r, "new token", asked)
    BY <1>4 DEF StartToken
  <2>2. asked \in Ops
    BY DEF Ops
  <2>3. asked.user \in Holders /\ asked.enabled \in BOOLEAN /\ asked.until \in {0, 1}
    OBVIOUS
  <2> HIDE DEF asked
  <2> QED BY <2>1, <2>2, <2>3, BeginKeeps
<1>5. ASSUME NEW r \in Reqs, NEW t \in Uuids, NEW enabled \in BOOLEAN \cup {None},
             NEW until \in {0, 1, None}, StartUpdate(r, t, enabled, until)
      PROVE  CInv'
  <2> DEFINE given == [enabled |-> enabled, until |-> until]
             row == [tokens[t] EXCEPT !.enabled = IF enabled = None THEN @ ELSE enabled,
                                      !.until = IF until = None THEN @ ELSE until]
             asked == [user |-> tokens[t].user, token |-> t, asked |-> given, row |-> row]
  <2>1. tokens[t] # None /\ Begin(r, "token", asked)
    BY <1>5 DEF StartUpdate
  <2>2. tokens[t] \in TokenRows
    BY <1>t, <2>1
  <2>3. /\ row \in TokenRows /\ row.user = tokens[t].user
        /\ row.enabled = (IF enabled = None THEN tokens[t].enabled ELSE enabled)
        /\ row.until = (IF until = None THEN tokens[t].until ELSE until)
    BY <2>2 DEF TokenRows
  <2>4. given \in [enabled : BOOLEAN \cup {None}, until : {0, 1, None}]
        /\ given.enabled = enabled /\ given.until = until
    OBVIOUS
  <2>5. tokens[t].user \in Holders /\ tokens[t].until \in {0, 1} /\ tokens[t].enabled \in BOOLEAN
    BY <2>2 DEF TokenRows
  <2>6. Grants(tokens[t], given, row)
    <3>1. row.enabled => tokens[t].enabled \/ given.enabled = TRUE
      BY <2>3, <2>4
    <3>2. row.until <= tokens[t].until \/ given.until = 1
      BY <2>3, <2>4, <2>5
    <3> QED BY <3>1, <3>2 DEF Grants
  <2> HIDE DEF row, given
  <2>7. asked \in Ops /\ asked.token = t /\ asked.row = row /\ asked.asked = given
    BY <2>3, <2>4, <2>5 DEF Ops
  <2> HIDE DEF asked
  <2> QED BY <2>1, <2>3, <2>6, <2>7, BeginKeeps
<1>6. ASSUME NEW r \in Reqs, GiveUp(r) PROVE CInv'
  <2>1. EndOrStay
    BY <1>6, EndEnds DEF GiveUp
  <2>2. UNCHANGED <<accounts, tokens, clock, drawn, used, mailed, late, outdated>>
    BY <1>6 DEF GiveUp
  <2> QED BY <1>m, <1>t, <2>1, <2>2, StillKeeps DEF EndOrStay, CInv, CredentialsTypeOK
<1>7. ASSUME NEW i \in Holders, RequestReset(i) PROVE CInv'
  <2>1. mailed' = mailed \cup {accounts[i].salt} /\ accounts[i] # None
        /\ UNCHANGED <<accounts, tokens, clock, drawn, used, came, at, op, late, outdated>>
    BY <1>7 DEF RequestReset
  <2>2. accounts[i].salt \in 1..MaxDraw /\ accounts[i].salt <= drawn
    BY <2>1, <1>v DEF AccountRows, CInv, SaltsOK
  <2>3. accounts[i].salt \in 1..drawn
    BY <1>d, <2>2
  <2>4. mailed' \subseteq 1..drawn
    BY <1>m, <2>1, <2>3
  <2> QED BY <1>m, <1>t, <2>1, <2>4, StillKeeps DEF CInv, CredentialsTypeOK
<1>8. CASE Expire
  <2>1. clock' = 1 /\ UNCHANGED <<accounts, tokens, drawn, used, came, mailed, at, op, late, outdated>>
    BY <1>8 DEF Expire
  <2> QED BY <1>m, <1>t, <2>1, StillKeeps
<1>9. ASSUME NEW r \in Reqs, Save(r) PROVE CInv'
  BY <1>9, SetPasswordKeeps DEF Save
<1>10. ASSUME NEW r \in Reqs, SaveNamed(r) PROVE CInv'
  <2>1. \A i, j \in {k \in Holders : accounts[k] # None /\ accounts[k].name = op[r].name} : i = j
    BY <1>t
  <2> QED BY <1>10, <2>1, SetPasswordKeeps DEF SaveNamed
<1>11. ASSUME NEW i \in Holders, NEW n \in Names, Register(i, n) PROVE CInv'
  <2> DEFINE row == [name |-> n, hash |-> drawn + 1, salt |-> drawn + 1]
  <2>1. /\ i \notin used /\ ~Taken(n) /\ drawn < MaxDraw /\ drawn' = drawn + 1 /\ tokens' = tokens
        /\ used' = used \cup {i} /\ Committed /\ UNCHANGED <<came, at, op>>
        /\ accounts' = [accounts EXCEPT ![i] = row]
    BY <1>11 DEF Register
  <2>2. drawn + 1 \in 1..MaxDraw /\ drawn' \in 0..MaxDraw /\ drawn' >= drawn
    BY <1>d, <2>1
  <2>3. row \in AccountRows /\ row # None /\ row.name = n /\ row.hash = drawn + 1 /\ row.salt = drawn + 1
    BY <1>n, <2>2 DEF AccountRows
  <2> HIDE DEF row
  <2>4. accounts'[i] = row /\ \A j \in Holders \ {i} : accounts'[j] = accounts[j]
    BY <1>t, <2>1
  <2>5. NewSecret(i) /\ \A j \in Holders \ {i} : accounts'[j] # None => SameSecret(j)
    BY <2>1, <2>3, <2>4 DEF NewSecret, SameSecret
  <2>6. \A j, k \in Holders : accounts'[j] # None /\ accounts'[k] # None /\ j # k =>
           accounts'[j].name # accounts'[k].name /\ (SameSecret(j) \/ SameSecret(k))
    BY <1>t, <2>1, <2>3, <2>4, <2>5 DEF Taken
  <2>7. accounts' \in [Holders -> AccountRows \cup {None}]
    BY <1>t, <2>1, <2>3
  <2>8. \A t \in Uuids : tokens'[t] # None => accounts'[tokens'[t].user] # None /\ t \in used'
    BY <1>t, <1>u, <2>1, <2>3, <2>4
  <2>9. Renewal
    BY <1>t, <2>1, <2>2, <2>5, <2>6, <2>7, <2>8 DEF Renewal
  <2> QED BY <2>1, <2>9, StayStays, CommitKeeps
<1>12. ASSUME NEW i \in Holders, NEW n \in Names, Rename(i, n) PROVE CInv'
  <2>1. /\ accounts[i] # None /\ ~Taken(n) /\ tokens' = tokens /\ drawn' = drawn /\ used' = used
        /\ Committed /\ UNCHANGED <<came, at, op>>
        /\ accounts' = [accounts EXCEPT ![i].name = n]
    BY <1>12 DEF Rename
  <2>2. accounts'[i] = [accounts[i] EXCEPT !.name = n] /\ \A j \in Holders \ {i} : accounts'[j] = accounts[j]
    BY <1>t, <2>1
  <2>3. /\ accounts'[i] \in AccountRows /\ accounts'[i] # None /\ accounts'[i].name = n
        /\ accounts'[i].hash = accounts[i].hash /\ accounts'[i].salt = accounts[i].salt
    BY <1>n, <1>v, <2>1, <2>2 DEF AccountRows
  <2>4. \A j \in Holders : accounts'[j] # None => SameSecret(j) /\ (j # i => accounts[j] # None)
    BY <2>1, <2>2, <2>3 DEF SameSecret
  <2>5. \A j, k \in Holders : accounts'[j] # None /\ accounts'[k] # None /\ j # k =>
           accounts'[j].name # accounts'[k].name
    BY <1>t, <2>1, <2>2, <2>3, <2>4 DEF Taken
  <2>6. accounts' \in [Holders -> AccountRows \cup {None}]
    BY <1>t, <1>v, <2>1, <2>2, <2>3
  <2>7. \A t \in Uuids : tokens'[t] # None => accounts'[tokens'[t].user] # None /\ t \in used'
    BY <1>t, <1>u, <2>1, <2>2, <2>3
  <2>8. drawn' \in 0..MaxDraw /\ drawn' >= drawn
    BY <1>e, <2>1
  <2>9. Renewal
    BY <1>t, <2>1, <2>4, <2>5, <2>6, <2>7, <2>8 DEF Renewal
  <2> QED BY <2>1, <2>9, StayStays, CommitKeeps
<1>13. ASSUME NEW i \in Holders, DeleteUser(i) PROVE CInv'
  <2>1. /\ drawn' = drawn /\ used' = used /\ Committed /\ UNCHANGED <<came, at, op>>
        /\ accounts' = [accounts EXCEPT ![i] = None]
        /\ tokens' = [t \in Uuids |->
               IF tokens[t] # None /\ tokens[t].user = i THEN None ELSE tokens[t]]
    BY <1>13 DEF DeleteUser
  <2>2. \A j \in Holders : accounts'[j] # None => accounts'[j] = accounts[j]
    BY <1>t, <2>1
  <2>3. \A t \in Uuids : tokens'[t] # None => tokens'[t] = tokens[t] /\ tokens[t].user # i
    BY <2>1
  <2>4. /\ accounts' \in [Holders -> AccountRows \cup {None}] /\ tokens' \in [Uuids -> TokenRows \cup {None}]
    BY <1>t, <2>1
  <2>5. \A t \in Uuids : tokens'[t] # None => accounts'[tokens'[t].user] # None /\ t \in used'
    BY <1>t, <1>u, <2>1, <2>3
  <2>6. drawn' \in 0..MaxDraw /\ drawn' >= drawn
    BY <1>e, <2>1
  <2>7. Renewal
    BY <1>t, <2>1, <2>2, <2>3, <2>4, <2>5, <2>6 DEF Renewal, SameSecret
  <2> QED BY <2>1, <2>7, StayStays, CommitKeeps
<1>14. ASSUME NEW r \in Reqs, NEW t \in Uuids, CreateToken(r, t) PROVE CInv'
  <2> DEFINE row == [user |-> op[r].user, enabled |-> op[r].enabled, until |-> op[r].until]
  <2>1. /\ at[r] = "new token" /\ t \notin used /\ accounts[op[r].user] # None
        /\ used' = used \cup {t} /\ accounts' = accounts /\ drawn' = drawn /\ Committed /\ Finish(r)
        /\ tokens' = [v \in Uuids |->
               IF v = t THEN row
               ELSE IF tokens[v] # None /\ tokens[v].user = op[r].user /\ Revoked(tokens[v]) THEN None
               ELSE tokens[v]]
    BY <1>14 DEF CreateToken
  <2>2. row \in TokenRows /\ row.user = op[r].user
    BY <2>1 DEF CInv, ReadsOK, TokenRows
  <2> HIDE DEF row
  <2>3. /\ tokens'[t] = row
        /\ \A v \in Uuids \ {t} : tokens'[v] # None => tokens'[v] = tokens[v]
    BY <2>1
  <2>4. tokens' \in [Uuids -> TokenRows \cup {None}]
    BY <1>t, <2>1, <2>2
  <2>5. \A v \in Uuids : tokens'[v] # None =>
          /\ v \in used' /\ accounts'[tokens'[v].user] # None
          /\ v \notin used \/ (tokens[v] # None /\ tokens'[v].user = tokens[v].user)
    BY <1>t, <2>1, <2>2, <2>3
  <2>6. drawn' \in 0..MaxDraw /\ drawn' >= drawn
    BY <1>e, <2>1
  <2>7. Renewal
    BY <1>t, <2>1, <2>4, <2>5, <2>6 DEF Renewal, SameSecret
  <2> QED BY <2>1, <2>7, EndEnds, CommitKeeps
<1>15. ASSUME NEW r \in Reqs, UpdateToken(r) PROVE CInv'
  <2>1. /\ at[r] = "token" /\ tokens[op[r].token] # None
        /\ accounts' = accounts /\ drawn' = drawn /\ used' = used /\ Committed /\ Finish(r)
        /\ tokens' = [tokens EXCEPT ![op[r].token] = op[r].row]
    BY <1>15 DEF UpdateToken
  <2>2. op[r].token \in Uuids /\ op[r].row \in TokenRows /\ op[r].row.user = tokens[op[r].token].user
    BY <2>1 DEF CInv, ReadsOK
  <2>3. tokens' \in [Uuids -> TokenRows \cup {None}]
    BY <1>t, <2>1, <2>2
  <2>4. \A v \in Uuids : tokens'[v] # None =>
          tokens[v] # None /\ tokens'[v].user = tokens[v].user
    BY <1>t, <2>1, <2>2
  <2>5. drawn' \in 0..MaxDraw /\ drawn' >= drawn
    BY <1>e, <2>1
  <2>6. Renewal
    BY <1>t, <2>1, <2>3, <2>4, <2>5 DEF Renewal, SameSecret
  <2> QED BY <2>1, <2>6, EndEnds, CommitKeeps
<1>16. ASSUME NEW t \in Uuids, DeleteToken(t) PROVE CInv'
  <2>1. /\ accounts' = accounts /\ drawn' = drawn /\ used' = used /\ Committed
        /\ UNCHANGED <<came, at, op>> /\ tokens' = [tokens EXCEPT ![t] = None]
    BY <1>16 DEF DeleteToken
  <2>2. \A v \in Uuids : tokens'[v] # None => tokens'[v] = tokens[v]
    BY <1>t, <2>1
  <2>3. drawn' \in 0..MaxDraw /\ drawn' >= drawn /\ tokens' \in [Uuids -> TokenRows \cup {None}]
    BY <1>e, <1>t, <2>1
  <2>4. Renewal
    BY <1>t, <2>1, <2>2, <2>3 DEF Renewal, SameSecret
  <2> QED BY <2>1, <2>4, StayStays, CommitKeeps
<1> QED BY <1>1, <1>2, <1>3, <1>4, <1>5, <1>6, <1>7, <1>8, <1>9, <1>10, <1>11, <1>12, <1>13,
           <1>14, <1>15, <1>16 DEF CredentialsNext

LEMMA InvHolds ==
    ASSUME Constants, NEW CONSTANT first, NEW CONSTANT issued, Possible(first, issued)
    PROVE  CredentialsSpec(first, issued) => []CInv
<1>1. CredentialsStart(first, issued) => CInv
  BY Starts
<1>2. CInv /\ [CredentialsNext]_credVars => CInv'
  <2>1. CASE CredentialsNext
    BY <2>1, StepKeeps
  <2>2. ASSUME CInv, UNCHANGED credVars PROVE CInv'
    BY <2>2, StillKeeps DEF credVars, CInv, CredentialsTypeOK
  <2> QED BY <2>1, <2>2
<1> QED BY <1>1, <1>2, PTL DEF CredentialsSpec

-----------------------------------------------------------------------------
(* The theorems.                                                            *)

\* Types, unique names, and no token without its user, whatever is deleted meanwhile.
THEOREM CredentialsTypeCorrect ==
    ASSUME Constants, NEW CONSTANT first, NEW CONSTANT issued, Possible(first, issued)
    PROVE  CredentialsSpec(first, issued) => []CredentialsTypeOK
<1>1. CInv => CredentialsTypeOK
  BY DEF CInv
<1> QED BY <1>1, InvHolds, PTL

\* A step that ends a password's setting and changes users is its commit.
LEMMA ResetStep ==
    ASSUME CInv, NEW r \in Reqs,
           at[r] = "password", at'[r] = "idle", accounts' # accounts, ~late[r]
    PROVE  op[r].link \notin outdated
BY DEF CInv, ReadsOK

\* A row that exists is replaced by another only in an update.
LEMMA OnlyUpdate ==
    ASSUME CInv, [CredentialsNext]_credVars, NEW t \in Uuids,
           tokens[t] # None, tokens'[t] # None, tokens'[t] # tokens[t]
    PROVE  \E r \in Reqs : UpdateToken(r) /\ op[r].token = t
<1>t. tokens \in [Uuids -> TokenRows \cup {None}] /\ t \in used
  BY DEF CInv, CredentialsTypeOK
<1>1. ASSUME NEW r \in Reqs, NEW u \in Uuids, CreateToken(r, u) PROVE FALSE
  <2>1. u \notin used
    BY <1>1 DEF CreateToken
  <2> QED BY <1>1, <1>t, <2>1 DEF CreateToken
<1>2. ASSUME NEW i \in Holders, DeleteUser(i) PROVE FALSE
  BY <1>2 DEF DeleteUser
<1>3. ASSUME NEW u \in Uuids, DeleteToken(u) PROVE FALSE
  BY <1>3, <1>t DEF DeleteToken
<1>4. ASSUME NEW r \in Reqs, UpdateToken(r) PROVE op[r].token = t
  BY <1>4, <1>t DEF UpdateToken
<1>5. CASE UNCHANGED tokens
  BY <1>5
<1>6. UNCHANGED credVars => UNCHANGED tokens
  BY DEF credVars
<1>7. ASSUME NEW r \in Reqs, NEW label, NEW asked, Begin(r, label, asked) PROVE UNCHANGED tokens
  BY <1>7 DEF Begin
<1>8. CASE CredentialsNext
  BY <1>1, <1>2, <1>3, <1>4, <1>5, <1>7, <1>8
     DEF CredentialsNext, StartReset, StartChange, StartAdminReset, StartToken, StartUpdate,
         GiveUp, RequestReset, Expire, Save, SaveNamed, SetPassword, Register, Rename
<1> QED BY <1>5, <1>6, <1>8

LEMMA UpdateGrants ==
    ASSUME CInv, NEW r \in Reqs, UpdateToken(r), NEW t \in Uuids, op[r].token = t,
           Revoked(tokens[t]), ~Revoked(tokens'[t])
    PROVE  /\ at[r] = "token" /\ at'[r] = "idle"
           /\ late[r] \/ op[r].asked.enabled = TRUE \/ op[r].asked.until = 1
<1>1. /\ at[r] = "token" /\ at'[r] = "idle" /\ tokens[t] # None /\ tokens'[t] = op[r].row
  BY DEF UpdateToken, Finish, CInv, CredentialsTypeOK
<1>2. tokens[t] \in TokenRows /\ op[r].row \in TokenRows /\ clock \in {0, 1}
  BY <1>1 DEF CInv, CredentialsTypeOK, ReadsOK
<1>3. /\ tokens[t].until \in {0, 1} /\ op[r].row.until \in {0, 1}
  BY <1>2 DEF TokenRows
<1>4. late[r] \/ Grants(tokens[t], op[r].asked, op[r].row)
  BY <1>1 DEF CInv, ReadsOK
<1>5. op[r].row.enabled /\ ~(op[r].row.until < clock)
  BY <1>1 DEF Revoked
<1>6. CASE ~tokens[t].enabled
  BY <1>1, <1>4, <1>5, <1>6 DEF Grants
<1>7. CASE tokens[t].until < clock
  <2>1. ~(op[r].row.until <= tokens[t].until)
    BY <1>2, <1>3, <1>5, <1>7
  <2> QED BY <1>1, <1>4, <2>1 DEF Grants
<1> QED BY <1>6, <1>7 DEF Revoked

\* A reset link is good for the password it was mailed for and no later one; a
\* disabled or expired token is good again only by a request that asks for it; both
\* unless another request commits between a request's reading and its writing.
THEOREM RevokedStaysRevoked ==
    ASSUME Constants, NEW CONSTANT first, NEW CONSTANT issued, Possible(first, issued)
    PROVE  CredentialsSpec(first, issued) => RevocationHolds
<1>1. CInv /\ [CredentialsNext]_credVars =>
        [\A r \in Reqs :
          at[r] = "password" /\ at'[r] = "idle" /\ accounts' # accounts /\ ~late[r] =>
             op[r].link \notin outdated]_credVars
  BY ResetStep
<1>2. ASSUME CInv, [CredentialsNext]_credVars, NEW t \in Uuids,
             tokens[t] # None, Revoked(tokens[t]), tokens'[t] # None, ~Revoked(tokens'[t])
      PROVE  \E r \in Reqs :
                /\ at[r] = "token" /\ at'[r] = "idle" /\ op[r].token = t
                /\ late[r] \/ op[r].asked.enabled = TRUE \/ op[r].asked.until = 1
  <2>1. tokens'[t] # tokens[t]
    BY <1>2
  <2>2. PICK r \in Reqs : UpdateToken(r) /\ op[r].token = t
    BY <1>2, <2>1, OnlyUpdate
  <2> QED BY <1>2, <2>2, UpdateGrants
<1>3. CInv /\ [CredentialsNext]_credVars =>
        [\A t \in Uuids :
          /\ tokens[t] # None /\ Revoked(tokens[t])
          /\ tokens'[t] # None /\ ~Revoked(tokens'[t])
          => \E r \in Reqs :
                /\ at[r] = "token" /\ at'[r] = "idle" /\ op[r].token = t
                /\ late[r] \/ op[r].asked.enabled = TRUE \/ op[r].asked.until = 1]_credVars
  BY <1>2
<1> QED
  BY <1>1, <1>3, InvHolds, PTL DEF CredentialsSpec, RevocationHolds, ResetOnce,
     TokenStaysRevoked
=============================================================================
