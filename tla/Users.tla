------------------------------- MODULE Users -------------------------------
(***************************************************************************)
(* User accounts (api/user.rs, update/user.rs): registration, ranks, names *)
(* and custom avatars, whose files are named after the user.  A request    *)
(* acts as the user it was authenticated as, with the rank that user had   *)
(* then (auth/header.rs), in one transaction whose statements interleave   *)
(* with those of other requests; files are changed at once.                *)
(*                                                                         *)
(* E-mail addresses, avatar styles and versions are left out: what they    *)
(* decide is whether a transaction aborts.  Passwords are in Credentials.  *)
(***************************************************************************)
EXTENDS Accounts, Naturals

CONSTANTS
    Asked,         \* what requests may ask for
    MaxReqs,       \* bound: the requests of a behaviour
    MaxId,         \* bound: the user IDs a behaviour may draw
    Pics,          \* pictures that users upload
    MaxRank,       \* Administrator; 0 is Anonymous
    DefaultRank,   \* default_user_rank
    Privilege      \* rank required to create, edit and delete other users

Ids   == 1..MaxId
Ranks == 1..MaxRank

\* kind, the user it names, and the new name, rank and picture, if any.
Requests ==
         [kind : {"create"}, user : {None}, name : Names, rank : Ranks \cup {None},
          pic : Pics \cup {None}]
    \cup [kind : {"update"}, user : Names, name : Names \cup {None},
          rank : Ranks \cup {None}, pic : Pics \cup {None}]
    \cup [kind : {"delete"}, user : Names, name : {None}, rank : {None},
          pic : {None}]

ASSUME RankAssumption ==
    /\ MaxRank \in Nat /\ MaxRank > 0
    /\ DefaultRank \in 1..MaxRank
    /\ Asked \subseteq Requests
    /\ Privilege \in [{"create", "edit", "delete"} -> 0..MaxRank]

Rows  == [name : Names, rank : Ranks]

ASSUME BoundAssumption == MaxId \in Nat /\ MaxReqs \in Nat

ASSUME NoneAssumption == None \notin Rows \cup Ids \cup Names \cup Pics \cup Ranks \cup Requests

VARIABLES
    users,      \* committed rows: name and rank
    files,      \* custom avatars on disk: the picture at each name's path
    begun,      \* requests that have come
    next,       \* next user ID of the sequence
    pc,         \* the statement each request is at
    actor,     \* who it acts as: user ID and rank; None if anonymous
    wish,       \* what it asks for
    target,     \* the user it found: ID, and the name of the avatar's path
    pending,    \* the row it has written, not committed; None if none yet
    avatar,     \* history: the picture each user's last committed edit saved
    raced,      \* history: another request committed since it was authenticated
    muddled     \* history: users whose avatars others' requests, or failed or overtaken
                \* ones, have written

userVars == <<users, files, begun, next, pc, actor, wish, target, pending, avatar, raced, muddled>>

NoTarget == [id |-> None, path |-> None]

TypeOK ==
    /\ users \in [Ids -> Rows \cup {None}]
    /\ files \in [Names -> Pics \cup {None}]
    /\ begun \in 0..MaxReqs
    /\ next \in 1..MaxId + 1
    /\ pc \in [Reqs -> {"idle", "begin", "count", "insert", "rank", "write avatar",
                        "avatar", "name", "move", "commit"}]
    /\ actor \in [Reqs -> [id : Ids, rank : Ranks] \cup {None}]
    /\ wish \in [Reqs -> Requests \cup {None}]
    /\ target \in [Reqs -> [id : Ids \cup {None}, path : Names \cup {None}]]
    /\ pending \in [Reqs -> Rows \cup {None}]
    /\ avatar \in [Ids -> Pics \cup {None}]
    /\ raced \in [Reqs -> BOOLEAN]
    /\ muddled \subseteq Ids
    /\ \A i, j \in Ids : users[i] # None /\ users[j] # None /\ i # j =>
                            users[i].name # users[j].name

Start ==
    /\ users = [i \in Ids |-> None]
    /\ files = [n \in Names |-> None]
    /\ begun = 0
    /\ next = 1
    /\ pc = [r \in Reqs |-> "idle"]
    /\ actor = [r \in Reqs |-> None]
    /\ wish = [r \in Reqs |-> None]
    /\ target = [r \in Reqs |-> NoTarget]
    /\ pending = [r \in Reqs |-> None]
    /\ avatar = [i \in Ids |-> None]
    /\ raced = [r \in Reqs |-> FALSE]
    /\ muddled = {}

Goto(r, label) == pc' = [pc EXCEPT ![r] = label]

RankOf(r) == IF actor[r] = None THEN 0 ELSE actor[r].rank

\* verify_privilege: the rank the actor had when it was authenticated.
Allowed(r, rank) == RankOf(r) >= rank

IsSelf(r, i) == actor[r] # None /\ actor[r].id = i

-----------------------------------------------------------------------------
(* Row locks, unique names, ends.                                           *)

Free(r, i) == \A s \in Reqs \ {r} : pending[s] = None \/ target[s].id # i

\* Mutant: only committed rows have names.
NameFreeCommitted(r, i, n) == \A j \in Ids \ {i} : users[j] # None => users[j].name # n

\* No other row, committed or not, has the name or is about to give it up.
NameFree(r, i, n) ==
    /\ \A j \in Ids \ {i} : users[j] # None => users[j].name # n
    /\ \A s \in Reqs \ {r} : pending[s] # None => pending[s].name # n

\* UPDATE "user" SET ... WHERE id: the row as it is now, but for what was written.
Row(r) == IF pending[r] # None THEN pending[r] ELSE users[target[r].id]

Write(r, row) ==
    /\ Free(r, target[r].id)
    /\ pending' = [pending EXCEPT ![r] = row]

\* The request has changed files.
Saving(r) ==
    \/ pc[r] \in {"avatar", "name", "move", "commit"} /\ wish[r].pic # None
    \/ pc[r] = "commit" /\ wish[r].kind = "update" /\ wish[r].name # None

\* Users whose avatars are, or are about to be, at one of these names, but for the
\* request's own.
OthersAt(r, names) ==
    {i \in Ids \ {target[r].id} :
        \/ users[i] # None /\ users[i].name \in names
        \/ \E s \in Reqs : /\ Saving(s) /\ target[s].id = i
                            /\ {target[s].path, wish[s].name} \cap names # {}}

\* The user whose files the request has changed.
Saved(r) == IF Saving(r) THEN {target[r].id} ELSE {}

End(r) ==
    /\ Goto(r, "idle")
    /\ actor' = [actor EXCEPT ![r] = None]
    /\ wish' = [wish EXCEPT ![r] = None]
    /\ target' = [target EXCEPT ![r] = NoTarget]
    /\ pending' = [pending EXCEPT ![r] = None]

Commit(r) ==
    /\ raced' = [s \in Reqs |-> s # r /\ pc[s] # "idle"]
    /\ muddled' = muddled \cup (IF raced[r] THEN Saved(r) ELSE {})
    /\ End(r)

\* A check fails, a file operation fails, the actor is gone or the server stops.
Abort(r) ==
    /\ pc[r] # "idle"
    /\ raced' = [raced EXCEPT ![r] = FALSE]
    /\ muddled' = muddled \cup Saved(r)
    /\ End(r)
    /\ UNCHANGED <<users, files, begun, next, avatar>>

-----------------------------------------------------------------------------
(* Authentication, then the handlers' checks.                               *)

\* The request is authenticated as i, or not at all.
Authenticate(r, i, asked) ==
    /\ pc[r] = "idle" /\ begun < MaxReqs
    /\ begun' = begun + 1
    /\ i # None => users[i] # None
    /\ actor' = [actor EXCEPT ![r] =
                     IF i = None THEN None ELSE [id |-> i, rank |-> users[i].rank]]
    /\ wish' = [wish EXCEPT ![r] = asked]
    /\ Goto(r, "begin")
    /\ UNCHANGED <<users, files, next, target, pending, avatar, raced, muddled>>

\* create_impl: who may create users, and which rank it may ask for.
Create(r) ==
    /\ pc[r] = "begin" /\ wish[r].kind = "create"
    /\ actor[r] # None => Allowed(r, Privilege["create"])
    /\ wish[r].rank # None /\ wish[r].rank > DefaultRank => Allowed(r, wish[r].rank)
    /\ \A i \in Ids : users[i] # None => users[i].name # wish[r].name
    /\ Goto(r, "count")
    /\ UNCHANGED <<users, files, begun, next, actor, wish, target, pending, avatar, raced, muddled>>

\* Mutant: any user may be edited by anyone.
UpdateUnchecked(r) ==
    /\ pc[r] = "begin" /\ wish[r].kind = "update"
    /\ \E i \in Ids :
          /\ users[i] # None /\ users[i].name = wish[r].user
          /\ target' = [target EXCEPT ![r] = [id |-> i, path |-> users[i].name]]
    /\ Goto(r, "rank")
    /\ UNCHANGED <<users, files, begun, next, actor, wish, pending, avatar, raced, muddled>>

\* update_impl: the user, and whether the actor may edit it.
Update(r) ==
    /\ pc[r] = "begin" /\ wish[r].kind = "update"
    /\ \E i \in Ids :
          /\ users[i] # None /\ users[i].name = wish[r].user
          /\ ~IsSelf(r, i) => Allowed(r, users[i].rank) /\ Allowed(r, Privilege["edit"])
          /\ target' = [target EXCEPT ![r] = [id |-> i, path |-> users[i].name]]
    /\ Goto(r, "rank")
    /\ UNCHANGED <<users, files, begun, next, actor, wish, pending, avatar, raced, muddled>>

\* delete: by name, then by ID.  The avatar's file stays.
Delete(r) ==
    /\ pc[r] = "begin" /\ wish[r].kind = "delete"
    /\ \E i \in Ids :
          /\ users[i] # None /\ users[i].name = wish[r].user
          /\ ~IsSelf(r, i) => Allowed(r, Privilege["delete"])
          /\ target' = [target EXCEPT ![r] = [id |-> i, path |-> users[i].name]]
    /\ Goto(r, "commit")
    /\ UNCHANGED <<users, files, begun, next, actor, wish, pending, avatar, raced, muddled>>

-----------------------------------------------------------------------------
(* create.                                                                  *)

\* Mutant: the first two users become administrators.
CountTwo(r) ==
    /\ pc[r] = "count"
    /\ wish' = [wish EXCEPT ![r].rank =
                 IF \A i, j \in Ids : users[i] # None /\ users[j] # None => i = j THEN MaxRank
                 ELSE IF wish[r].rank = None THEN DefaultRank ELSE wish[r].rank]
    /\ Goto(r, "insert")
    /\ UNCHANGED <<users, files, begun, next, actor, target, pending, avatar, raced, muddled>>

\* user_count is read: the first user becomes administrator.
Count(r) ==
    /\ pc[r] = "count"
    /\ wish' = [wish EXCEPT ![r].rank =
                 IF \A i \in Ids : users[i] = None THEN MaxRank
                 ELSE IF wish[r].rank = None THEN DefaultRank ELSE wish[r].rank]
    /\ Goto(r, "insert")
    /\ UNCHANGED <<users, files, begun, next, actor, target, pending, avatar, raced, muddled>>

\* The row; its trigger locks the row of user_count until the transaction ends.
InsertUser(r) ==
    /\ pc[r] = "insert" /\ next <= MaxId
    /\ \A s \in Reqs \ {r} : pending[s] # None => wish[s].kind # "create"
    /\ NameFree(r, next, wish[r].name)
    /\ target' = [target EXCEPT ![r] = [id |-> next, path |-> wish[r].name]]
    /\ pending' = [pending EXCEPT ![r] = [name |-> wish[r].name, rank |-> wish[r].rank]]
    /\ next' = next + 1
    /\ Goto(r, IF wish[r].pic = None THEN "commit" ELSE "write avatar")
    /\ UNCHANGED <<users, files, begun, actor, wish, avatar, raced, muddled>>

-----------------------------------------------------------------------------
(* update, in the order of its statements.                                  *)

\* The rank, if one is asked for; above the default it may not exceed the actor's.
SetRank(r) ==
    /\ pc[r] = "rank"
    /\ \/ wish[r].rank = None /\ UNCHANGED pending
       \/ /\ wish[r].rank # None
          /\ wish[r].rank > DefaultRank => Allowed(r, wish[r].rank)
          /\ IF users[target[r].id] = None
             THEN UNCHANGED pending
             ELSE Write(r, [Row(r) EXCEPT !.rank = wish[r].rank])
    /\ Goto(r, IF wish[r].pic = None THEN "name" ELSE "write avatar")
    /\ UNCHANGED <<users, files, begun, next, actor, wish, target, avatar, raced, muddled>>

\* update::user::avatar: the file is replaced, then the row is updated.
WriteAvatar(r) ==
    /\ pc[r] = "write avatar"
    /\ files' = [files EXCEPT ![target[r].path] = wish[r].pic]
    /\ muddled' = muddled \cup OthersAt(r, {target[r].path})
    /\ Goto(r, "avatar")
    /\ UNCHANGED <<users, begun, next, actor, wish, target, pending, avatar, raced>>

RecordAvatar(r) ==
    /\ pc[r] = "avatar"
    /\ IF Row(r) = None THEN UNCHANGED pending ELSE Write(r, Row(r))
    /\ Goto(r, IF wish[r].kind = "create" THEN "commit" ELSE "name")
    /\ UNCHANGED <<users, files, begun, next, actor, wish, target, avatar, raced, muddled>>

\* The name, whose update fails if the user is gone.
SetName(r) ==
    /\ pc[r] = "name"
    /\ IF wish[r].name = None
       THEN Goto(r, "commit") /\ UNCHANGED pending
       ELSE /\ Row(r) # None
            /\ NameFree(r, target[r].id, wish[r].name)
            /\ Write(r, [Row(r) EXCEPT !.name = wish[r].name])
            /\ Goto(r, "move")
    /\ UNCHANGED <<users, files, begun, next, actor, wish, target, avatar, raced, muddled>>

\* Mutant: the avatar stays at the old name.
MoveNothing(r) ==
    /\ pc[r] = "move"
    /\ Goto(r, "commit")
    /\ UNCHANGED <<users, files, begun, next, actor, wish, target, pending, avatar, raced, muddled>>

\* The avatar follows, over what is at the new name.
MoveAvatar(r) ==
    /\ pc[r] = "move"
    /\ files' = IF files[target[r].path] = None \/ wish[r].name = target[r].path THEN files
                ELSE [files EXCEPT ![wish[r].name] = files[target[r].path],
                                   ![target[r].path] = None]
    /\ muddled' = muddled \cup OthersAt(r, {target[r].path, wish[r].name})
    /\ Goto(r, "commit")
    /\ UNCHANGED <<users, begun, next, actor, wish, target, pending, avatar, raced>>

-----------------------------------------------------------------------------
(* Commits.                                                                 *)

CommitChange(r) ==
    LET i == target[r].id IN
    /\ pc[r] = "commit" /\ wish[r].kind # "delete"
    /\ users' = IF pending[r] = None THEN users ELSE [users EXCEPT ![i] = pending[r]]
    /\ avatar' = IF wish[r].pic = None THEN avatar ELSE [avatar EXCEPT ![i] = wish[r].pic]
    /\ Commit(r)
    /\ UNCHANGED <<files, begun, next>>

CommitDelete(r) ==
    LET i == target[r].id IN
    /\ pc[r] = "commit" /\ wish[r].kind = "delete"
    /\ Free(r, i)
    /\ users' = [users EXCEPT ![i] = None]
    /\ avatar' = [avatar EXCEPT ![i] = None]
    /\ Commit(r)
    /\ UNCHANGED <<files, begun, next>>

Next ==
    \E r \in Reqs :
        \/ \E i \in Ids \cup {None}, asked \in Asked : Authenticate(r, i, asked)
        \/ Create(r)
        \/ Update(r)
        \/ Delete(r)
        \/ Count(r)
        \/ InsertUser(r)
        \/ SetRank(r)
        \/ WriteAvatar(r)
        \/ RecordAvatar(r)
        \/ SetName(r)
        \/ MoveAvatar(r)
        \/ CommitChange(r)
        \/ CommitDelete(r)
        \/ Abort(r)

Spec == Start /\ [][Next]_userVars

-----------------------------------------------------------------------------
(* Properties.                                                              *)

Commits(r) == pc[r] = "commit" /\ pc'[r] = "idle" /\ users' # users

Own(r) == IF actor[r] = None THEN 0 ELSE users[actor[r].id].rank

\* Nobody creates a user of a rank above the default and its own, but for the
\* first user, when no other is there as it commits; unless another request
\* committed meanwhile (user_count is read before the row is inserted).
FirstUserAlone ==
    [][\A r \in Reqs, i \in Ids :
          Commits(r) /\ wish[r].kind = "create" /\ ~raced[r] /\ target[r].id = i =>
             \/ users'[i].rank <= DefaultRank
             \/ users'[i].rank <= Own(r)
             \/ \A j \in Ids : users[j] = None]_userVars

\* Nobody edits a user of a higher rank, nor gives a rank above the default
\* that is higher than its own, by the ranks at commit, unless another request
\* committed after this one was authenticated (ranks are read then).
RanksRespected ==
    [][\A r \in Reqs, i \in Ids :
          Commits(r) /\ ~raced[r] /\ target[r].id = i /\ wish[r].kind = "update" =>
             /\ ~IsSelf(r, i) => users[i].rank <= Own(r)
             /\ users'[i].rank > users[i].rank /\ users'[i].rank > DefaultRank =>
                   users'[i].rank <= Own(r)]_userVars

\* A user's custom avatar is the picture its last edit saved, under its current
\* name, whatever names are given up and taken by others, but for users whose
\* avatar another's request, or one that failed or was overtaken, has written.
AvatarFollowsUser ==
    \A i \in Ids \ muddled :
        users[i] # None /\ avatar[i] # None /\ (\A r \in Reqs : i \notin Saved(r)) =>
            files[users[i].name] = avatar[i]
=============================================================================
