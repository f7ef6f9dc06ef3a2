----------------------------- MODULE MCAccounts -----------------------------
(* Users, Credentials, Statistics and Search, each on a small instance.     *)
(* No two of them share state: part says which one a behaviour is about,    *)
(* and the others stay as they began.                                       *)
EXTENDS Users, Credentials, MCSearch

CONSTANTS a, b, x,                \* names and a picture
          k1, k2,                 \* tokens
          p, t, s, v,             \* a post, tags and, with u, users of Statistics
          Parts,                  \* what the run is about
          MaxChanges, Resets      \* of Statistics

VARIABLES
    part,
    \* of Statistics
    db, ins, del, stats, where, times, count, task, todo, read, stale, skewed,
    \* of Search
    data, edits, seed, own, step, ask, plan, match, miss, total, ids, offset, limit, calm

statVars == <<db, ins, del, stats, where, times, count, task, todo, read, stale, skewed>>
searchVars == <<data, edits, seed, own, step, ask, plan, match, miss, total, ids, offset, limit, calm>>

-----------------------------------------------------------------------------
(* Users.                                                                   *)

MCPrivilege == [k \in {"create", "edit", "delete"} |-> 2]

Ask(kind, user, name, rank, pic) ==
    [kind |-> kind, user |-> user, name |-> name, rank |-> rank, pic |-> pic]

MCAsked ==
    {Ask("create", None, a, None, None), Ask("create", None, b, 2, x),
     Ask("update", a, b, None, None), Ask("update", a, None, None, x),
     Ask("update", a, b, 2, x), Ask("update", b, None, 3, None),
     Ask("update", b, a, None, None),
     Ask("delete", a, None, None, None), Ask("delete", b, None, None, None)}

-----------------------------------------------------------------------------
(* Credentials: a user who has a password and perhaps a token, and room for *)
(* another user and token.                                                  *)

FirstAccount == [i \in Holders |-> IF i = 1 THEN [name |-> a, hash |-> 1, salt |-> 1] ELSE None]

FirstToken == [user |-> 1, enabled |-> TRUE, until |-> 1]

Issued(token) == [k \in Uuids |-> IF k = k1 THEN token ELSE None]

\* What AccountsProofs assumes.
ASSUME CredentialsAssumption ==
    /\ Constants
    /\ \A token \in {None, FirstToken} : Possible(FirstAccount, Issued(token))

-----------------------------------------------------------------------------
(* Statistics: a post with a file, a tag and a favorite, and two categories. *)

Tagged(c, k)  == [table |-> "tag_filed", tag |-> c, category |-> k]
Fav(who, k)   == [table |-> "post_favorite", post |-> p, user |-> who, time |-> k]
D(out, in)    == [del |-> out, ins |-> in]

MCRows ==
    {[table |-> "tag_category", id |-> 0], [table |-> "tag_category", id |-> 1],
     [table |-> "tag", id |-> t], [table |-> "tag", id |-> s], Tagged(t, 1), Tagged(s, 0),
     [table |-> "tag_implication", parent |-> t, child |-> s],
     [table |-> "post", id |-> p, user |-> "none"], [table |-> "size", post |-> p, size |-> 2],
     Fav(u, 1), [table |-> "post_tag", post |-> p, tag |-> s]}

MCChanges ==
    {D({}, {Fav(v, 2)}), D({Fav(u, 1)}, {}), D({Fav(v, 2)}, {}),
     D({Tagged(s, 0)}, {Tagged(s, 1)}), D({[table |-> "tag", id |-> t]}, {}),
     D({}, {[table |-> "post_tag", post |-> p, tag |-> t]}),
     D({}, {[table |-> "comment", id |-> v, post |-> p, user |-> v, time |-> 2]})}

MCKeys ==
    [database |-> {0}, comment |-> {}, pool_category |-> {}, pool |-> {},
     tag_category |-> {0, 1}, tag |-> {t, s}, user |-> {}, post |-> {p}]

MCFileSize == [post \in {p} |-> 2]

Stat == INSTANCE Statistics WITH
    MaxReqs <- MaxChanges, Rows <- MCRows, Changes <- MCChanges, Keys <- MCKeys,
    FileSize <- MCFileSize, pc <- where, begun <- count

-----------------------------------------------------------------------------
(* Search.                                                                  *)

Lists == INSTANCE Search WITH
    Asks <- MCAsks, Start <- MCStart, Edits <- MCEdits, MaxEdits <- 1,
    Shuffles <- MCShuffles, Prefs <- MCPrefs, Guest <- guest,
    InitialLimit <- 3, LimitGrowth <- 2, pc <- step, todo <- plan

\* Only random lists of one client depend on each other.
Together ==
    \A r, q \in Reqs : r # q /\ step'[r] # "idle" /\ step'[q] # "idle"
                          => Lists!AtRandom(ask'[r])

-----------------------------------------------------------------------------

MCInit ==
    /\ part \in Parts
    /\ Start
    /\ \E token \in {None, FirstToken} :
          CredentialsStart(FirstAccount, Issued(token))
    /\ Stat!Start
    /\ Lists!InitSearch

MCNext ==
    \/ part = "users" /\ Next /\ UNCHANGED <<part, credVars, statVars, searchVars>>
    \/ part = "credentials" /\ CredentialsNext /\ UNCHANGED <<part, userVars, statVars, searchVars>>
    \/ part = "statistics" /\ Stat!Next /\ UNCHANGED <<part, userVars, credVars, searchVars>>
    \/ /\ part = "search" /\ Lists!NextSearch /\ Together
       /\ UNCHANGED <<part, userVars, credVars, statVars>>

MCSpec == MCInit /\ [][MCNext]_<<part, userVars, credVars, statVars, searchVars>>

-----------------------------------------------------------------------------
(* The properties of each.                                                  *)

\* Every component keeps its types.
TypesOK ==
    CASE part = "users"       -> TypeOK
      [] part = "credentials" -> CredentialsTypeOK
      [] part = "statistics"  -> Stat!TypeOK
      [] part = "search"      -> Lists!TypeOK

StatisticsExact   == part = "statistics" => Stat!StatisticsExact
\* A search that is understood is answered, and a list has what was meant.
ListsExact        == part = "search" => Lists!SearchesAnswered /\ Lists!ListsExact
NeighborsAdjacent == part = "search" => Lists!NeighborsAdjacent
StatisticsReset   == Stat!StatisticsReset

ReqSymmetry == Permutations(Reqs)
=============================================================================
