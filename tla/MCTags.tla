------------------------------- MODULE MCTags -------------------------------
(* TagGraph on two tags and a third that comes, Categories on two           *)
(* categories and a third that comes, with a tag, and PostLinks on three *)
(* posts, with two pools or with relations, a mark and a remark.  The       *)
(* modules share no state that another looks at: part says which one a      *)
(* behaviour is about, and the others stay as they began.                   *)
EXTENDS TagGraph, PostLinks, TLC

CONSTANTS sky, blue, sea, p, q,                        \* names and posts
          MaxId, CategoryNames, NewNames, CategoryTags, \* of Categories
          None, Empty, main, other, more, tag,
          a, b, c, k1, k2, user, text1, text2,          \* of PostLinks
          PoolKinds, LinkKinds                          \* kinds of requests of its parts

VARIABLES part, cats, tags, last, row, move, step, seen, want, overtaken

Cats == INSTANCE Categories WITH
    Names <- CategoryNames, Tags <- CategoryTags, pc <- step, raced <- overtaken

cVars == <<cats, tags, last, row, move, step, seen, want, overtaken>>

\* Nothing yet; two tags, the first implies the second and both are used.
MCStart ==
    LET two == {TagRow(1), TagRow(2), NameRow(1, 0, sky), NameRow(2, 0, blue)}
    IN  {{}, two \cup {Implies(1, 2), Usage(p, 1), Usage(q, 2)}}

MCNameLists == {<<sea>>, <<blue, sea>>}
MCNameSets  == {{sky}, {sea}, {sky, sea}}

\* PostLinks draws the pools k1 and k2, a third post c and a second remark.
MCPostLists == {<<a>>, <<c, a>>}
MCPostSets  == {{b}, {a, c}}

\* Two pools that share a post; or two related posts of a pool, the first of
\* them marked and commented.
Two     == {PostRow(a), PostRow(b), PoolRow(k1)} \cup AddedPosts(k1, 0, <<a, b>>)
MCPools == Two \cup {PostRow(c), PoolRow(k2)} \cup AddedPosts(k2, 0, <<c, b>>)
MCPosts == Two \cup {Mark(a, user), Remark(a, text1)} \cup Pairs(a, {b})
MCLinks == {MCPools, MCPosts}

\* The categories a behaviour begins with, and its tags' categories.
CategoryRows == [i \in 0..MaxId |-> CASE i = 0 -> main [] i = 1 -> other [] OTHER -> None]
FiledTags    == [CategoryTags -> {0, 1}]

ASSUME CategoriesAssumption ==
    Cats!Constants /\ \A filed \in FiledTags : Cats!Possible(CategoryRows, filed)

MCInit ==
    /\ part \in {"graph", "categories", "pools", "links"}
    /\ Init
    /\ part # "graph" => db = {}
    /\ \E filed \in FiledTags : Cats!Start(CategoryRows, filed)
    /\ part # "categories" => tags = [t \in CategoryTags |-> 0]
    /\ LinkStart
    /\ links = IF part = "pools" THEN MCPools ELSE MCPosts

Only(kinds) == \A r \in Calls : asks'[r].kind \in kinds \cup {"none"}

MCNext ==
    \/ part = "graph" /\ Next /\ UNCHANGED <<part, cVars, linkVars>>
    \/ part = "categories" /\ Cats!Next /\ UNCHANGED <<part, vars, linkVars>>
    \/ part = "pools" /\ LinkNext /\ Only(PoolKinds) /\ UNCHANGED <<part, vars, cVars>>
    \/ part = "links" /\ LinkNext /\ Only(LinkKinds) /\ UNCHANGED <<part, vars, cVars>>

MCSpec == MCInit /\ [][MCNext]_<<part, vars, cVars, linkVars>>

TypesOK ==
    CASE part = "graph" -> TypeOK [] part = "categories" -> Cats!TypeOK [] OTHER -> LinkTypeOK

CategoriesByName == Cats!CategoriesByName

ReqSymmetry == Permutations(Reqs)
=============================================================================
