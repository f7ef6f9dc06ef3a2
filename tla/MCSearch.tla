------------------------------ MODULE MCSearch ------------------------------
(* Rows, clients and searches of Search on a small instance.                *)
EXTENDS SearchTerms

CONSTANTS guest, u

\* Letters of a text.
A == <<"a">>
B == <<"b">>
C == <<"c">>
AB == <<"a", "b">>
Star == <<"a", "*">>       \* a name with a star
Colon == <<"b", ":">>      \* and one with a colon

MCStart ==
  [post |->
           "id" :> {<<i, i>> : i \in 1..4}
        @@ "tag" :> {<<1, A>>, <<1, B>>, <<1, AB>>, <<2, AB>>, <<3, Star>>, <<3, Colon>>}
        @@ "tag-category" :> {<<1, A>>, <<2, A>>, <<3, C>>}
        @@ "tag-count" :> {<<1, 3>>, <<2, 1>>, <<3, 2>>, <<4, 0>>}
        @@ "safety" :> {<<1, 0>>, <<2, 1>>, <<3, 0>>, <<4, 0>>}
        @@ "score" :> {<<1, 1>>, <<2, 0>>, <<3, 1>>, <<4, 0>>}
        @@ "flag" :> {<<2, 1>>, <<3, 1>>, <<3, 2>>}
        @@ "fav" :> {<<1, u>>, <<2, u>>}
        @@ "fav-count" :> {<<1, 1>>, <<2, 1>>, <<3, 0>>, <<4, 0>>}
        @@ "comment-count" :> {<<1, 0>>, <<2, 0>>, <<3, 1>>, <<4, 0>>}
        @@ "rating" :> {<<1, <<u, 1>>>>, <<3, <<u, 1>>>>}
        @@ "similar" :> {<<1, {}>>, <<2, {1}>>, <<3, {1, 2, 3}>>}
        @@ "source" :> {<<1, A>>, <<2, AB>>}
        @@ "pool" :> {<<1, B>>, <<2, B>>, <<3, <<"1">>>>}
        @@ "pool-id" :> {<<1, 1>>, <<2, 1>>, <<3, 2>>}
        @@ "creation-time" :> {<<1, 2>>, <<2, 3>>, <<3, 4>>, <<4, 5>>},
   tag |->
           "id" :> {<<i, i>> : i \in 1..4}
        @@ "name" :> {<<1, A>>, <<1, AB>>, <<2, B>>, <<3, Star>>, <<3, Colon>>, <<4, C>>}
        @@ "primary-name" :> {<<1, A>>, <<2, B>>, <<3, Star>>, <<4, C>>}
        @@ "implies" :> {<<1, 2>>, <<2, 3>>}
        @@ "usage-count" :> {<<1, 2>>, <<2, 0>>, <<3, 2>>, <<4, 1>>}
        @@ "category" :> {<<1, A>>, <<2, B>>, <<3, A>>, <<4, C>>}
        @@ "creation-time" :> {<<1, 0>>, <<2, 1>>, <<3, 2>>, <<4, 2>>},
   comment |->
           "id" :> {<<i, i>> : i \in 1..3}
        @@ "post" :> {<<1, 1>>, <<2, 2>>, <<3, 2>>}
        @@ "user" :> {<<1, A>>, <<2, B>>},
   snapshot |->
           "id" :> {<<i, i>> : i \in 1..3}
        @@ "time" :> {<<1, 1>>, <<2, 1>>, <<3, 2>>}
        @@ "operation" :> {<<1, 0>>, <<2, 1>>, <<3, 1>>},
   user |->
           "id" :> {<<i, i>> : i \in 1..2} @@ "name" :> {<<1, A>>, <<2, AB>>},
   pool |->
           "id" :> {<<i, i>> : i \in 1..2}
        @@ "name" :> {<<1, B>>, <<2, <<"1">>>>}
        @@ "primary-name" :> {<<1, B>>, <<2, <<"1">>>>}
        @@ "creation-time" :> {<<1, 1>>, <<2, 1>>}
        @@ "post-count" :> {<<1, 2>>, <<2, 1>>}]

MCShuffles == [s \in 0..1 |-> IF s = 0 THEN <<3, 1, 4, 2>> ELSE <<2, 3, 1, 4>>]

MCPrefs ==
    [c \in {guest, u} |-> IF c = u THEN [safeties |-> {}, untagged |-> FALSE, tags |-> {},
                                       categories |-> {}]
                          ELSE [safeties |-> {1}, untagged |-> TRUE, tags |-> {Colon},
                                categories |-> {C}]]

M(a, not, vals) == [attribute |-> a, negated |-> not, vals |-> vals]
By(token, desc) == [token |-> token, desc |-> desc]

\* The first and the second page of a list, and the neighbors of two posts.
List(kind, text, client, means, order) ==
    [n \in 1..2 |-> [what |-> "list", kind |-> kind, text |-> text, client |-> client,
                     means |-> means, order |-> order, offset |-> 2 * (n - 1), limit |-> 2]]
Round(text, means, order) ==
    [n \in 1..2 |-> [what |-> "around", kind |-> "post", text |-> text, client |-> u,
                     means |-> means, order |-> order, post |-> n + 1]]

NotHidden == <<M("safety", TRUE, {1}), M("tag-count", TRUE, {0}), M("tag", TRUE, {Colon}),
               M("tag-category", TRUE, {C})>>
Likes(not) == M("rating", not, {<<u, 1>>})
FromA(not) == M("tag", not, {A, AB, Star})

MCQueries == FlattenSeq(<<
    \* These fail: a sort there is none of, numbers that are none, and a guest's likes.
    List("post", <<"sort", ":", "tag-category">>, u, <<>>, <<>>),
    List("post", <<"score", ":", "a">>, u, <<>>, <<>>),
    List("post", <<"content-checksum", ":", "1", ".", ".", "2">>, u, <<>>, <<>>),
    List("post", <<"special", ":", "liked">>, guest, <<>>, <<>>),
    List("post", <<>>, guest, NotHidden, <<>>),
    List("post", <<"a", "*", " ", "-", "b">>, u, <<FromA(FALSE), M("tag", TRUE, {B})>>, <<>>),
    List("post", <<"-", "a", "\\", "*">>, u, <<M("tag", TRUE, {Star})>>, <<>>),
    List("post", <<"\"", "b", ":", "\"", ",", "A", "b">>, u, <<M("tag", FALSE, {AB, Colon})>>, <<>>),
    List("post", <<"sort", ":", "score", " ", "-", "source", ":", "a">>, u,
         <<M("source", TRUE, {A})>>, <<By("score", TRUE)>>),
    List("post", <<"-", "sort", ":", "score", " ", "creation-time", ":", "1", ",", "2">>, u,
         <<M("creation-time", FALSE, {2, 3, 4, 5})>>, <<By("score", FALSE)>>),
    List("post", <<"creation-time", ":", "2", ".", ".">>, u,
         <<M("creation-time", FALSE, {4, 5})>>, <<>>),
    List("post", <<"pool", ":", "1">>, u, <<M("pool-id", FALSE, {1})>>, <<>>),
    List("post", <<"-", "pool", ":", "b">>, u, <<M("pool", TRUE, {B})>>, <<>>),
    List("post", <<"special", ":", "tumbleweed">>, u,
         <<M("fav-count", FALSE, {0}), M("comment-count", FALSE, {0}), Likes(TRUE)>>, <<>>),
    List("post", <<"special", ":", "liked", " ", "a", "*">>, u, <<Likes(FALSE), FromA(FALSE)>>, <<>>),
    List("post", <<"similar", ":", "2", ",", "9", "8">>, u,
         <<M("similar", FALSE, {{}, {1}})>>, <<>>),
    List("post", <<"score", ":", "0", ".", ".", "0">>, u, <<M("score", FALSE, {0})>>, <<>>),
    List("post", <<"-", "flag", ":", "2", ",", "3">>, u, <<M("flag", TRUE, {2, 3})>>, <<>>),
    List("post", <<"sort", ":", "random">>, u, <<>>, <<>>),
    List("tag", <<"implies", ":", "b", " ", "a">>, u,
         <<M("implies", FALSE, {2}), M("name", FALSE, {A})>>, <<>>),
    List("tag", <<"sort", ":", "usage-count">>, guest,
         <<M("category", TRUE, {C}), M("name", TRUE, {Colon})>>, <<By("usage-count", TRUE)>>),
    List("comment", <<"-", "user", ":", "a">>, guest,
         <<M("post", FALSE, {1}), M("user", TRUE, {A})>>, <<>>),
    List("comment", <<"-", "user", ":", "a">>, u, <<M("user", TRUE, {A})>>, <<>>),
    List("snapshot", <<>>, u, <<>>, <<>>),
    List("user", <<"a", ".", ".">>, u, <<M("name", FALSE, {A, AB})>>, <<>>),
    \* A range whose end is quoted, and the empty text.
    List("user", <<"a", ".", ".", "\"", "\"">>, u, <<M("name", FALSE, {})>>, <<>>),
    List("pool", <<"sort", ":", "name", ",", "asc">>, u, <<>>, <<By("name", FALSE)>>),
    Round(<<>>, <<>>, <<>>),
    Round(<<"a", "*">>, <<FromA(FALSE)>>, <<>>),
    Round(<<"sort", ":", "score">>, <<>>, <<By("score", TRUE)>>),
    Round(<<"sort", ":", "random">>, <<>>, <<>>)>>)

MCAsks == [n \in DOMAIN MCQueries |-> Read(MCQueries[n], MCPrefs[MCQueries[n].client])]

Change(a, d, i) == [kind |-> "post", changes |-> a :> [del |-> d, ins |-> i]]
MCEdits == <<
    Change("tag", {}, {<<4, AB>>}), Change("tag", {<<1, A>>}, {}),
    Change("score", {<<4, 0>>}, {<<4, 2>>}),
    [kind |-> "post", changes |-> [a \in DOMAIN MCStart.post |->
         [del |-> {x \in MCStart.post[a] : x[1] = 1}, ins |-> {}]]]>>
=============================================================================
