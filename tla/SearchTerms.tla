---------------------------- MODULE SearchTerms ----------------------------
(* How the text of a search becomes filters and sorts (search/parse.rs and  *)
(* SearchCriteria::new of search/mod.rs).  A text is a sequence of its      *)
(* characters; a run of letters that nothing looks into, as the name of a   *)
(* token, is one of them.  A filter is a token, the text                    *)
(* of its condition, still unparsed, and whether it is negated; conditions  *)
(* are parsed when the query is built, by the type of the column.           *)
(*                                                                          *)
(* Left out: letters beyond a few, negative numbers, months and days (a     *)
(* time is a year, which spans two instants).                               *)
EXTENDS Integers, SequencesExt, TLC

Error == [tag |-> "error"]

Digits == <<"0", "1", "2", "3", "4", "5", "6", "7", "8", "9">>

\* CITEXT columns compare in lower case.
Lower(text) == [i \in DOMAIN text |-> IF text[i] = "A" THEN "a" ELSE text[i]]

-----------------------------------------------------------------------------
(* Escapes and quotes.                                                      *)

\* Each character of text is normal, literal (quoted or after a backslash), a
\* quote or an escape.
Scan(text) ==
    LET Next(s, c) ==
          LET as == CASE s.escaped        -> "literal"
                      [] ~s.escaped /\ c = "\\" -> "escape"
                      [] ~s.escaped /\ c = "\"" -> "quote"
                      [] OTHER            -> IF s.quoted THEN "literal" ELSE "normal"
          IN  [escaped |-> as = "escape",
               quoted  |-> IF as = "quote" THEN ~s.quoted ELSE s.quoted,
               out     |-> Append(s.out, [c |-> c, as |-> as])]
    IN  FoldLeft(Next, [escaped |-> FALSE, quoted |-> FALSE, out |-> <<>>], text).out

\* Where the first unescaped c of text is, or 0.
NextSplit(text, c) == SelectInSeq(Scan(text), LAMBDA p : p.as = "normal" /\ p.c = c)

Has(text, c) == NextSplit(text, c) # 0

\* The parts before and after position i, which has a separator of length n.
SplitAt(text, i, n) == <<SubSeq(text, 1, i - 1), SubSeq(text, i + n, Len(text))>>

SplitIf(text, i, n) == IF i = 0 THEN <<text>> ELSE SplitAt(text, i, n)

SplitOnce(text, c) == SplitIf(text, NextSplit(text, c), 1)

\* Nothing follows a separator that ends the text.
RECURSIVE SplitUnescaped(_, _)
SplitUnescaped(text, c) ==
    LET two == SplitOnce(text, c) IN
    IF text = <<>> THEN <<>>
    ELSE <<two[1]>> \o IF Len(two) = 2 THEN SplitUnescaped(two[2], c) ELSE <<>>

\* The two sides of an unescaped "..", or the text alone.
RangeSplit(text) ==
    LET Dots(s, i) == s[i].as = "normal" /\ s[i].c = "." /\ s[i + 1].c = "."
        First(s)   == SelectInSeq([i \in 1..(Len(s) - 1) |-> Dots(s, i)], LAMBDA d : d)
    IN  SplitIf(text, First(Scan(text)), 2)

Characters(s) == [i \in DOMAIN s |-> s[i].c]

Unescape(text) == Characters(SelectSeq(Scan(text), LAMBDA p : p.as \in {"normal", "literal"}))

\* An unescaped star stands for any text; what LIKE would read as a pattern is
\* escaped for it.
ToLikePattern(text) ==
    LET Piece(p) ==
          CASE p.as \in {"quote", "escape"}           -> <<>>
            [] p.as = "normal" /\ p.c = "*"           -> <<"%">>
            [] p.as \in {"normal", "literal"} /\ p.c \in {"\\", "%", "_"} -> <<"\\", p.c>>
            [] OTHER                                  -> <<p.c>>
        scanned == Scan(text)
    IN  FlattenSeq([i \in DOMAIN scanned |-> Piece(scanned[i])])

\* PostgreSQL's LIKE.
RECURSIVE Like(_, _)
Like(pattern, v) ==
    IF pattern = <<>> THEN v = <<>>
    ELSE CASE Head(pattern) = "%" ->
                \/ Like(Tail(pattern), v)
                \/ v # <<>> /\ Like(pattern, Tail(v))
           [] Head(pattern) = "_"  -> v # <<>> /\ Like(Tail(pattern), Tail(v))
           [] Head(pattern) = "\\" ->
                v # <<>> /\ v[1] = pattern[2] /\ Like(SubSeq(pattern, 3, Len(pattern)), Tail(v))
           [] OTHER -> v # <<>> /\ v[1] = Head(pattern) /\ Like(Tail(pattern), Tail(v))

-----------------------------------------------------------------------------
(* Conditions.                                                              *)

\* Plain splits know no escapes: at the first "..", and at every comma.
PlainRange(text) ==
    LET Dots(i) == text[i] = "." /\ text[i + 1] = "."
    IN  SplitIf(text, SelectInSeq([i \in 1..(Len(text) - 1) |-> Dots(i)], LAMBDA d : d), 2)

\* At the first comma, if there is one.
CommaSplit(text) == SplitIf(text, SelectInSeq(text, LAMBDA c : c = ","), 1)

RECURSIVE PlainList(_)
PlainList(text) ==
    LET two == CommaSplit(text)
    IN  <<two[1]>> \o IF Len(two) = 2 THEN PlainList(two[2]) ELSE <<>>

\* The condition of a range, of whose two sides one may be empty; from and to is
\* what is read from them.
Bounds(two, from, to) ==
    CASE two[2] = <<>> -> [tag |-> "ge", from |-> from]
      [] two[2] # <<>> /\ two[1] = <<>> -> [tag |-> "le", to |-> to]
      [] OTHER -> [tag |-> "between", from |-> from, to |-> to]

OneOf(vals) == [tag |-> "in", vals |-> vals]

\* The text of a string column: a wildcard if it has an unescaped star.
StrCondition(text) ==
    LET Values(two, parts) ==
          IF Len(two) = 2 THEN Bounds(two, Unescape(two[1]), Unescape(two[2]))
          ELSE OneOf({Unescape(parts[i]) : i \in DOMAIN parts})
    IN  IF Has(text, "*") THEN [tag |-> "like", pattern |-> ToLikePattern(text)]
        ELSE Values(RangeSplit(text), SplitUnescaped(text, ","))

\* Whether a condition may be met by several values.
Multivalued(text) == Has(text, ",") \/ Has(text, "*") \/ Len(RangeSplit(text)) = 2

\* A natural number, or Bad.
Bad == -1

Number(text) ==
    LET Digit(c) == SelectInSeq(Digits, LAMBDA d : d = c) - 1
    IN  IF text # <<>> /\ \A i \in DOMAIN text : Contains(Digits, text[i])
        THEN FoldLeft(LAMBDA n, c : 10 * n + Digit(c), 0, text) ELSE Bad

\* The text of a column of which only values can be asked for.
ValuesCondition(text) ==
    LET Of(vals) == IF Bad \in vals THEN Error ELSE OneOf(vals)
        parts    == PlainList(text)
    IN  Of({Number(parts[i]) : i \in DOMAIN parts})

\* The text of a column that is no string; it has no escapes.
NumCondition(text) ==
    LET Checked(c) == IF \E side \in DOMAIN c \ {"tag"} : c[side] = Bad THEN Error ELSE c
        Of(two)    == IF Len(two) = 2 THEN Checked(Bounds(two, Number(two[1]), Number(two[2])))
                      ELSE ValuesCondition(text)
    IN  Of(PlainRange(text))

\* A time is a range of times, here a year y of the two instants 2y and 2y+1:
\* a list is of half-open ranges, but a bound is compared with the whole of
\* one, its end included.
Begins(year) == 2 * year
Ends(year)   == 2 * year + 2

OfTimes(c) ==
    CASE c = Error         -> Error
      [] c # Error /\ c.tag = "in" -> OneOf(UNION {Begins(y)..(Ends(y) - 1) : y \in c.vals})
      [] c # Error /\ c.tag = "ge" -> [c EXCEPT !.from = Begins(@)]
      [] c # Error /\ c.tag = "le" -> [c EXCEPT !.to = Ends(@)]
      [] OTHER             -> [c EXCEPT !.from = Begins(@), !.to = Ends(@)]

TimeCondition(text) == OfTimes(NumCondition(text))

\* PostgreSQL's order of texts, up to the collation.
TextLeq(s, t) ==
    \/ IsPrefix(s, t)
    \/ \E i \in DOMAIN s \cap DOMAIN t :
          /\ SubSeq(s, 1, i - 1) = SubSeq(t, 1, i - 1)
          /\ SelectInSeq(<<"a", "b", "c">>, LAMBDA c : c = s[i])
                < SelectInSeq(<<"a", "b", "c">>, LAMBDA c : c = t[i])

\* Whether a column's value v, which is not NULL, meets a condition.
NumMeets(c, v) ==
    CASE c.tag = "in" -> v \in c.vals
      [] c.tag = "ge" -> v >= c.from
      [] c.tag = "le" -> v <= c.to
      [] c.tag = "between" -> c.from <= v /\ v <= c.to

\* lowered: the pattern is lowered by the database, as the column is.
StrMeets(c, v, lowered) ==
    CASE c.tag = "in" -> \E w \in c.vals : Lower(w) = Lower(v)
      [] c.tag = "ge" -> TextLeq(Lower(c.from), Lower(v))
      [] c.tag = "le" -> TextLeq(Lower(v), Lower(c.to))
      [] c.tag = "between" -> TextLeq(Lower(c.from), Lower(v)) /\ TextLeq(Lower(v), Lower(c.to))
      [] c.tag = "like" -> Like(IF lowered THEN Lower(c.pattern) ELSE c.pattern, Lower(v))

-----------------------------------------------------------------------------
(* Terms.                                                                   *)

Word(text) == FoldLeft(LAMBDA w, c : w \o c, "", text)

\* A sort, in parts at the first comma; a minus before it turns it around.
Sort(negated, text, last) ==
    LET stated == Len(last) = 2 /\ Word(last[2]) \in {"asc", "desc"}
    IN  IF Word(text) = "random" THEN [tag |-> "random"]
        ELSE [tag |-> "sort", token |-> Word(IF stated THEN last[1] ELSE text),
              desc |-> (stated => Word(last[2]) = "desc") # negated]

\* One term, in parts at the first unescaped colon: a filter or a sort.
Term(negated, two, anonymous) ==
    IF Len(two) = 2 /\ Word(two[1]) = "sort" THEN Sort(negated, two[2], CommaSplit(two[2]))
    ELSE [tag |-> "filter", negated |-> negated, condition |-> two[Len(two)],
          token |-> IF Len(two) = 2 THEN Word(two[1]) ELSE anonymous]

\* The terms of a text, separated by unescaped blanks.
Terms(text, anonymous) ==
    LET Negated(w) == w[1] = "-"
        Read1(w) == Term(Negated(w), SplitOnce(IF Negated(w) THEN Tail(w) ELSE w, ":"), anonymous)
        ReadAll(words) == [i \in DOMAIN words |-> Read1(words[i])]
    IN  ReadAll(SelectSeq(SplitUnescaped(text, " "), LAMBDA w : w # <<>>))

\* What terms ask for, of a resource that has some tokens.
Criteria(terms, known) ==
    LET Of(tag) == SelectSeq(terms, LAMBDA t : t.tag = tag)
    IN  IF \E i \in DOMAIN terms : terms[i].tag # "random" /\ terms[i].token \notin known THEN Error
        ELSE [filters |-> Of("filter"), sorts |-> Of("sort"), random |-> Of("random") # <<>>]

-----------------------------------------------------------------------------
(* What each kind of resource can be searched by: tokens of columns by the  *)
(* type of their conditions, and tokens of relations, which are cached.     *)

PostTokens ==
    [num  |-> {"id", "file-size", "width", "height", "area", "aspect-ratio", "safety", "type",
               "tag-count", "pool-count", "comment-count", "relation-count", "note-count",
               "fav-count", "feature-count", "score", "content-checksum"},
     str  |-> {"source", "description", "uploader"},
     time |-> {"creation-time", "last-edit-time"},
     odd  |-> {"flag", "similar"},
     rel  |-> {"tag", "tag-category", "pool", "pool-category", "fav", "comment", "note-text",
               "comment-time", "fav-time", "feature-time", "special"}]

TagTokens ==
    [num  |-> {"usage-count", "implication-count", "suggestion-count"},
     str  |-> {"category", "description"},
     time |-> {"creation-time", "last-edit-time"},
     odd  |-> {},
     rel  |-> {"name", "implies", "suggests"}]

PoolTokens ==
    [num |-> {"post-count"}, str |-> {"category"}, time |-> {"creation-time", "last-edit-time"},
     odd |-> {}, rel |-> {"name"}]

CommentTokens ==
    [num |-> {"id", "post", "score"}, str |-> {"text", "user"},
     time |-> {"creation-time", "last-edit-time"}, odd |-> {}, rel |-> {}]

UserTokens ==
    [num |-> {}, str |-> {"name"}, time |-> {"creation-time", "last-login-time"},
     odd |-> {}, rel |-> {}]

SnapshotTokens ==
    [num |-> {"operation", "resource-type"}, str |-> {"user", "resource-id"}, time |-> {"time"},
     odd |-> {}, rel |-> {}]

Tokens == [post |-> PostTokens, tag |-> TagTokens, pool |-> PoolTokens,
           comment |-> CommentTokens, user |-> UserTokens, snapshot |-> SnapshotTokens]

AllTokens(kind) ==
    LET all == Tokens[kind] IN all.num \cup all.str \cup all.time \cup all.odd \cup all.rel

Anonymous == [post |-> "tag", tag |-> "name", pool |-> "name", comment |-> "text",
              user |-> "name", snapshot |-> "resource-type"]

\* The columns that sorts use where they are not the token's own.
SortKeys ==
    [post |-> [x \in {"tag", "pool", "fav", "comment"} |->
                  CASE x = "tag" -> "tag-count" [] x = "pool" -> "pool-count"
                    [] x = "fav" -> "fav-count" [] x = "comment" -> "comment-count"],
     tag  |-> [x \in {"name", "creation-time", "implies", "suggests"} |->
                  CASE x = "name" -> "primary-name" [] x = "creation-time" -> "id"
                    [] x = "implies" -> "implication-count" [] x = "suggests" -> "suggestion-count"],
     pool |-> [x \in {"name"} |-> "primary-name"],
     user |-> [x \in {"creation-time"} |-> "id"],
     comment |-> <<>>, snapshot |-> <<>>]

SortKey(kind, token) ==
    IF token \in DOMAIN SortKeys[kind] THEN SortKeys[kind][token] ELSE token

Unsortable ==
    [post |-> {"content-checksum", "note-text", "pool-category", "similar", "special",
               "tag-category"},
     tag |-> {}, pool |-> {}, comment |-> {}, user |-> {}, snapshot |-> {}]

\* Every sort ends with this column; only some are unique.
LastSort == [post |-> "id", tag |-> "id", pool |-> "creation-time", comment |-> "id",
             user |-> "name", snapshot |-> "time"]

IsText(kind, token) == token \in Tokens[kind].str \cup {"name"}

IsTime(token) == token \in {"comment-time", "fav-time", "feature-time"}

\* Posts are filtered by a pool's ID if the condition is one of numbers.
ById(kind, token, text) == kind = "post" /\ token = "pool" /\ NumCondition(text) # Error

Specials == {"liked", "disliked", "fav", "tumbleweed"}

\* A post, and the percentage of bits that must be the same, of a positive one.
SimilarCondition(text) ==
    LET two   == CommaSplit(text)
        least == IF Len(two) = 2 THEN Number(two[2]) ELSE 80
    IN  IF Number(two[1]) = Bad \/ least \notin 1..100 THEN Error
        ELSE [tag |-> "similar", post |-> Number(two[1]), least |-> least]

\* Checksums, and flags, of which a post may have several, are numbers here.
ValuesOnly == {"content-checksum", "flag"}

\* A condition is read as the type of what it is about says.
Parsed(kind, token, text) ==
    LET types == Tokens[kind] IN
    CASE kind = "post" /\ token = "special" ->
            IF Word(text) \in Specials THEN [tag |-> Word(text)] ELSE Error
      [] kind = "post" /\ token = "similar"               -> SimilarCondition(text)
      [] kind = "post" /\ token \in ValuesOnly            -> ValuesCondition(text)
      [] token \in types.time \/ IsTime(token)                -> TimeCondition(text)
      [] token \in types.num \/ ById(kind, token, text)       -> NumCondition(text)
      [] OTHER                                            -> StrCondition(text)

\* Tags, and categories of tags, that a client does not want to see are filters
\* of a search for tags.
PrefFilters(kind, prefs) ==
    LET Not(token, texts) ==
          [i \in DOMAIN texts |-> [tag |-> "filter", token |-> token, negated |-> TRUE,
                                   condition |-> texts[i]]]
    IN  IF kind # "tag" THEN <<>>
        ELSE Not("name", SetToSeq(prefs.tags)) \o Not("category", SetToSeq(prefs.categories))

\* Relations a row may have several times with one value.
Repeated == {"tag-category", "pool-category", "comment", "note-text", "comment-time", "fav-time",
             "feature-time"}

\* A filter, with what it is about, what that must meet, and whether rows are
\* selected once.
Understood(kind, f) ==
    [token |-> f.token, negated |-> f.negated, wants |-> Parsed(kind, f.token, f.condition),
     on |-> IF ById(kind, f.token, f.condition) THEN "pool-id" ELSE f.token,
     distinct |-> f.token \in Repeated \/ Multivalued(f.condition)]

\* Criteria whose conditions are read, for a client's preferences; a sort or a
\* condition there is none of is an error.
Plan(kind, c, prefs) ==
    LET Checked(filters) ==
          IF \/ \E n \in DOMAIN c.sorts : c.sorts[n].token \in Unsortable[kind]
             \/ \E n \in DOMAIN filters : filters[n].wants = Error
          THEN Error ELSE [c EXCEPT !.filters = filters]
        All(filters) == [n \in DOMAIN filters |-> Understood(kind, filters[n])]
    IN  IF c = Error THEN Error ELSE Checked(All(c.filters \o PrefFilters(kind, prefs)))

\* A question with how its text is read.
Read(q, prefs) ==
    [plan |-> Plan(q.kind, Criteria(Terms(q.text, Anonymous[q.kind]), AllTokens(q.kind)), prefs)]
        @@ q
=============================================================================
