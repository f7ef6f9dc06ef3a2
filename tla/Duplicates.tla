----------------------------- MODULE Duplicates -----------------------------
(***************************************************************************)
(* The two tasks of admin/post.rs that look for duplicates and merge them, *)
(* beside a server that goes on answering requests: merge_duplicate_posts  *)
(* examines pairs of related posts, merge_duplicate_phash_posts groups of  *)
(* posts with the same perceptual hash.  Both list what they examine up    *)
(* front, look at it for a while, and then merge in a transaction.  What a *)
(* merge does to files step by step is PostContent's business, and what it *)
(* does to tags, pools and scores PostLinks'; here it is one step.         *)
(*                                                                         *)
(* A content is a picture with its width and height, whether it is JPEG    *)
(* XL, and its size in bytes; a row holds the content it names.            *)
(***************************************************************************)
EXTENDS Integers, FiniteSets, Functions, TLC

CONSTANTS
    Posts,            \* post IDs
    Contents,         \* what a file of a post can hold
    Pictures,         \* what contents can show
    Hash,             \* the perceptual hash of a picture
    Broken,           \* contents that cannot be decoded
    Moving,           \* contents that are no still images
    StartRows,        \* the rows a behaviour may start with
    StartRelations,   \* and the relations between posts
    NewContents,      \* what a request may bring
    DeleteSourceFiles,\* config.delete_source_files
    MaxGroup,         \* MAX_PHASH_GROUP_SIZE
    MaxTasks,         \* bound: tasks that are run
    MaxChanges,       \* bound: requests to the server
    None

VARIABLES
    row,      \* posts |-> the content their row names
    phash,    \* posts |-> the hash in their row
    file,     \* posts |-> the content of their file
    related,  \* pairs of related posts, the lower ID first
    merger,   \* the task: where it is, which it is, how many there were
    chosen,   \* posts selected at the prompt
    stop,     \* CANCELLED
    pairs,    \* pairs still to be examined
    hashes,   \* hashes whose posts are still to be loaded
    groups,   \* rows by post, for every group still to be merged
    rest,     \* rows of the group being merged, or of the pair
    into,     \* the post that is merged into
    changes,  \* requests so far
    \* History: the content every post had when the task started, the post that
    \* took its place, and posts a request had a hand in, by now or since the
    \* task read what it is working on.
    before, standin, spoiled, touched

dupRows == <<row, phash, file, related>>
dupWork == <<pairs, hashes, groups, rest, into>>
dupTold == <<before, standin, spoiled, touched>>
dupVars == <<dupRows, merger, chosen, stop, dupWork, changes, dupTold>>

Lives == {p \in Posts : row[p] # None}
Pair(p, q) == IF p < q THEN <<p, q>> ELSE <<q, p>>

DupInit ==
    /\ row \in StartRows /\ related \in StartRelations
    /\ file = row
    /\ phash = [p \in Posts |-> IF row[p] = None THEN None ELSE Hash[row[p].pic]]
    /\ merger \in [at : {"prompt"}, task : {"pairs", "phash"}, runs : {0}]
    /\ chosen = {} /\ stop = FALSE
    /\ pairs = {} /\ hashes = {} /\ groups = {} /\ rest = << >> /\ into = None
    /\ changes = 0
    /\ before = row /\ standin = [p \in Posts |-> p] /\ spoiled = {} /\ touched = {}

At(label) == merger.at = label
Goto(label) == merger' = [merger EXCEPT !.at = label]

-----------------------------------------------------------------------------
(* Which content is kept. *)

Pixels(c) == c.width * c.height

\* More pixels, then JPEG XL, then fewer bytes.
PrefersAbsorbed(absorbed, target) ==
    \/ Pixels(absorbed) > Pixels(target)
    \/ /\ Pixels(absorbed) = Pixels(target)
       /\ \/ absorbed.jxl /\ ~target.jxl
          \/ absorbed.jxl = target.jxl /\ absorbed.bytes < target.bytes

\* The oldest post is kept.
OldestPreferred(group) == CHOOSE p \in DOMAIN group : \A q \in DOMAIN group : p <= q

\* The same with the lower ID last: the first of a group.
phash_merge_preference(group) ==
    CHOOSE p \in DOMAIN group : \A q \in DOMAIN group \ {p} :
        \/ PrefersAbsorbed(group[p], group[q])
        \/ ~PrefersAbsorbed(group[q], group[p]) /\ p < q

\* ASPECT_RATIO_TOLERANCE is 2 percent of the greater ratio.
aspect_ratios_match(c, d) ==
    LET across == c.width * d.height
        down   == d.width * c.height
        most   == IF across > down THEN across ELSE down
    IN  /\ 0 \notin {c.width, c.height, d.width, d.height}
        /\ 100 * (across - down) <= 2 * most /\ 100 * (down - across) <= 2 * most

-----------------------------------------------------------------------------
(* A merge of two posts, whose rows were read before. *)

Replaced(p, c, d) == [q \in Posts |-> IF q = p THEN c ELSE d[q]]

\* The file of a post under the name its row gave it.
FileUnder(p, c) == IF c # None /\ file[p] # None /\ file[p].jxl = c.jxl THEN file[p] ELSE None

Joined(absorbed, target) ==
    {Pair(r[1], r[2]) : r \in {<<IF r[1] = absorbed THEN target ELSE r[1],
                                 IF r[2] = absorbed THEN target ELSE r[2]>> : r \in related}
                              \ {<<target, target>>}}

Failed == UNCHANGED <<dupRows, before, standin, spoiled>>

\* The picture of every post that the absorbed one stood for is now the
\* target's business.
Follow(absorbed, target) ==
    standin' = [p \in Posts |-> IF standin[p] = absorbed THEN target ELSE standin[p]]

\* old and kept are the rows as they were read. Replacing content moves the
\* file the absorbed post has now, and the columns it had then, but not the hash.
merge(absorbed, old, target, kept, replace) ==
    \/ /\ ~replace
       /\ row' = Replaced(absorbed, None, row)
       /\ phash' = Replaced(absorbed, None, phash)
       /\ file' = IF DeleteSourceFiles /\ FileUnder(absorbed, old) # None
                  THEN Replaced(absorbed, None, file) ELSE file
       \* Without the target nothing may refer to it: a tag that moves is an error.
       /\ related' = IF row[target] = None THEN {r \in related : absorbed \notin {r[1], r[2]}}
                     ELSE Joined(absorbed, target)
       /\ Follow(absorbed, target)
    \/ /\ replace /\ row[absorbed] # None /\ row[target] # None
       /\ FileUnder(absorbed, old) # None /\ FileUnder(target, kept) # None
       /\ \A p \in Lives \ {absorbed, target} : row[p] # old
       /\ row' = Replaced(absorbed, None, Replaced(target, old, row))
       /\ phash' = Replaced(absorbed, None, phash)
       /\ file' = Replaced(absorbed, IF DeleteSourceFiles THEN None ELSE file[target],
                           Replaced(target, file[absorbed], file))
       /\ related' = Joined(absorbed, target)
       /\ Follow(absorbed, target)

-----------------------------------------------------------------------------
(* What both tasks do. *)

\* A row that an earlier race left without its file is no promise to keep.
Remember ==
    /\ before' = row /\ standin' = [p \in Posts |-> p]
    /\ spoiled' = {p \in Posts : row[p] # file[p]}

\* The posts are selected; the task looks for pairs or groups among them.
Select ==
    /\ At("prompt") /\ merger.runs < MaxTasks
    /\ chosen' \in SUBSET Lives
    /\ merger' = [merger EXCEPT !.at = IF merger.task = "pairs" THEN "list" ELSE "hashes",
                                !.runs = @ + 1]
    /\ Remember
    /\ UNCHANGED <<dupRows, stop, dupWork, changes, touched>>

Finish ==
    /\ At("end") \/ At("prompt")
    /\ merger.runs \in 1 .. MaxTasks - 1
    /\ \E t \in {"pairs", "phash"} : merger' = [merger EXCEPT !.at = "prompt", !.task = t]
    /\ stop' = FALSE /\ pairs' = {} /\ hashes' = {} /\ groups' = {}
    /\ rest' = << >> /\ into' = None /\ Remember
    /\ UNCHANGED <<dupRows, chosen, changes, touched>>

Interrupt ==
    /\ ~stop /\ ~At("end") /\ ~At("prompt")
    /\ stop' = TRUE
    /\ UNCHANGED <<dupRows, merger, chosen, dupWork, changes, dupTold>>

Stopped == stop /\ Goto("end") /\ UNCHANGED <<dupWork, touched>>

-----------------------------------------------------------------------------
(* merge_duplicate_posts *)

ListPairs ==
    /\ At("list")
    /\ pairs' = related
    /\ Goto("next")
    /\ UNCHANGED <<dupRows, chosen, stop, hashes, groups, rest, into, changes, dupTold>>

\* Pairs come in no order. The first of the pair is loaded, then the second:
\* either may be gone.
NextPair ==
    /\ At("next")
    /\ \/ pairs = {} /\ Goto("prompt") /\ UNCHANGED <<dupWork, touched>>
       \/ \E pair \in pairs :
            \/ Stopped
            \/ /\ ~stop
               /\ pairs' = pairs \ {pair}
               /\ IF {pair[1], pair[2]} \subseteq chosen /\ row[pair[1]] # None
                  THEN /\ into' = pair[1] /\ rest' = pair[1] :> row[pair[1]] @@ pair[2] :> None
                       /\ Goto("second") /\ touched' = {}
                  ELSE UNCHANGED <<into, rest, merger, touched>>
               /\ UNCHANGED <<hashes, groups>>
    /\ UNCHANGED <<dupRows, chosen, stop, changes, before, standin, spoiled>>

Absorbed == CHOOSE p \in DOMAIN rest : p # into

LoadSecond ==
    /\ At("second")
    /\ rest' = [rest EXCEPT ![Absorbed] = row[Absorbed]]
    /\ Goto(IF row[Absorbed] # None /\ {rest'[p] : p \in DOMAIN rest} \cap Moving = {}
            THEN "compare" ELSE "next")
    /\ UNCHANGED <<dupRows, chosen, stop, pairs, hashes, groups, into, changes, dupTold>>

\* Both files are decoded; only the same pixels make a duplicate.
Compare ==
    LET image(p) == IF FileUnder(p, rest[p]) \in Broken THEN None ELSE FileUnder(p, rest[p])
    IN  /\ At("compare")
        /\ Goto(IF /\ image(into) # None /\ image(Absorbed) # None
                   /\ image(into).pic = image(Absorbed).pic
                   /\ image(into).width = image(Absorbed).width
                   /\ image(into).height = image(Absorbed).height
                THEN "merge" ELSE "next")
        /\ UNCHANGED <<dupRows, chosen, stop, dupWork, changes, dupTold>>

\* Whatever a request did to the two since they were read, the rows of then are merged.
Spoil(absorbed, trusted) ==
    spoiled' = spoiled \cup
        IF (touched \cup {p \in Posts : row[p] # file[p]}) \cap {absorbed, into} = {} /\ trusted THEN {}
        ELSE {p \in Posts : standin[p] \in {absorbed, into}}

MergePair ==
    /\ At("merge")
    /\ \/ /\ merge(Absorbed, rest[Absorbed], into, rest[into],
                   PrefersAbsorbed(rest[Absorbed], rest[into]))
          /\ Spoil(Absorbed, TRUE)
       \/ Failed
    /\ Goto("next")
    /\ UNCHANGED <<chosen, stop, dupWork, changes, before, touched>>

-----------------------------------------------------------------------------
(* merge_duplicate_phash_posts *)

Still(p) == row[p] # None /\ row[p] \notin Moving

ListHashes ==
    /\ At("hashes")
    /\ hashes' = {phash[p] : p \in {q \in Posts : Still(q) /\ phash[q] # None
                     /\ \E o \in Posts \ {q} : Still(o) /\ phash[o] = phash[q]}}
    /\ groups' = {} /\ touched' = {}
    /\ Goto("groups")
    /\ UNCHANGED <<dupRows, chosen, stop, pairs, rest, into, changes, before, standin, spoiled>>

\* One chunk of hashes: their posts are loaded.
LoadGroup ==
    /\ At("groups")
    /\ IF hashes = {} THEN Goto("group") /\ UNCHANGED <<dupWork, touched>>
       ELSE \E h \in hashes :
            \/ Stopped
            \/ LET found == {p \in Posts : Still(p) /\ phash[p] = h}
               IN  /\ ~stop
                   /\ groups' = groups \cup (IF found = {} THEN {} ELSE {[p \in found |-> row[p]]})
                   /\ hashes' = hashes \ {h}
                   /\ UNCHANGED <<merger, pairs, rest, into, touched>>
    /\ UNCHANGED <<dupRows, chosen, stop, changes, before, standin, spoiled>>

NextGroup ==
    /\ At("group")
    /\ \/ groups = {} /\ Goto("prompt") /\ UNCHANGED dupWork
       \/ \E g \in groups :
            \/ stop /\ Goto("end") /\ UNCHANGED dupWork
            \/ LET group == Restrict(g, DOMAIN g \cap chosen)
               IN  /\ ~stop
                   /\ groups' = groups \ {g}
                   /\ IF Cardinality(DOMAIN group) \in 2 .. MaxGroup
                      THEN /\ into' = phash_merge_preference(group) /\ rest' = group
                           /\ Goto("absorb")
                      ELSE UNCHANGED <<into, rest, merger>>
                   /\ UNCHANGED <<pairs, hashes>>
    /\ UNCHANGED <<dupRows, chosen, stop, changes, dupTold>>

\* The row of the survivor is read again, so it must still be there; those of
\* the others are as the group was loaded, and so is the aspect ratio.
MergeGroup ==
    /\ At("absorb")
    /\ UNCHANGED <<chosen, stop, pairs, hashes, groups, into, changes, before, touched>>
    /\ IF DOMAIN rest = {into} THEN Goto("group") /\ UNCHANGED <<dupRows, rest, standin, spoiled>>
       ELSE \/ stop /\ Goto("end") /\ UNCHANGED <<dupRows, rest, standin, spoiled>>
            \/ /\ ~stop
               /\ \E p \in DOMAIN rest \ {into} :
                    /\ rest' = Restrict(rest, DOMAIN rest \ {p})
                    /\ \/ /\ aspect_ratios_match(rest[into], rest[p]) /\ row[into] # None
                          /\ merge(p, rest[p], into, row[into], FALSE)
                          /\ Spoil(p, \A q \in {p, into} : row[q] # None => phash[q] = Hash[row[q].pic])
                       \/ Failed
               /\ UNCHANGED merger

-----------------------------------------------------------------------------
(* The server: a content is replaced, a post is deleted, two are merged. *)

Change(posts) ==
    /\ changes < MaxChanges
    /\ changes' = changes + 1
    /\ touched' = touched \cup posts
    /\ UNCHANGED <<merger, chosen, stop, dupWork, before>>

Touch(posts) == spoiled' = spoiled \cup {p \in Posts : standin[p] \in posts}

ReplaceContent(p) ==
    /\ Change({p}) /\ Touch({p})
    /\ \E c \in NewContents :
        /\ \A q \in Lives : row[q] # c
        /\ row' = Replaced(p, c, row) /\ file' = Replaced(p, c, file)
        /\ phash' = Replaced(p, Hash[c.pic], phash)
    /\ UNCHANGED <<related, standin>>

DeletePost(p) ==
    /\ Change({p}) /\ Touch({p})
    /\ row' = Replaced(p, None, row) /\ phash' = Replaced(p, None, phash)
    /\ file' = IF DeleteSourceFiles THEN Replaced(p, None, file) ELSE file
    /\ related' = {r \in related : p \notin {r[1], r[2]}}
    /\ UNCHANGED standin

\* Its author decides which content stays.
MergeByHand(p, q) ==
    /\ Change({p, q}) /\ Touch({p, q})
    /\ \E replace \in BOOLEAN : merge(p, row[p], q, row[q], replace)

ServerStep ==
    \/ \E p \in Lives : ReplaceContent(p) \/ DeletePost(p)
    \/ \E p, q \in Lives : p # q /\ MergeByHand(p, q)

DupNext ==
    \/ Select \/ Finish \/ Interrupt
    \/ ListPairs \/ NextPair \/ LoadSecond \/ Compare \/ MergePair
    \/ ListHashes \/ LoadGroup \/ NextGroup \/ MergeGroup
    \/ ServerStep

DupSpec == DupInit /\ [][DupNext]_dupVars

-----------------------------------------------------------------------------
(* Properties. *)

\* Every variable has its type.
DupTypeOK ==
    /\ {row, file} \subseteq [Posts -> Contents \cup {None}]
    /\ related \subseteq Posts \X Posts /\ pairs \subseteq Posts \X Posts
    /\ UNION {chosen, spoiled, touched, DOMAIN rest} \subseteq Posts
    /\ into \in Posts \cup {None} /\ stop \in BOOLEAN
    /\ \A g \in groups : DOMAIN g \subseteq Posts

\* The same hash, and ratios of which the lower is at least 98 percent of the other.
Alike(c, d) ==
    /\ Hash[c.pic] = Hash[d.pic]
    /\ 98 * c.width * d.height <= 100 * d.width * c.height
    /\ 98 * d.width * c.height <= 100 * c.width * d.height

\* However pairs and groups overlap, whichever merges fail, and wherever a task
\* is stopped: the picture of every post it may have absorbed is still shown
\* by the post that stands for it, from its own file, and in no worse content
\* than before; after the first task it is the very same picture. Only posts
\* that requests worked on, before the task or under its hands, are spared.
BestKept ==
    \A p \in {q \in Posts : before[q] # None} \ spoiled :
        LET now == standin[p]
        IN  /\ row[now] # None /\ file[now] = row[now]
            /\ Alike(row[now], before[p])
            /\ ~PrefersAbsorbed(before[p], row[now])
            /\ merger.task = "pairs" => /\ row[now].pic = before[p].pic
                                        /\ row[now].width = before[p].width
                                        /\ row[now].height = before[p].height
=============================================================================
