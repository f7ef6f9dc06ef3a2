--------------------------- MODULE MCMaintenance ---------------------------
(* Maintenance on two posts, Duplicates on three, Signatures of small       *)
(* images, and Resources on the rows of MCResponses.  They share no state:  *)
(* part says which one a behaviour is about, and the others stay as they    *)
(* began.                                                                   *)
EXTENDS Maintenance, TLC

CONSTANTS a, b, n, x, png, gif, jpg, jxl,
          cat, sky, dog, h, g,                \* pictures and their hashes
          Parts,                              \* what the run is about
          MaxTasks, MaxChanges,               \* of Duplicates
          Panic, MaxEdits                     \* of Resources

VARIABLES
    part,
    \* of Duplicates
    posts, phash, file, related, merger, chosen, stop,
    pairs, hashes, groups, rest, into, changes, before, standin, spoiled, touched,
    \* of Signatures
    image, stage, grid, matrix, differences, signature, stored, other, distance,
    \* of Resources
    db, moments, ask, phase, loaded, todo, results, answers

dupVars == <<posts, phash, file, related, merger, chosen, stop,
             pairs, hashes, groups, rest, into, changes, before, standin, spoiled, touched>>
signVars == <<image, stage, grid, matrix, differences, signature, stored, other, distance>>
resVars == <<db, moments, ask, phase, loaded, todo, results, answers>>

-----------------------------------------------------------------------------
(* Maintenance.                                                             *)

MCContents == {a, b, n, x}
MCMimes    == {png, gif}
MCMimeOf   == [c \in MCContents |-> IF c = n THEN gif ELSE png]

StartRow(c, sum, hash) ==
    [mime |-> MimeOf[c], checksum |-> sum, type |-> Old, phash |-> hash,
     generated |-> None, custom |-> None]

\* Files of posts 1 and 2 under one key; post 1 has its thumbnail in the format
\* that is not configured, post 2 has both and a custom one.
StartDisk(key, c, d) ==
    LET names == (Path("posts", key, 1, png) :> c) @@ (Path("posts", key, 2, png) :> d)
        thumb(dir, p, k, f) == Path(dir, k, p, f) :> Thumbnail(IF p = 1 THEN c ELSE IF d = x THEN b ELSE d, f)
    IN  names @@ thumb("generated", 1, key, jxl) @@ thumb("generated", 2, key, jpg)
        @@ thumb("generated", 2, key, jxl) @@ thumb("custom", 2, key, jpg)

\* Post 2 is another picture, the same picture, or a file that cannot be read.
MCStarts ==
    {[row  |-> (1 :> StartRow(a, a, None)) @@ (2 :> StartRow(d, Old, Old)),
      sig  |-> 1 :> [signature |-> s, words |-> Old],
      disk |-> StartDisk(key, a, d)] : d \in {a, b, x}, s \in {a, Old}, key \in {"old", "new"}}

\* What is disturbed: one thing in a behaviour.
Faults == requests + (IF cancelled THEN 1 ELSE 0) + (IF killed THEN 1 ELSE 0)

\* Every task in the states that it is there for; one state in the other parts.
TasksInit ==
    /\ Init
    /\ (\E path \in DOMAIN disk : path.key = "old") <=> shell.task = "reset_filenames"
    /\ sig[1].signature = Old <=> shell.task = "recompute_signatures"
    /\ part # "tasks" => ~shell.manual /\ shell.task = "check_integrity" /\ row[2].mime = png
                         /\ disk[content_path(2, png)] = b

TasksNext ==
    /\ Next
    /\ Faults' <= 1
    \* By hand one post is chosen, all are chosen without.
    /\ shell'.manual => selected' # {1, 2} \/ shell.task \in WalkTasks
    \* The process is started again for the same task.
    /\ shell'.task = shell.task

-----------------------------------------------------------------------------
(* Duplicates: a cat three times, as a small JPEG XL that cannot be decoded *)
(* too and whose aspect ratio is just about the same, and a sky with the    *)
(* hash and the number of pixels of the cat but another aspect ratio.       *)

Shot(pic, width, height, isJxl, bytes) ==
    [pic |-> pic, width |-> width, height |-> height, jxl |-> isJxl, bytes |-> bytes]

MCShots  == {Shot(cat, 100, 100, FALSE, 3), Shot(cat, 100, 100, TRUE, 4),
             Shot(cat, 60, 59, TRUE, 1), Shot(sky, 200, 50, FALSE, 3)}
MCMoving == {Shot(dog, 100, 100, FALSE, 3)}
MCBroken == {Shot(cat, 60, 59, TRUE, 1)}

Dup == INSTANCE Duplicates WITH
    row <- posts,
    Posts <- {1, 2, 3}, Contents <- MCShots \cup MCMoving, Pictures <- {cat, sky, dog},
    Hash <- (cat :> h) @@ (sky :> h) @@ (dog :> g),
    Broken <- MCBroken, Moving <- MCMoving, NewContents <- MCMoving,
    StartRows <- {f \in [{1, 2, 3} -> MCShots] : \A p, q \in {1, 2, 3} : p # q => f[p] # f[q]},
    StartRelations <- {{<<1, 2>>, <<2, 3>>}, {<<1, 2>>, <<1, 3>>, <<2, 3>>}},
    DeleteSourceFiles <- TRUE, MaxGroup <- 3

\* In the other parts there is one state.
DupInit ==
    /\ Dup!DupInit
    /\ part # "merges" => /\ merger.task = "pairs" /\ related = {<<1, 2>>, <<2, 3>>}
                          /\ [p \in {1, 2, 3} |-> posts[p].bytes] = <<3, 4, 1>>
                          /\ posts[1].pic = cat

-----------------------------------------------------------------------------
(* Signatures: images in black, gray and white, of one pixel and more.      *)

Drawn(w, height, across, down) ==
    [w |-> w, h |-> height,
     at |-> [p \in (0..w - 1) \X (0..height - 1) |->
                IF across[p[1]] = down[p[2]] THEN 0 ELSE IF across[p[1]] < down[p[2]] THEN 90 ELSE 200]]

AllDrawn(w, height) ==
    {Drawn(w, height, f, k) : f \in [0..w - 1 -> {0, 1}], k \in [0..height - 1 -> {0, 1}]}

MCImages == UNION {AllDrawn(1, 1), AllDrawn(1, 4), AllDrawn(4, 2), AllDrawn(5, 4)}

Gradient(w, height, step) ==
    [w |-> w, h |-> height,
     at |-> [p \in (0..w - 1) \X (0..height - 1) |-> (step * (p[1] * p[1] + 3 * p[2])) % 256]]

Sign == INSTANCE Signatures WITH
    Uploaded <- MCImages \cup {Gradient(w, 7, step) : w \in {6, 9}, step \in {1, 2, 5, 30}},
    Others <- {Gradient(6, 7, 5), Drawn(4, 2, [k \in 0..3 |-> k % 2], [k \in 0..1 |-> 1])},
    CropPercentile <- 1, GridSize <- 3, GridDivisor <- 2, Tolerance <- 1, LuminanceLevels <- 2,
    NumWords <- 10, NumLetters <- 4, SignatureDigits <- 3

SignInit == Sign!SignInit /\ (part # "signatures" => image.w = 1 /\ image.h = 1 /\ image.at[<<0, 0>>] = 90)

-----------------------------------------------------------------------------
(* Resources.                                                               *)

Resp == INSTANCE MCResponses

\* In the other parts nothing is there.
RespInit ==
    \/ part = "responses" /\ Resp!Res!ResourceInit
    \/ /\ part # "responses"
       /\ db = {} /\ moments = << >> /\ ask = None /\ phase = None
       /\ loaded = None /\ todo = None /\ results = None /\ answers = None

-----------------------------------------------------------------------------

MCInit == part \in Parts /\ TasksInit /\ DupInit /\ SignInit /\ RespInit

MCNext ==
    \/ part = "tasks" /\ TasksNext /\ UNCHANGED <<part, dupVars, signVars, resVars>>
    \/ part = "merges" /\ Dup!DupNext /\ UNCHANGED <<part, mainVars, signVars, resVars>>
    \/ part = "signatures" /\ Sign!SignNext /\ UNCHANGED <<part, mainVars, dupVars, resVars>>
    \/ part = "responses" /\ Resp!Res!ResourceNext /\ UNCHANGED <<part, mainVars, dupVars, signVars>>

MCSpec == MCInit /\ [][MCNext]_<<part, mainVars, dupVars, signVars, resVars>>

-----------------------------------------------------------------------------
(* The properties of each.                                                  *)

\* Every component keeps its types.
TypesOK ==
    /\ part = "tasks" => MaintenanceTypeOK
    /\ part = "merges" => Dup!DupTypeOK

BestKept          == part = "merges" => Dup!BestKept
SignaturesSound   == part = "signatures" => Sign!SignaturesSound
EveryImageCropped == Sign!EveryImageCropped
ResponsesOwn      == part = "responses" => Resp!Res!ResponsesOwn

WorkerSymmetry == Permutations(Workers)
=============================================================================
