---------------------------- MODULE PostContent ----------------------------
(***************************************************************************)
(* The content file of every post, next to the row of the post table that *)
(* says which file it is.  A request edits the row inside a PostgreSQL     *)
(* transaction (READ COMMITTED, row locks) and edits the files directly,   *)
(* so a file change is visible at once and is never rolled back, while the *)
(* row change is visible only at COMMIT.  Requests are the handlers of     *)
(* api/post.rs and the admin task that converts posts to JPEG XL.          *)
(*                                                                         *)
(* A row is modelled by the identity of the content it names: a picture    *)
(* and an encoding.  Two files are byte-identical (same checksum) exactly  *)
(* when both agree.  A content path is determined by the post's ID and the *)
(* encoding (PostHash::content_path), so the files of post p are           *)
(* file[p], one slot per encoding.                                         *)
(***************************************************************************)
EXTENDS FiniteSets

CONSTANTS
    Posts,               \* post IDs the sequence can issue
    Existing,            \* posts present at start
    Pics,                \* pictures
    Mimes,               \* still-image encodings
    Jxl,                 \* the JPEG XL encoding
    Tokens,              \* upload tokens
    TokenFile,           \* what the file uploaded under each token holds
    StartRow,            \* content of each post present at start
    Reqs,                \* concurrent requests and admin workers
    Ops,                 \* the operations this instance exercises
    DeleteSourceFiles,   \* config.delete_source_files
    NoRow, NoFile, Unset \* absent row, absent file, nothing read or written

Content == [pic : Pics, mime : Mimes]

AllOps == {"create", "edit", "update", "convert", "task", "delete", "merge", "replace"}

ASSUME ConstantAssumption ==
    /\ Existing \subseteq Posts
    /\ Jxl \in Mimes
    /\ TokenFile \in [Tokens -> Content]
    /\ StartRow \in [Existing -> Content]
    /\ \A p, q \in Existing : StartRow[p] = StartRow[q] => p = q
    /\ Ops \subseteq AllOps
    /\ DeleteSourceFiles \in BOOLEAN
    /\ NoFile \notin Pics
    /\ NoRow \notin Content
    /\ Unset \notin Content \cup {NoRow} \cup Posts \cup Tokens

VARIABLES
    row,     \* committed post rows
    issued,  \* IDs already drawn from the post sequence
    file,    \* the content directory
    temp,    \* tokens whose file is in the temporary uploads directory
    pc, job, \* where each request is, and what it was asked to do
    seen,    \* rows a request has read, kept until it ends
    stage,   \* rows a request has written and not yet committed
    held,    \* picture a request holds: decoded, or parked in a .swap file
    \* History variables: which posts a request has changed the files of, whose
    \* content another commit has changed since it read them, and which posts
    \* have had their row and files changed inconsistently.
    dirty, stale, torn

dbVars   == <<row, issued>>
fsVars   == <<file, temp>>
reqVars  == <<pc, job, seen, stage, held>>
histVars == <<dirty, stale, torn>>
vars     == <<dbVars, fsVars, reqVars, histVars>>

NoJob    == [op |-> "none", post |-> Unset, from |-> Unset, token |-> Unset]
Nothing  == [p \in Posts |-> Unset]

Labels == {"idle", "insert", "save", "signature", "unlink", "fill", "decode", "encode",
           "row", "sweep", "target", "describe", "absorb", "swap1", "swap2", "swap3",
           "meta", "purge", "commit"}

Jobs == [op : AllOps \cup {"none"}, post : Posts \cup {Unset},
         from : Posts \cup {Unset}, token : Tokens \cup {Unset}]

TypeOK ==
    /\ row \in [Posts -> Content \cup {NoRow}]
    /\ issued \subseteq Posts
    /\ file \in [Posts -> [Mimes -> Pics \cup {NoFile}]]
    /\ temp \subseteq Tokens
    /\ pc \in [Reqs -> Labels]
    /\ job \in [Reqs -> Jobs]
    /\ seen \in [Reqs -> [Posts -> Content \cup {Unset}]]
    /\ stage \in [Reqs -> [Posts -> Content \cup {NoRow, Unset}]]
    /\ held \in [Reqs -> Pics \cup {NoFile}]
    /\ dirty \in [Reqs -> SUBSET Posts]
    /\ stale \in [Reqs -> SUBSET Posts]
    /\ torn \subseteq Posts

Init ==
    /\ row = [p \in Posts |-> IF p \in Existing THEN StartRow[p] ELSE NoRow]
    /\ issued = Existing
    /\ file = [p \in Posts |-> [m \in Mimes |->
                  IF p \in Existing /\ StartRow[p].mime = m THEN StartRow[p].pic ELSE NoFile]]
    /\ temp = Tokens
    /\ pc = [r \in Reqs |-> "idle"]
    /\ job = [r \in Reqs |-> NoJob]
    /\ seen = [r \in Reqs |-> Nothing]
    /\ stage = [r \in Reqs |-> Nothing]
    /\ held = [r \in Reqs |-> NoFile]
    /\ dirty = [r \in Reqs |-> {}]
    /\ stale = [r \in Reqs |-> {}]
    /\ torn = {}

-----------------------------------------------------------------------------
(* PostgreSQL: what a statement of request r must wait for, and what it sees. *)

Op(r)     == job[r].op
Post(r)   == job[r].post
From(r)   == job[r].from
Upload(r) == TokenFile[job[r].token]

\* A content update has replaced the post's signature row: it holds the
\* signature's lock and, through the foreign key, a key-share lock on the post.
HoldsSignature(q, p) ==
    \/ Op(q) = "update" /\ Post(q) = p /\ pc[q] \in {"unlink", "fill", "save", "commit"}
    \/ Op(q) = "replace" /\ Post(q) = p /\ stage[q][p] # Unset

\* Writers of a row exclude each other; a write that changes the checksum, a
\* unique key, or deletes the row also waits for key-share locks.
MayWrite(r, p, value) ==
    \A q \in Reqs \ {r} :
        /\ stage[q][p] = Unset
        /\ value = row[p] \/ ~HoldsSignature(q, p)

MayReplaceSignature(r, p) ==
    \A q \in Reqs \ {r} : stage[q][p] \in {Unset, row[p]} /\ ~HoldsSignature(q, p)

\* The unique index on checksum: an entry another transaction is adding or
\* removing has to be waited for; one that remains is a violation.
MayIndex(r, p, value) ==
    \A q \in Reqs \ {r}, o \in Posts \ {p} :
        stage[q][o] = Unset \/ (stage[q][o] # value /\ row[o] # value)

Duplicate(r, p, value) ==
    \E o \in Posts \ {p} : value = IF stage[r][o] = Unset THEN row[o] ELSE stage[r][o]

Stage(r, p, value) == stage' = [stage EXCEPT ![r][p] = value]

-----------------------------------------------------------------------------
(* Bookkeeping of the history variables.                                    *)

\* Changing the files of p now interferes with another request that is in the
\* middle of changing them, or relies on a row that has been replaced since.
Clash(r, p) == p \in stale[r] \/ \E q \in Reqs \ {r} : p \in dirty[q]

\* Request r changes content files of all posts in S, moving content between them.
Touch(r, S) ==
    /\ dirty' = [dirty EXCEPT ![r] = @ \cup S]
    /\ torn' = IF \E p \in S : Clash(r, p) \/ p \in torn THEN torn \cup S ELSE torn

\* What is left behind when r ends without committing: every post it changed the
\* files of, except that a conversion which has not yet removed the original, or
\* has already committed, leaves the post's own file alone.
Spoiled(r) ==
    IF Op(r) \in {"convert", "task"} /\ pc[r] \in {"row", "sweep"}
    THEN {p \in dirty[r] : Clash(r, p)}
    ELSE dirty[r]

\* Request r is over: its transaction is gone and so is all it remembers.
Leave(r) ==
    /\ pc' = [pc EXCEPT ![r] = "idle"]
    /\ job' = [job EXCEPT ![r] = NoJob]
    /\ seen' = [seen EXCEPT ![r] = Nothing]
    /\ stage' = [stage EXCEPT ![r] = Nothing]
    /\ held' = [held EXCEPT ![r] = NoFile]
    /\ dirty' = [dirty EXCEPT ![r] = {}]

\* Request r fails: the transaction rolls back, the files stay as they are.
RollBack(r) ==
    /\ Leave(r)
    /\ stale' = [stale EXCEPT ![r] = {}]
    /\ torn' = torn \cup Spoiled(r)

\* The transaction of r commits, publishing its rows.
Publish(r) ==
    LET changed == {p \in Posts : stage[r][p] \notin {Unset, row[p]}}
    IN  /\ row' = [p \in Posts |-> IF stage[r][p] = Unset THEN row[p] ELSE stage[r][p]]
        /\ stale' = [q \in Reqs |->
              IF q = r THEN {} ELSE stale[q] \cup {p \in changed : seen[q][p] # Unset}]
        /\ torn' = torn \cup (changed \cap stale[r])

Goto(r, label) == pc' = [pc EXCEPT ![r] = label]

-----------------------------------------------------------------------------
(* The temporary uploads directory.                                         *)

\* A file is uploaded (again) under a token.
UploadFile(t) ==
    /\ t \notin temp
    /\ temp' = temp \cup {t}
    /\ UNCHANGED <<dbVars, file, reqVars, histVars>>

\* The hourly sweep removes an upload nobody finished using.
ExpireUpload(t) ==
    /\ t \in temp
    /\ temp' = temp \ {t}
    /\ UNCHANGED <<dbVars, file, reqVars, histVars>>

-----------------------------------------------------------------------------
(* POST /posts                                                              *)

\* create_impl obtains the properties of the upload, from its file or from the
\* content cache (in which case the file may be gone already).
StartCreate(r, t) ==
    /\ pc[r] = "idle"
    /\ "create" \in Ops
    /\ job' = [job EXCEPT ![r] = [NoJob EXCEPT !.op = "create", !.token = t]]
    /\ Goto(r, "insert")
    /\ UNCHANGED <<dbVars, fsVars, seen, stage, held, histVars>>

\* INSERT ... ON CONFLICT (checksum) DO NOTHING: the ID is drawn either way.
Insert(r, p) ==
    /\ pc[r] = "insert"
    /\ p \notin issued
    /\ MayIndex(r, p, Upload(r))
    /\ issued' = issued \cup {p}
    /\ \/ /\ Duplicate(r, p, Upload(r))
          /\ RollBack(r)
       \/ /\ ~Duplicate(r, p, Upload(r))
          /\ Stage(r, p, Upload(r))
          /\ job' = [job EXCEPT ![r].post = p]
          /\ Goto(r, "fill")
          /\ UNCHANGED <<seen, held, histVars>>
    /\ UNCHANGED <<row, fsVars>>

\* Mutant: create_impl ignores the error of a move whose upload is gone.
FillUnchecked(r) ==
    /\ pc[r] = "fill"
    /\ IF job[r].token \in temp
       THEN file' = [file EXCEPT ![Post(r)][Upload(r).mime] = Upload(r).pic]
       ELSE file' = file
    /\ temp' = temp \ {job[r].token}
    /\ Touch(r, {Post(r)})
    /\ Goto(r, IF Op(r) = "create" THEN "commit" ELSE "save")
    /\ UNCHANGED <<dbVars, job, seen, stage, held, stale>>

\* move_file from the temporary uploads to the content path; the rename fails
\* when the upload is gone.
Fill(r) ==
    /\ pc[r] = "fill"
    /\ \/ /\ job[r].token \in temp
          /\ file' = [file EXCEPT ![Post(r)][Upload(r).mime] = Upload(r).pic]
          /\ temp' = temp \ {job[r].token}
          /\ Touch(r, {Post(r)})
          /\ Goto(r, IF Op(r) = "create" THEN "commit" ELSE "save")
          /\ UNCHANGED <<job, seen, stage, held, stale>>
       \/ /\ job[r].token \notin temp
          /\ RollBack(r)
          /\ UNCHANGED fsVars
    /\ UNCHANGED dbVars

-----------------------------------------------------------------------------
(* Requests that begin by reading the row of one post.                      *)

FirstStep ==
    [edit |-> "save", update |-> "signature", convert |-> "decode",
     task |-> "decode", delete |-> "row"]

\* SELECT of the post; its version, if the operation takes one, is the client's.
\* Conversions refuse a post that is JPEG XL already.
Read(r, op, p, t) ==
    /\ pc[r] = "idle"
    /\ op \in Ops
    /\ row[p] # NoRow
    /\ op \in {"convert", "task"} => row[p].mime # Jxl
    /\ job' = [job EXCEPT ![r] =
          [NoJob EXCEPT !.op = op, !.post = p, !.token = IF op = "update" THEN t ELSE Unset]]
    /\ seen' = [seen EXCEPT ![r][p] = row[p]]
    /\ Goto(r, FirstStep[op])
    /\ UNCHANGED <<dbVars, fsVars, stage, held, histVars>>

(* PUT /post/<id>                                                           *)

\* DELETE and INSERT of the post_signature row.
ReplaceSignature(r) ==
    /\ pc[r] = "signature"
    /\ MayReplaceSignature(r, Post(r))
    /\ \/ /\ row[Post(r)] = NoRow
          /\ RollBack(r)
       \/ /\ row[Post(r)] # NoRow
          /\ Goto(r, "unlink")
          /\ UNCHANGED <<job, seen, stage, held, histVars>>
    /\ UNCHANGED <<dbVars, fsVars>>

\* The old content file is removed: by a content update before the new file is
\* moved in, by the conversion endpoint after its UPDATE.
Unlink(r) ==
    /\ pc[r] = "unlink"
    /\ file' = [file EXCEPT ![Post(r)][seen[r][Post(r)].mime] = NoFile]
    /\ Touch(r, {Post(r)})
    /\ Goto(r, IF Op(r) = "update" THEN "fill" ELSE "commit")
    /\ UNCHANGED <<dbVars, temp, job, seen, stage, held, stale>>

\* save_changes writes every column of the row: the upload's metadata when the
\* content was replaced, the content columns as they were read otherwise.
Save(r) ==
    LET p   == Post(r)
        new == IF Op(r) = "update" THEN Upload(r) ELSE seen[r][p]
    IN  /\ pc[r] = "save"
        /\ MayWrite(r, p, new)
        /\ MayIndex(r, p, new)
        /\ \/ /\ row[p] = NoRow \/ Duplicate(r, p, new)
              /\ RollBack(r)
           \/ /\ row[p] # NoRow /\ ~Duplicate(r, p, new)
              /\ Stage(r, p, new)
              /\ Goto(r, "commit")
              /\ UNCHANGED <<job, seen, held, histVars>>
        /\ UNCHANGED <<dbVars, fsVars>>

-----------------------------------------------------------------------------
(* Conversion to JPEG XL: POST /post/<id>/convert-to-jxl and the admin task. *)

\* Mutant: a file that cannot be read is not an error.
DecodeUnchecked(r) ==
    /\ pc[r] = "decode"
    /\ held' = [held EXCEPT ![r] = file[Post(r)][seen[r][Post(r)].mime]]
    /\ Goto(r, "encode")
    /\ UNCHANGED <<dbVars, fsVars, job, seen, stage, histVars>>

\* Decodes the file the row named when it was read.
Decode(r) ==
    LET pic == file[Post(r)][seen[r][Post(r)].mime]
    IN  /\ pc[r] = "decode"
        /\ \/ /\ pic = NoFile
              /\ RollBack(r)
           \/ /\ pic # NoFile
              /\ held' = [held EXCEPT ![r] = pic]
              /\ Goto(r, "encode")
              /\ UNCHANGED <<job, seen, stage, histVars>>
        /\ UNCHANGED <<dbVars, fsVars>>

\* Writes the encoded picture to the post's .jxl path.
Encode(r) ==
    /\ pc[r] = "encode"
    /\ file' = [file EXCEPT ![Post(r)][Jxl] = held[r]]
    /\ Touch(r, {Post(r)})
    /\ Goto(r, "row")
    /\ UNCHANGED <<dbVars, temp, job, seen, stage, held, stale>>

\* Mutant: the UPDATE leaves mime_type out.
ConvertedUntyped(r) == [pic |-> held[r], mime |-> seen[r][Post(r)].mime]

Converted(r) == [pic |-> held[r], mime |-> Jxl]

\* UPDATE inside the request's transaction; the row count is not looked at.
ConvertRow(r) ==
    LET p == Post(r)
    IN  /\ pc[r] = "row" /\ Op(r) = "convert"
        /\ MayWrite(r, p, Converted(r))
        /\ MayIndex(r, p, Converted(r))
        /\ ~Duplicate(r, p, Converted(r))
        /\ Stage(r, p, IF row[p] = NoRow THEN Unset ELSE Converted(r))
        /\ Goto(r, "unlink")
        /\ UNCHANGED <<dbVars, fsVars, job, seen, held, histVars>>

\* The task's UPDATE is a transaction of its own, so it is committed here, before
\* the original is removed; the connection then goes on in autocommit mode.
TaskRow(r) ==
    LET p == Post(r)
    IN  /\ pc[r] = "row" /\ Op(r) = "task"
        /\ row[p] # NoRow
        /\ MayWrite(r, p, Converted(r))
        /\ MayIndex(r, p, Converted(r))
        /\ ~Duplicate(r, p, Converted(r))
        /\ row' = [row EXCEPT ![p] = Converted(r)]
        /\ stale' = [q \in Reqs |->
              IF q # r /\ seen[q][p] # Unset /\ row[p] # Converted(r)
              THEN stale[q] \cup {p} ELSE stale[q]]
        /\ torn' = IF row[p] # Converted(r) /\ p \in stale[r] THEN torn \cup {p} ELSE torn
        /\ Goto(r, "sweep")
        /\ UNCHANGED <<issued, fsVars, job, seen, stage, held, dirty>>

\* The UPDATE fails (checksum taken, or any database error), or the task finds the
\* duplicate or the deleted row first: the .jxl file just written is removed again.
ConvertUndo(r) ==
    /\ pc[r] = "row" /\ Op(r) \in {"convert", "task"}
    /\ file' = [file EXCEPT ![Post(r)][Jxl] = NoFile]
    /\ RollBack(r)
    /\ UNCHANGED <<dbVars, temp>>

\* The task removes the original after its commit and is done with the post.
TaskSweep(r) ==
    /\ pc[r] = "sweep"
    /\ file' = [file EXCEPT ![Post(r)][seen[r][Post(r)].mime] = NoFile]
    /\ torn' = IF Clash(r, Post(r)) THEN torn \cup {Post(r)} ELSE torn
    /\ Leave(r)
    /\ stale' = [stale EXCEPT ![r] = {}]
    /\ UNCHANGED <<dbVars, temp>>

-----------------------------------------------------------------------------
(* DELETE /post/<id>                                                        *)

DeleteRow(r) ==
    LET p == Post(r)
    IN  /\ pc[r] = "row" /\ Op(r) = "delete"
        /\ MayWrite(r, p, NoRow)
        /\ Stage(r, p, IF row[p] = NoRow THEN Unset ELSE NoRow)
        /\ Goto(r, "commit")
        /\ UNCHANGED <<dbVars, fsVars, job, seen, held, histVars>>

\* After the commit, the file is removed under the encoding read before it.
Purge(r) ==
    /\ pc[r] = "purge" /\ Op(r) = "delete"
    /\ file' = [file EXCEPT ![Post(r)][seen[r][Post(r)].mime] = NoFile]
    /\ Leave(r)
    /\ stale' = [stale EXCEPT ![r] = {}]
    /\ UNCHANGED <<dbVars, temp, torn>>

-----------------------------------------------------------------------------
(* POST /post-merge: post `from` is absorbed by `post`.                      *)

\* The absorbed post is read first, then the post it is merged to.  ("replace" is a
\* merge with replaceContent set.)  POST_TAG_MUTEX is not relied on: a request that
\* the TimeoutLayer cuts off drops its guard while its transaction goes on.
StartMerge(r, op, p, s) ==
    /\ pc[r] = "idle"
    /\ op \in Ops
    /\ p # s /\ row[s] # NoRow
    /\ job' = [job EXCEPT ![r] = [NoJob EXCEPT !.op = op, !.post = p, !.from = s]]
    /\ seen' = [seen EXCEPT ![r][s] = row[s]]
    /\ Goto(r, "target")
    /\ UNCHANGED <<dbVars, fsVars, stage, held, histVars>>

MergeRead(r) ==
    LET p == Post(r)
    IN  /\ pc[r] = "target"
        /\ \/ /\ row[p] = NoRow
              /\ RollBack(r)
           \/ /\ row[p] # NoRow
              /\ seen' = [seen EXCEPT ![r][p] = row[p]]
              /\ Goto(r, "describe")
              /\ UNCHANGED <<job, stage, held, histVars>>
        /\ UNCHANGED <<dbVars, fsVars>>

\* UPDATE of the description (and, when replacing, of the signature) of `post`.
MergeLock(r) ==
    LET p == Post(r)
    IN  /\ pc[r] = "describe"
        /\ MayWrite(r, p, row[p])
        /\ Op(r) = "replace" => MayReplaceSignature(r, p)
        /\ Stage(r, p, IF row[p] = NoRow THEN Unset ELSE row[p])
        /\ Goto(r, "absorb")
        /\ UNCHANGED <<dbVars, fsVars, job, seen, held, histVars>>

\* DELETE of the absorbed row.
MergeAbsorb(r) ==
    LET s == From(r)
    IN  /\ pc[r] = "absorb"
        /\ MayWrite(r, s, NoRow)
        /\ Stage(r, s, IF row[s] = NoRow THEN Unset ELSE NoRow)
        /\ Goto(r, IF Op(r) = "replace" THEN "swap1"
                   ELSE IF DeleteSourceFiles THEN "purge" ELSE "commit")
        /\ UNCHANGED <<dbVars, fsVars, job, seen, held, histVars>>

\* swap_posts: files of equal encoding are swapped through a temporary name, files
\* of different encodings are moved across.  A move fails when its source is gone.
SwapMove(r, label) ==
    LET p == Post(r)  mp == seen[r][p].mime
        s == From(r)  ms == seen[r][s].mime
        Missing(o, m) == file[o][m] = NoFile
        Done(next) ==
            /\ Touch(r, {p, s})
            /\ Goto(r, next)
            /\ UNCHANGED <<dbVars, temp, job, seen, stage, stale>>
        Failed ==
            RollBack(r) /\ UNCHANGED <<dbVars, fsVars>>
    IN  /\ pc[r] = label
        /\ \/ /\ label = "swap1" /\ Missing(s, ms) /\ Failed
           \/ /\ label = "swap1" /\ ~Missing(s, ms) /\ mp = ms
              /\ held' = [held EXCEPT ![r] = file[s][ms]]
              /\ file' = [file EXCEPT ![s][ms] = NoFile]
              /\ Done("swap2")
           \/ /\ label = "swap1" /\ ~Missing(s, ms) /\ mp # ms
              /\ file' = [file EXCEPT ![p][ms] = file[s][ms], ![s][ms] = NoFile]
              /\ Done("swap2") /\ UNCHANGED held
           \/ /\ label = "swap2" /\ Missing(p, mp) /\ Failed
           \/ /\ label = "swap2" /\ ~Missing(p, mp)
              /\ file' = [file EXCEPT ![s][mp] = file[p][mp], ![p][mp] = NoFile]
              /\ Done(IF mp = ms THEN "swap3" ELSE "meta") /\ UNCHANGED held
           \/ /\ label = "swap3"
              /\ file' = [file EXCEPT ![p][ms] = held[r]]
              /\ held' = [held EXCEPT ![r] = NoFile]
              /\ Done("meta")

\* Mutant: the files are swapped and the columns of `post` are not.
MergeMetaKept(r) ==
    /\ pc[r] = "meta"
    /\ MayWrite(r, Post(r), row[Post(r)])
    /\ Goto(r, IF DeleteSourceFiles THEN "purge" ELSE "commit")
    /\ UNCHANGED <<dbVars, fsVars, job, seen, stage, held, histVars>>

\* UPDATE of the content columns of `post` with those read from the absorbed post.
MergeMeta(r) ==
    LET p == Post(r)  new == seen[r][From(r)]
    IN  /\ pc[r] = "meta"
        /\ MayWrite(r, p, new)
        /\ MayIndex(r, p, new)
        /\ \/ /\ Duplicate(r, p, new)
              /\ RollBack(r)
           \/ /\ ~Duplicate(r, p, new)
              /\ Stage(r, p, IF row[p] = NoRow THEN Unset ELSE new)
              /\ Goto(r, IF DeleteSourceFiles THEN "purge" ELSE "commit")
              /\ UNCHANGED <<job, seen, held, histVars>>
        /\ UNCHANGED <<dbVars, fsVars>>

\* Mutant: the post that is kept loses its file instead of the absorbed one.
MergePurgeKept(r) ==
    LET kept == IF Op(r) = "replace" THEN From(r) ELSE Post(r)
    IN  /\ pc[r] = "purge" /\ Op(r) \in {"merge", "replace"}
        /\ file' = [file EXCEPT ![Post(r)][seen[r][kept].mime] = NoFile]
        /\ Touch(r, {From(r)})
        /\ Goto(r, "commit")
        /\ UNCHANGED <<dbVars, temp, job, seen, stage, held, stale>>

\* The absorbed post's file is removed, still inside the transaction.
MergePurge(r) ==
    LET kept == IF Op(r) = "replace" THEN Post(r) ELSE From(r)
    IN  /\ pc[r] = "purge" /\ Op(r) \in {"merge", "replace"}
        /\ file' = [file EXCEPT ![From(r)][seen[r][kept].mime] = NoFile]
        /\ Touch(r, {From(r)})
        /\ Goto(r, "commit")
        /\ UNCHANGED <<dbVars, temp, job, seen, stage, held, stale>>

-----------------------------------------------------------------------------
\* COMMIT.  A deletion removes the files afterwards if the config says so.
Commit(r) ==
    /\ pc[r] = "commit"
    /\ Publish(r)
    /\ \/ /\ Op(r) = "delete" /\ DeleteSourceFiles
          /\ Goto(r, "purge")
          /\ stage' = [stage EXCEPT ![r] = Nothing]
          /\ UNCHANGED <<job, seen, held, dirty>>
       \/ /\ ~(Op(r) = "delete" /\ DeleteSourceFiles)
          /\ Leave(r)
    /\ UNCHANGED <<issued, fsVars>>

\* Any step of a request can fail: a database error, a deadlock the server breaks,
\* an unreadable file, a JPEG XL that would be larger than the original.  A failed
\* UPDATE of the conversion endpoint is ConvertUndo.
Abort(r) ==
    /\ pc[r] # "idle"
    /\ ~(pc[r] = "row" /\ Op(r) = "convert")
    /\ RollBack(r)
    /\ UNCHANGED <<dbVars, fsVars>>

\* The server stops at any point: every open transaction is rolled back.
Crash ==
    /\ \E r \in Reqs : pc[r] # "idle"
    /\ pc' = [r \in Reqs |-> "idle"]
    /\ job' = [r \in Reqs |-> NoJob]
    /\ seen' = [r \in Reqs |-> Nothing]
    /\ stage' = [r \in Reqs |-> Nothing]
    /\ held' = [r \in Reqs |-> NoFile]
    /\ dirty' = [r \in Reqs |-> {}]
    /\ stale' = [r \in Reqs |-> {}]
    /\ torn' = torn \cup UNION {Spoiled(r) : r \in Reqs}
    /\ UNCHANGED <<dbVars, fsVars>>

Step(r) ==
    \/ \E t \in Tokens : StartCreate(r, t)
    \/ \E p \in Posts : Insert(r, p)
    \/ \E op \in DOMAIN FirstStep, p \in Posts, t \in Tokens : Read(r, op, p, t)
    \/ \E op \in {"merge", "replace"}, p, s \in Posts : StartMerge(r, op, p, s)
    \/ Fill(r) \/ Unlink(r) \/ Save(r)
    \/ ReplaceSignature(r)
    \/ Decode(r) \/ Encode(r) \/ ConvertRow(r) \/ ConvertUndo(r)
    \/ TaskRow(r) \/ TaskSweep(r)
    \/ DeleteRow(r) \/ Purge(r)
    \/ MergeRead(r) \/ MergeLock(r) \/ MergeAbsorb(r) \/ MergeMeta(r) \/ MergePurge(r)
    \/ \E label \in {"swap1", "swap2", "swap3"} : SwapMove(r, label)
    \/ Commit(r) \/ Abort(r)

Next ==
    \/ \E t \in Tokens : UploadFile(t) \/ ExpireUpload(t)
    \/ \E r \in Reqs : Step(r)
    \/ Crash

Spec == Init /\ [][Next]_vars

-----------------------------------------------------------------------------
(* Properties                                                               *)

\* The file the row of p names exists and holds the picture the row describes.
Served(p) == row[p] # NoRow /\ file[p][row[p].mime] = row[p].pic

\* Content is lost in no other way than these: a request rolls back after changing
\* files, commits content columns that were replaced since it read them, or changes
\* files another request is changing or has replaced the row of.  Every other post,
\* at every moment no request is in the middle of its files, has a row whose file is
\* there with that content (create, update, convert_to_jxl, delete and merge of
\* api/post.rs, the JPEG XL task of admin/post.rs, failures and crashes anywhere).
\* That task commits the new name before it removes the original, so a post only
\* tasks are working on is served even then, at every single step of theirs.
ContentServed ==
    \A p \in Posts :
        /\ row[p] # NoRow /\ p \notin torn
        /\ \A r \in Reqs : p \in dirty[r] => Op(r) = "task"
        => Served(p)

\* A post becomes visible only with its file in place, whatever else is running and
\* whatever happened to the upload (create_impl moves the file before COMMIT, and a
\* failed move rolls the row back), unless the orphan cleaner has torn it: it sees
\* the file before the row.
CreatedWithContent ==
    [][\A p \in Posts : row[p] = NoRow /\ row'[p] # NoRow /\ p \notin torn => Served(p)']_vars

\* A conversion that takes effect keeps the post's picture and changes its encoding
\* only, unless somebody else replaced the row or the files under it (both
\* conversions read the row and the file long before they write the row).
ConversionKeepsPicture ==
    [][\A r \in Reqs : LET p == Post(r) IN
          /\ \/ Op(r) = "convert" /\ pc[r] = "commit" /\ pc'[r] # "commit"
             \/ Op(r) = "task" /\ pc[r] = "row" /\ pc'[r] = "sweep"
          /\ row[p] # NoRow /\ p \notin torn'
          => row'[p] = [pic |-> row[p].pic, mime |-> Jxl]]_vars

\* A merge that commits leaves one post, with the content the client chose to keep
\* and the file to go with it: its own, or, with replaceContent, the absorbed post's
\* (update::post::merge swaps the files before it rewrites the row).
MergeKeepsChosenContent ==
    [][\A r \in Reqs, p, s \in Posts :
          /\ Op(r) \in {"merge", "replace"} /\ p = Post(r) /\ s = From(r)
          /\ pc[r] = "commit" /\ pc'[r] # pc[r] /\ row' # row
          /\ row[p] # NoRow /\ {p, s} \cap torn' = {}
          => /\ row'[s] = NoRow
             /\ row'[p] = IF Op(r) = "replace" THEN row[s] ELSE row[p]
             /\ (\A q \in Reqs : p \notin dirty'[q]) => Served(p)']_vars

-----------------------------------------------------------------------------
(* What a doc or a comment says of the code, and the code does not do.       *)

\* A request that edits a post whose content was replaced since it was read is
\* rejected (api/doc.rs: "If someone has edited the post in the mean time, the
\* server will reject the request as well").
StaleEditRejected ==
    [][\A r \in Reqs : LET p == Post(r) IN
          Op(r) = "edit" /\ pc[r] = "commit" /\ pc'[r] # pc[r] => row'[p] = row[p]]_vars

\* When nothing is running, every post has its file: the conversion endpoint treats
\* its row update as having "already succeeded" when it removes the original.
ServedWhenIdle ==
    (\A r \in Reqs : pc[r] = "idle") => \A p \in Posts : row[p] # NoRow => Served(p)

=============================================================================
