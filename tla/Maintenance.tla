---------------------------- MODULE Maintenance ----------------------------
(***************************************************************************)
(* The command line of the administrator (admin/mod.rs, admin/input.rs)    *)
(* and the tasks that derive columns and thumbnails again from the files   *)
(* (admin/post.rs, admin/database.rs), beside a server that goes on        *)
(* answering requests.  A task loads the rows of the posts it was given up *)
(* front, chunk by chunk; its workers then read a file without holding a   *)
(* connection and write what they derived to the row that has the ID, in a *)
(* statement of its own.                                                   *)
(*                                                                         *)
(* A file is a content; a column holds the content it was derived from, or *)
(* Old, what a former version derived, or None.  A thumbnail is a content  *)
(* and a format, and so is its size; an empty one is of None.              *)
(* Conversions to JPEG XL and merges are the business of PostContent and   *)
(* Duplicates; passwords of Credentials, statistics of Statistics.         *)
(***************************************************************************)
EXTENDS Integers, FiniteSets, Functions

CONSTANTS
    Posts,        \* post IDs, all present at start
    Contents,     \* what a file can hold
    Mimes, MimeOf,\* encodings, and that of every content
    Inspected,    \* encodings whose post type is seen in the file only
    Broken,       \* contents that cannot be decoded
    Formats, Configured, \* thumbnail formats, and config.thumbnails.format
    Starts,       \* the states of rows and disk a behaviour may start in
    Uploads,      \* contents a request may bring
    Tasks,        \* tasks of this instance
    Ops,          \* requests of this instance
    Workers,      \* threads of the rayon pool
    Chunk,        \* METADATA_CHUNK_SIZE
    MaxPasses,    \* bound: answers to the selection prompt
    MaxRequests,  \* bound: requests to the server
    Crashes,      \* whether the process may be killed, once
    Old, None

VARIABLES
    row,       \* posts |-> rows of table post
    sig,       \* posts |-> rows of table post_signature
    disk,      \* paths |-> contents of the files in the data directory
    \* The process of the administrator.
    shell,     \* where its main thread is, and what it was started for
    cancelled, \* the static CANCELLED, set by SIGINT and SIGTERM
    selected,  \* posts the pass was given
    unread,    \* those whose metadata is not loaded yet
    entries,   \* files a walk has not visited yet
    meta,      \* posts |-> rows as they were loaded
    queue,     \* posts no worker has taken
    worker,    \* what each thread is doing
    alarms,    \* posts reported by check_integrity
    \* The server.
    req, requests,
    \* History: posts a request changed since they were selected, posts whose
    \* file could not be used, posts a request and a worker had at once, and
    \* whether the process has been killed.
    changed, failed, crossed, killed

data  == <<row, sig, disk>>
pass  == <<selected, unread, entries, meta>>
task  == <<shell, cancelled, pass, queue, worker, alarms>>
serve == <<req, requests>>
told  == <<changed, failed, killed>>
mainVars == <<data, task, serve, told, crossed>>

-----------------------------------------------------------------------------
(* The data directory. *)

Path(dir, key, p, ext) == [dir |-> dir, key |-> key, post |-> p, ext |-> ext]

Thumbs == {"generated", "custom"}
Keys   == {"old", "new"}
Paths  == [dir : {"posts"}, key : Keys, post : Posts, ext : Mimes]
          \cup [dir : Thumbs, key : Keys, post : Posts, ext : Formats]

content_path(p, mime)  == Path("posts", "new", p, mime)
thumbnail_path(p, ext) == Path("generated", "new", p, ext)

Holds(path) == IF path \in DOMAIN disk THEN disk[path] ELSE None

Thumbnail(c, ext) == [of |-> c, as |-> ext]

Removed(d, paths) == Restrict(d, DOMAIN d \ paths)
Written(d, path, c) == [q \in DOMAIN d \cup {path} |-> IF q = path THEN c ELSE d[q]]
Moved(d, from, to) == Removed(Written(d, to, d[from]), IF from = to THEN {} ELSE {from})

Thumbnails(p) == {thumbnail_path(p, f) : f \in Formats}

detect_post_type(p, mime) ==
    IF mime \in Inspected THEN Holds(content_path(p, mime)) ELSE mime

representative_image(p, mime) ==
    LET c == Holds(content_path(p, mime))
    IN  IF c \in Broken THEN None ELSE c

\* A thumbnail is decoded in the format its name tells, the configured one first.
decode_generated_thumbnail(p) ==
    LET decoded(f) == LET path == thumbnail_path(p, f)
                      IN  IF Holds(path) # None /\ Holds(path).as = f THEN Holds(path).of ELSE None
        others == {decoded(f) : f \in Formats} \ {None}
    IN  IF decoded(Configured) # None THEN decoded(Configured)
        ELSE IF others = {} THEN None ELSE CHOOSE c \in others : TRUE

usable_thumbnail_size(path) == IF Holds(path) # None /\ Holds(path).of # None THEN Holds(path) ELSE None

-----------------------------------------------------------------------------
(* The tasks. *)

PhashTasks == {"calculate_phash", "recalculate_phash_total"}
ThumbnailTasks == {"regenerate_thumbnails", "regenerate_thumbnails_force"}
WalkTasks  == {"reset_filenames", "reset_thumbnail_sizes"}

\* What a worker derives from the files of post p, given its metadata.
Derived(t, p) ==
    LET mime == meta[p].mime
    IN  CASE t \in {"check_integrity", "recompute_checksums"} -> Holds(content_path(p, mime))
          [] t = "recompute_signatures" -> representative_image(p, mime)
          [] t = "recompute_post_types" -> detect_post_type(p, mime)
          [] t \in ThumbnailTasks -> representative_image(p, mime)
          [] t \in PhashTasks ->
                IF representative_image(p, mime) # None
                THEN representative_image(p, mime) ELSE decode_generated_thumbnail(p)
          [] t = "recompute_index" -> IF p \in DOMAIN sig THEN sig[p].signature ELSE None

Column == [t \in {"recompute_checksums", "recompute_post_types"} \cup PhashTasks |->
             CASE t = "recompute_checksums" -> "checksum"
               [] t = "recompute_post_types" -> "type"
               [] OTHER -> "phash"]

TaskNames ==
    {"check_integrity", "recompute_checksums", "recompute_signatures", "recompute_index",
     "recompute_post_types"} \cup PhashTasks \cup ThumbnailTasks \cup WalkTasks

-----------------------------------------------------------------------------
(* What a behaviour starts with: a column is what a former version left     *)
(* there or belongs to the file.                                            *)

Value == Contents \cup Mimes \cup {Old, None}
Size  == [of : Contents \cup {None}, as : Formats]
Row   == [mime : Mimes, checksum : Value, type : Value, phash : Value,
          generated : Size \cup {None}, custom : Size \cup {None}]

SigOK(sigs) ==
    /\ sigs \in [DOMAIN sigs -> [signature : Value, words : Value]]
    /\ DOMAIN sigs \subseteq Posts

DiskOK(files) ==
    /\ files \in [DOMAIN files -> Contents \cup Size] /\ DOMAIN files \subseteq Paths
    /\ \A path \in DOMAIN files :
          files[path] \in IF path.dir = "posts" THEN Contents ELSE Size

\* The file of a post, under its new name or still under the old one.
FileOf(files, p, mime) ==
    LET named(key) == Path("posts", key, p, mime)
    IN  CASE named("new") \in DOMAIN files -> files[named("new")]
          [] named("new") \notin DOMAIN files /\ named("old") \in DOMAIN files -> files[named("old")]
          [] OTHER -> None

\* What its thumbnails show.
Shown(files, p) == {files[path].of : path \in Thumbnails(p) \cap DOMAIN files}

\* Row r, signatures and files agree on post p. As long as its file has the old
\* name a hash is taken from a thumbnail, which then shows what the file holds.
Agree(r, sigs, files, p) ==
    LET c == FileOf(files, p, r.mime)
    IN  c # None =>
          /\ r.checksum \in {Old, c}
          /\ r.type \in {Old, IF r.mime \in Inspected THEN c ELSE r.mime}
          /\ r.phash \in {None, Old, c} \/ (c \in Broken /\ r.phash \in Shown(files, p))
          /\ p \in DOMAIN sigs =>
                /\ sigs[p].signature \in {Old, IF c \in Broken THEN None ELSE c}
                /\ sigs[p].words \in {Old, sigs[p].signature}
          /\ content_path(p, r.mime) \notin DOMAIN files /\ c \notin Broken =>
                \A path \in DOMAIN files :
                    path.dir = "generated" /\ path.post = p => files[path].of \in {c, None}

ASSUME MaintenanceAssumption ==
    /\ Posts \subseteq Nat /\ Configured \in Formats
    /\ MimeOf \in [Contents -> Mimes] /\ Inspected \subseteq Mimes
    /\ Broken \subseteq Contents /\ Uploads \subseteq Contents \ Broken
    /\ Chunk \in Nat \ {0} /\ Tasks \subseteq TaskNames
    /\ Ops \subseteq {"edit", "replace", "delete"}
ASSUME NothingAssumption ==
    None \notin Posts \cup Contents \cup Mimes \cup Size \cup Row /\ None # Old
ASSUME StartAssumption ==
    \A s \in Starts :
        /\ s.row \in [Posts -> Row \cup {None}] /\ SigOK(s.sig) /\ DiskOK(s.disk)
        /\ \A p \in Posts : s.row[p] # None => Agree(s.row[p], s.sig, s.disk, p)

-----------------------------------------------------------------------------

Nobody == [at |-> "idle", post |-> None, got |-> None]
Quiet  == [at |-> "idle", post |-> None, op |-> "none", old |-> None, new |-> None]

Init ==
    /\ \E s \in Starts : row = s.row /\ sig = s.sig /\ disk = s.disk
    /\ shell \in [at : {"start"}, task : Tasks, manual : BOOLEAN, passes : {0}]
    /\ cancelled = FALSE
    /\ selected = {} /\ unread = {} /\ entries = {} /\ meta = << >> /\ queue = {}
    /\ worker = [w \in Workers |-> Nobody]
    /\ alarms = {}
    /\ req = Quiet /\ requests = 0
    /\ changed = {} /\ failed = {} /\ crossed = {} /\ killed = FALSE

Idle == \A w \in Workers : worker[w].at = "idle"
Go(at) == shell' = [shell EXCEPT !.at = at]
Do(w, at, p, got) == worker' = [worker EXCEPT ![w] = [at |-> at, post |-> p, got |-> got]]
Rest(w) == worker' = [worker EXCEPT ![w] = Nobody]

\* run_task forgets a signal that came before it. The walks ask for no posts.
run_task ==
    /\ shell.at = "start"
    /\ cancelled' = FALSE
    /\ IF shell.task \in WalkTasks
       THEN /\ entries' = {q \in DOMAIN disk : shell.task = "reset_filenames" \/ q.dir \in Thumbs}
            /\ Go("walk")
            /\ selected' = {p \in Posts : row[p] # None} /\ changed' = {} /\ failed' = {}
       ELSE Go("prompt") /\ UNCHANGED <<entries, selected, changed, failed>>
    /\ UNCHANGED <<data, unread, meta, queue, worker, alarms, serve, killed>>

\* The selection prompt: by hand any search, "done" or "exit"; without a hand
\* the first answer is the empty search and the second is "done".
user_query ==
    /\ shell.at = "prompt" /\ shell.passes < MaxPasses
    /\ shell.manual \/ shell.passes = 0
    /\ selected' \in SUBSET {p \in Posts : row[p] # None}
    /\ shell.manual \/ selected' = {p \in Posts : row[p] # None}
    /\ shell' = [shell EXCEPT !.passes = @ + 1,
                    !.at = IF shell.task = "recompute_index" THEN "work" ELSE "load"]
    /\ IF shell.task = "recompute_index"
       THEN queue' = selected' /\ UNCHANGED unread
       ELSE unread' = selected' /\ UNCHANGED queue
    /\ meta' = << >> /\ changed' = {} /\ failed' = {} /\ alarms' = {}
    /\ UNCHANGED <<data, cancelled, entries, worker, serve, killed>>

Leave ==
    /\ shell.at = "prompt"
    /\ shell.manual \/ shell.passes > 0
    /\ Go("end")
    /\ UNCHANGED <<data, cancelled, pass, queue, worker, alarms, serve, told>>

Smallest(S, n) == {p \in S : Cardinality({q \in S : q <= p}) <= n}

\* calculate_phash keeps the posts that have no hash; the others take them all.
Targets(rows) ==
    {p \in DOMAIN rows : shell.task = "calculate_phash" => rows[p].phash = None}

\* One chunk of metadata; the workers start when the last one is loaded.
load_metadata_in_chunks ==
    /\ shell.at = "load"
    /\ IF unread = {}
       THEN queue' = Targets(meta) /\ Go("work") /\ UNCHANGED <<unread, meta>>
       ELSE IF cancelled
       THEN Go("end") /\ unread' = {} /\ UNCHANGED <<meta, queue>>
       ELSE LET now == Smallest(unread, Chunk)
            IN  /\ meta' = [p \in DOMAIN meta \cup {q \in now : row[q] # None} |->
                              IF p \in now THEN row[p] ELSE meta[p]]
                /\ unread' = unread \ now
                /\ UNCHANGED <<queue, shell>>
    /\ UNCHANGED <<data, cancelled, selected, entries, worker, alarms, serve, told>>

-----------------------------------------------------------------------------
(* The workers. Hashes are computed one post at a time, in the order of IDs. *)

Take(w) ==
    /\ shell.at = "work" /\ worker[w].at = "idle"
    /\ \E p \in queue :
        /\ shell.task \in PhashTasks => Idle /\ \A q \in queue : p <= q
        /\ IF cancelled
           THEN queue' = {} /\ Go("stop") /\ UNCHANGED worker
           ELSE queue' = queue \ {p} /\ Do(w, "read", p, None) /\ UNCHANGED shell
    /\ UNCHANGED <<data, cancelled, pass, alarms, serve, told>>

\* The file is there, though it may be empty.
KeptEmpty(p) ==
    /\ shell.task = "regenerate_thumbnails"
    /\ Holds(thumbnail_path(p, Configured)) # None

\* A thumbnail in the configured format is kept unless the task is forced.
Kept(p) ==
    /\ shell.task = "regenerate_thumbnails"
    /\ usable_thumbnail_size(thumbnail_path(p, Configured)) # None

Read(w) ==
    LET p   == worker[w].post
        got == IF Kept(p) THEN Holds(thumbnail_path(p, Configured))
               ELSE Derived(shell.task, p)
    IN  /\ worker[w].at = "read"
        /\ IF got = None
           THEN Rest(w) /\ failed' = failed \cup {p} /\ UNCHANGED alarms
           ELSE /\ UNCHANGED failed
                /\ IF shell.task = "check_integrity"
                   THEN Rest(w) /\ alarms' = alarms \cup (IF got = meta[p].checksum THEN {} ELSE {p})
                   ELSE /\ UNCHANGED alarms
                        /\ IF Kept(p) THEN IF got = meta[p].generated THEN Rest(w)
                                           ELSE Do(w, "size", p, got)
                           ELSE IF shell.task = "recompute_checksums" THEN Do(w, "check", p, got)
                           ELSE IF shell.task \in ThumbnailTasks THEN Do(w, "clear", p, got)
                           ELSE Do(w, "write", p, got)
        /\ UNCHANGED <<data, shell, cancelled, pass, queue, serve, changed, killed>>

\* A post whose checksum another post has is left as it is.
CheckDuplicate(w) ==
    LET p == worker[w].post
    IN  /\ worker[w].at = "check"
        /\ IF \E q \in Posts \ {p} : row[q] # None /\ row[q].checksum = worker[w].got
           THEN Rest(w) /\ failed' = failed \cup {p}
           ELSE Do(w, "write", p, worker[w].got) /\ UNCHANGED failed
        /\ UNCHANGED <<data, shell, cancelled, pass, queue, alarms, serve, changed,
                       killed>>

\* A replacement has written the row and the signature, and excludes other
\* writers until it commits. An edit writes the row as it commits.
Locked(p) == req.post = p /\ req.op = "replace" /\ req.at = "commit"

\* Statements that write what was derived. An update of a row that has been
\* deleted writes nothing; a checksum is unique.
WriteColumn(w) ==
    LET p == worker[w].post
        c == Column[shell.task]
    IN  /\ worker[w].at = "write" /\ shell.task \in DOMAIN Column
        /\ ~Locked(p)
        /\ IF \/ row[p] = None
              \/ c = "checksum" /\ \E q \in Posts \ {p} :
                                      row[q] # None /\ row[q].checksum = worker[w].got
           THEN failed' = failed \cup {p} /\ UNCHANGED row
           ELSE row' = [row EXCEPT ![p][c] = worker[w].got] /\ UNCHANGED failed
        /\ Rest(w)
        /\ UNCHANGED <<sig, disk, shell, cancelled, pass, queue, alarms, serve, changed,
                       killed>>

Signed(got) == [signature |-> got, words |-> got]

\* A statement that waited for a request to replace the signature finds its
\* row gone. Only recompute_signatures makes a row that is missing.
WriteSignature(w) ==
    LET p == worker[w].post
        found == p \in DOMAIN sig /\ ~Locked(p)
        put(s) == sig' = [q \in DOMAIN sig \cup {p} |-> IF q = p THEN s ELSE sig[q]]
    IN  /\ worker[w].at = "write" /\ shell.task \in {"recompute_signatures", "recompute_index"}
        /\ \/ /\ shell.task = "recompute_signatures" /\ row[p] # None /\ ~Locked(p)
              /\ put(Signed(worker[w].got))
           \/ /\ shell.task = "recompute_index" /\ found
              /\ put([sig[p] EXCEPT !.words = worker[w].got])
           \/ (row[p] = None \/ Locked(p)) /\ UNCHANGED sig
        /\ Rest(w)
        /\ UNCHANGED <<row, disk, shell, cancelled, pass, queue, alarms, serve, told>>

\* A thumbnail: old ones are removed, the new one is written, its size stored.
ClearThumbnails(w) ==
    LET p == worker[w].post
    IN  /\ worker[w].at = "clear"
        /\ disk' = Removed(disk, Thumbnails(p))
        /\ Do(w, "save", p, worker[w].got)
        /\ UNCHANGED <<row, sig, shell, cancelled, pass, queue, alarms, serve, told>>

SaveThumbnail(w) ==
    LET p    == worker[w].post
        path == thumbnail_path(p, Configured)
    IN  /\ worker[w].at = "save"
        /\ disk' = Written(disk, path, Thumbnail(worker[w].got, Configured))
        /\ Do(w, "size", p, disk'[path])
        /\ UNCHANGED <<row, sig, shell, cancelled, pass, queue, alarms, serve, told>>

WriteSize(w) ==
    LET p == worker[w].post
    IN  /\ worker[w].at = "size" /\ ~Locked(p)
        /\ row' = IF row[p] = None THEN row ELSE [row EXCEPT ![p].generated = worker[w].got]
        /\ Rest(w)
        /\ UNCHANGED <<sig, disk, shell, cancelled, pass, queue, alarms, serve, told>>

Work(w) == \/ Take(w) \/ Read(w) \/ CheckDuplicate(w) \/ WriteColumn(w) \/ WriteSignature(w)
           \/ ClearThumbnails(w) \/ SaveThumbnail(w) \/ WriteSize(w)

\* The pass is over when all have rested: the prompt comes again, unless a
\* worker noticed the signal.
EndPass ==
    /\ shell.at \in {"work", "stop"} /\ queue = {} /\ Idle
    /\ Go(IF shell.at = "work" THEN "prompt" ELSE "end")
    /\ UNCHANGED <<data, cancelled, pass, queue, worker, alarms, serve, told>>

-----------------------------------------------------------------------------
(* The two walks over the data directory, one entry after the other. *)

\* The configured format is that of thumbnails.
WalkedAllAlike(path) == [path EXCEPT !.key = "new", !.ext = Configured]

Walked(path) == [path EXCEPT !.key = "new",
                             !.ext = IF path.dir = "posts" THEN @ ELSE Configured]

reset_filenames ==
    /\ shell.at = "walk" /\ shell.task = "reset_filenames"
    /\ ~cancelled
    /\ \E path \in entries :
        /\ entries' = entries \ {path}
        /\ disk' = IF path \in DOMAIN disk THEN Moved(disk, path, Walked(path)) ELSE disk
    /\ UNCHANGED <<row, sig, shell, cancelled, selected, unread, meta, queue, worker, alarms, serve, told>>

\* The size of a file is read, then stored. A file that is gone ends the walk.
StatThumbnail(w) ==
    /\ shell.at = "walk" /\ shell.task = "reset_thumbnail_sizes"
    /\ ~cancelled /\ Idle
    /\ \E path \in entries :
        IF path \in DOMAIN disk
        THEN /\ Do(w, path.dir, path.post, disk[path])
             /\ entries' = entries \ {path} /\ UNCHANGED shell
        ELSE entries' = {} /\ Go("end") /\ UNCHANGED worker
    /\ UNCHANGED <<data, cancelled, selected, unread, meta, queue, alarms, serve, told>>

StoreSize(w) ==
    LET p == worker[w].post
    IN  /\ shell.at = "walk" /\ worker[w].at \in Thumbs /\ ~Locked(p)
        /\ row' = IF row[p] = None THEN row ELSE [row EXCEPT ![p][worker[w].at] = worker[w].got]
        /\ Rest(w)
        /\ UNCHANGED <<sig, disk, shell, cancelled, pass, queue, alarms, serve, told>>

EndWalk ==
    /\ shell.at = "walk" /\ Idle
    /\ cancelled \/ entries = {}
    /\ Go(IF entries = {} THEN "walked" ELSE "end")
    /\ UNCHANGED <<data, cancelled, pass, queue, worker, alarms, serve, told>>

-----------------------------------------------------------------------------
(* Signals, and the end of the process: it is then started for another task. *)

Signal ==
    /\ ~cancelled /\ shell.at # "end"
    /\ cancelled' = TRUE
    /\ UNCHANGED <<data, shell, pass, queue, worker, alarms, serve, told>>

Started(t) ==
    /\ shell' = [shell EXCEPT !.at = "start", !.task = t]
    /\ cancelled' = FALSE /\ selected' = {} /\ unread' = {} /\ entries' = {} /\ meta' = << >> /\ queue' = {}
    /\ worker' = [w \in Workers |-> Nobody] /\ alarms' = {}
    /\ UNCHANGED <<row, sig, serve, changed, failed>>

Again ==
    /\ shell.at \in {"end", "walked"} /\ shell.passes < MaxPasses
    /\ \E t \in Tasks : Started(t)
    /\ UNCHANGED <<disk, killed>>

\* A write that is interrupted may leave an empty file.
Kill ==
    /\ Crashes /\ ~killed /\ shell.at \notin {"end", "walked", "start"}
    /\ Started(shell.task)
    /\ \/ UNCHANGED disk
       \/ \E w \in Workers :
            /\ worker[w].at = "save"
            /\ disk' = Written(disk, thumbnail_path(worker[w].post, Configured),
                              Thumbnail(None, Configured))
    /\ killed' = TRUE

-----------------------------------------------------------------------------
(* The server: a request for one post at a time. An edit saves the row it  *)
(* read with what it changed; a replacement brings new content, writes the *)
(* signature and the files, then the row; a deletion removes the files     *)
(* once it is committed.                                                   *)

\* The hash of the old content stays.
FreshWithoutPhash(p, c) ==
    [mime |-> MimeOf[c], checksum |-> c, phash |-> req.old.phash,
     type |-> IF MimeOf[c] \in Inspected THEN c ELSE MimeOf[c],
     generated |-> Thumbnail(c, Configured), custom |-> req.old.custom]

Fresh(p, c) ==
    [mime |-> MimeOf[c], checksum |-> c, phash |-> c,
     type |-> IF MimeOf[c] \in Inspected THEN c ELSE MimeOf[c],
     generated |-> Thumbnail(c, Configured), custom |-> req.old.custom]

BeginRequest ==
    /\ req.at = "idle" /\ requests < MaxRequests
    /\ \E p \in {q \in Posts : row[q] # None}, op \in Ops :
        req' = [at |-> IF op = "replace" THEN "files" ELSE "commit", post |-> p, op |-> op,
                old |-> row[p], new |-> None]
    /\ requests' = requests + 1
    /\ UNCHANGED <<data, task, told>>

ReplaceFiles ==
    /\ req.at = "files"
    /\ \E c \in {u \in Uploads : \A p \in Posts : row[p] # None => row[p].checksum # u} :
        /\ disk' = Written(Written(Removed(disk, {content_path(req.post, req.old.mime)}),
                                   content_path(req.post, MimeOf[c]), c),
                           thumbnail_path(req.post, Configured), Thumbnail(c, Configured))
        /\ req' = [req EXCEPT !.at = "commit", !.new = c]
    /\ UNCHANGED <<row, sig, task, requests, told>>

CommitRequest ==
    LET p == req.post
    IN  /\ req.at = "commit"
        /\ row' = [row EXCEPT ![p] = CASE req.op = "delete" -> None
                                       [] req.op = "edit" -> req.old
                                       [] OTHER -> Fresh(p, req.new)]
        /\ sig' = CASE req.op = "delete" -> Restrict(sig, DOMAIN sig \ {p})
                    [] req.op = "edit" -> sig
                    [] OTHER -> [q \in DOMAIN sig \cup {p} |->
                                    IF q = p THEN Signed(req.new) ELSE sig[q]]
        /\ req' = IF req.op = "delete" THEN [req EXCEPT !.at = "gone"] ELSE Quiet
        /\ changed' = changed \cup {p}
        /\ UNCHANGED <<disk, task, requests, failed, killed>>

PurgeFiles ==
    /\ req.at = "gone"
    /\ disk' = Removed(disk, {content_path(req.post, req.old.mime)}
                             \cup {Path(d, "new", req.post, Configured) : d \in Thumbs})
    /\ req' = Quiet
    /\ UNCHANGED <<row, sig, task, requests, told>>

Request == BeginRequest \/ ReplaceFiles \/ CommitRequest \/ PurgeFiles

\* A worker and a request are at the same post. The type of most encodings is
\* told from the metadata alone, which may be older than the worker.
Underway(p) ==
    \/ \E w \in Workers : worker[w].post = p
    \/ shell.task = "recompute_post_types" /\ p \in queue \cup DOMAIN meta

\* The walk has moved a file onto another, which a request wrote under the new
\* name or which is in the configured format; or it has put the old file beside
\* that of a replacement.
Overwritten(p) ==
    \E path \in DOMAIN disk \ DOMAIN disk' :
        /\ shell.task = "reset_filenames" /\ shell.at = "walk"
        /\ path.post = p /\ (Walked(path) \in DOMAIN disk \/ Locked(p))

Next ==
    /\ \/ run_task \/ user_query \/ Leave \/ load_metadata_in_chunks \/ EndPass
       \/ \E w \in Workers : Work(w) \/ StatThumbnail(w) \/ StoreSize(w)
       \/ reset_filenames \/ EndWalk \/ Signal \/ Again \/ Kill
       \/ Request
    /\ crossed' = crossed \cup {p \in Posts : Overwritten(p) \/ (req'.post = p /\ Underway(p)')}

Spec == Init /\ [][Next]_mainVars

-----------------------------------------------------------------------------
(* Properties. *)

\* Every variable has its type: no row is half written, and no path outside
\* the data directory comes to be.
MaintenanceTypeOK ==
    /\ row \in [Posts -> Row \cup {None}] /\ SigOK(sig) /\ DiskOK(disk)
    /\ cancelled \in BOOLEAN /\ killed \in BOOLEAN
    /\ \A S \in {selected, unread, queue, DOMAIN meta, alarms, changed, failed, crossed} :
          S \subseteq Posts
    /\ entries \subseteq Paths
    /\ \A w \in Workers : worker[w].post \in Posts \cup {None}

Undisturbed(p) ==
    /\ row[p] # None /\ p \notin crossed /\ req.post # p
    /\ \A w \in Workers : worker[w].post # p

\* What a hash may be of: the file, or a thumbnail of one that cannot be decoded.
Images(p) ==
    LET file == Holds(content_path(p, row[p].mime))
    IN  {file} \cup IF file \in Broken \cup {None} THEN Shown(disk, p) ELSE {}

\* Whatever tasks and requests do, in any order and however often they are
\* stopped, a derived column is either what a former version left there or
\* belongs to the file the row names now; and the words by which a post is
\* found belong to its signature. Only a request that was at a post together
\* with a worker can leave it otherwise (workers write by ID, and edits save
\* the row they read), or the walk of reset_filenames, which moves files onto
\* others.
ColumnsCurrent ==
    \A p \in {q \in Posts : Undisturbed(q) /\ content_path(q, row[q].mime) \in DOMAIN disk} :
        /\ row[p].checksum \in {Old, Holds(content_path(p, row[p].mime))}
        /\ row[p].type \in {Old, detect_post_type(p, row[p].mime)}
        /\ row[p].phash \in {None, Old} \cup Images(p)
        /\ p \in DOMAIN sig =>
             /\ sig[p].signature \in {Old, representative_image(p, row[p].mime)}
             /\ sig[p].words \in {Old, sig[p].signature}

Only(p, dir) == {f \in Formats : Path(dir, "new", p, f) \in DOMAIN disk} = {Configured}

\* What a pass of a task promises of a post it was given.
Repaired(t, p) ==
    LET file == Holds(content_path(p, row[p].mime))
        thumbnail == thumbnail_path(p, Configured)
    IN  CASE t = "check_integrity" -> p \in alarms <=> row[p].checksum # file
          [] t = "recompute_checksums" -> row[p].checksum = file
          [] t = "recompute_post_types" -> row[p].type = detect_post_type(p, row[p].mime)
          [] t = "recompute_signatures" -> p \in DOMAIN sig /\ sig[p] = Signed(file)
          [] t = "recompute_index" -> p \in DOMAIN sig => sig[p].words = sig[p].signature
          [] t = "calculate_phash" -> row[p].phash # None
          [] t = "recalculate_phash_total" -> row[p].phash \in Images(p)
          [] t = "regenerate_thumbnails" ->
                /\ usable_thumbnail_size(thumbnail) # None
                /\ row[p].generated = disk[thumbnail]
          [] t = "regenerate_thumbnails_force" ->
                /\ Only(p, "generated")
                /\ row[p].generated = disk[thumbnail] /\ disk[thumbnail] = Thumbnail(file, Configured)
          [] t = "reset_filenames" ->
                /\ file # None
                /\ \A q \in DOMAIN disk : q.post = p => q.key = "new"
          [] t = "reset_thumbnail_sizes" ->
                \A dir \in Thumbs :
                    Only(p, dir) => row[p][dir] = disk[Path(dir, "new", p, Configured)]

\* A pass that ends without having noticed a signal has done what it is for,
\* for every post it was given whose file could be used and that no request
\* changed meanwhile: whatever an earlier pass that was stopped, killed or
\* raced had left there.
PassRepairs ==
    [][ (shell.at = "work" /\ shell'.at = "prompt") \/ (shell.at = "walk" /\ shell'.at = "walked")
        => \A p \in selected \ (changed \cup failed \cup crossed) :
             Undisturbed(p) => Repaired(shell.task, p) ]_mainVars
=============================================================================
