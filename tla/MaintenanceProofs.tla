------------------------- MODULE MaintenanceProofs -------------------------
(***************************************************************************)
(* Proofs about the tasks that derive columns again, for any number of     *)
(* posts, workers and requests, any files and any order of tasks.  A       *)
(* worker holds no lock between the file it reads and the row it writes:   *)
(* what it is about to write is right as long as no request is at the      *)
(* post, which is what crossed records.                                    *)
(***************************************************************************)
EXTENDS Maintenance, TLAPS

-----------------------------------------------------------------------------
(* The inductive invariant: shapes.                                         *)

Busy == {"read", "check", "write", "clear", "save", "size"}

Replacing(p) == req.post = p /\ req.op = "replace" /\ req.at = "commit"

\* What a request may hold, by its step.
ReqTypes ==
    /\ req \in [at : {"idle", "files", "commit", "gone"}, post : Posts \cup {None},
                op : Ops \cup {"none"}, old : Row \cup {None}, new : Uploads \cup {None}]
    /\ req.at = "idle" => req.post = None
    /\ req.at # "idle" => req.post \in Posts /\ req.old \in Row /\ req.op \in Ops
    /\ req.at = "files" => req.op = "replace"
    /\ req.at = "gone" => req.op = "delete" /\ row[req.post] = None
    /\ Replacing(req.post) => req.new \in Uploads
    /\ req.at \in {"files", "commit"} => row[req.post] # None /\ row[req.post].mime = req.old.mime

ShellTypes ==
    /\ shell \in [at : {"start", "prompt", "load", "work", "stop", "walk", "walked", "end"},
                  task : Tasks, manual : BOOLEAN, passes : Nat]
    /\ shell.at \in {"prompt", "load", "work", "stop"} => shell.task \notin WalkTasks
    /\ shell.at = "walk" => shell.task \in WalkTasks

WorkerTypes ==
    worker \in [Workers -> [at : Busy \cup Thumbs \cup {"idle"}, post : Posts \cup {None},
                            got : Value \cup Size]]

MetaTypes == meta \in [DOMAIN meta -> Row] /\ DOMAIN meta \subseteq Posts

Types == MaintenanceTypeOK /\ ReqTypes /\ ShellTypes /\ WorkerTypes /\ MetaTypes

-----------------------------------------------------------------------------
(* Who is at a post.                                                        *)

\* What a worker has got, by its step.
Fits(at, got) ==
    /\ at = "check" => shell.task = "recompute_checksums"
    /\ at \in {"check", "write"} => got \in Value
    /\ at \in {"clear", "save"} => got \in Contents
    /\ at \in {"size"} \cup Thumbs => got \in Size

\* No worker outlives its pass, and a walk has no worker that derives.
Confined ==
    /\ \A w \in Workers :
          /\ worker[w].at = "idle" <=> worker[w].post = None
          /\ worker[w].at \in Busy => shell.at \in {"work", "stop"}
          /\ worker[w].at \in Thumbs => shell.at = "walk"
          /\ worker[w].at \in Busy /\ shell.task # "recompute_index" => worker[w].post \in DOMAIN meta
          /\ Fits(worker[w].at, worker[w].got)
    /\ queue # {} => shell.at = "work"
    /\ shell.task # "recompute_index" => queue \subseteq DOMAIN meta
    /\ shell.task \in WalkTasks => DOMAIN meta = {}
    /\ unread \cap DOMAIN meta = {}
    /\ shell.at = "walk" /\ shell.task = "reset_thumbnail_sizes" =>
          \A path \in entries : path.dir \in Thumbs

\* A post has one worker.
Alone ==
    \A w \in Workers : worker[w].post # None =>
        /\ worker[w].post \notin queue
        /\ \A v \in Workers : worker[v].post = worker[w].post => v = w

-----------------------------------------------------------------------------
(* A post that no request and worker were at together.                      *)

Thumbed(p, c) ==
    /\ thumbnail_path(p, Configured) \in DOMAIN disk
    /\ disk[thumbnail_path(p, Configured)] = Thumbnail(c, Configured)

\* The metadata of a post that has been replaced name a file that is gone; its
\* thumbnail shows the new one.
MetaOK(p) ==
    p \in DOMAIN meta =>
        /\ \/ meta[p].mime = IF Replacing(p) THEN MimeOf[req.new] ELSE row[p].mime
           \/ /\ content_path(p, meta[p].mime) \notin DOMAIN disk
              /\ Thumbed(p, IF Replacing(p) THEN req.new ELSE FileOf(disk, p, row[p].mime))
        /\ shell.task = "recompute_post_types" => meta[p].mime = row[p].mime

\* A request holds the row, and a replacement has put the new file in place of the old.
HeldOK(p) ==
    /\ req.post = p => row[p] = req.old
    /\ Replacing(p) =>
          LET path == content_path(p, MimeOf[req.new])
          IN  /\ path \in DOMAIN disk /\ disk[path] = req.new /\ Thumbed(p, req.new)
              /\ MimeOf[req.new] # row[p].mime => content_path(p, row[p].mime) \notin DOMAIN disk

\* What a worker is about to write belongs to the file.
GotOK(w, p) ==
    LET c == FileOf(disk, p, row[p].mime)
        got == worker[w].got
        t == shell.task
    IN  /\ worker[w].at \in {"check", "write"} /\ t = "recompute_checksums" => got = c
        /\ worker[w].at = "write" =>
              /\ t = "recompute_signatures" => got = c /\ c \notin Broken
              /\ t = "recompute_post_types" =>
                    got = IF row[p].mime \in Inspected THEN c ELSE row[p].mime
              /\ t \in PhashTasks /\ c # None =>
                    got = c \/ (c \in Broken /\ got \in Shown(disk, p))
              /\ t = "recompute_index" => p \in DOMAIN sig /\ got = sig[p].signature
        /\ worker[w].at \in {"clear", "save"} =>
              /\ meta[p].mime = row[p].mime
              /\ content_path(p, row[p].mime) \in DOMAIN disk /\ c \notin Broken

DataOK(p) ==
    row[p] # None =>
        /\ ~Replacing(p) => Agree(row[p], sig, disk, p)
        /\ MetaOK(p) /\ HeldOK(p)
        /\ \A w \in Workers : worker[w].post = p => GotOK(w, p)

Met(p) == req.post = p /\ Underway(p)

Shape == Types /\ Confined /\ Alone

Inv == Shape /\ \A p \in Posts \ crossed : ~Met(p) /\ DataOK(p)

-----------------------------------------------------------------------------
(* Records, rows and files.                                                 *)

Put(r, c, v) == [r EXCEPT ![c] = v]

LEMMA PutColumn ==
    ASSUME NEW r \in Row, NEW v \in Value, NEW c \in {"checksum", "type", "phash"}
    PROVE  /\ Put(r, c, v) \in Row
           /\ Put(r, c, v).mime = r.mime
           /\ Put(r, c, v).checksum = IF c = "checksum" THEN v ELSE r.checksum
           /\ Put(r, c, v).type = IF c = "type" THEN v ELSE r.type
           /\ Put(r, c, v).phash = IF c = "phash" THEN v ELSE r.phash
<1>1. CASE c = "checksum"
  BY <1>1 DEF Row, Put
<1>2. CASE c = "type"
  BY <1>2 DEF Row, Put
<1>3. CASE c = "phash"
  BY <1>3 DEF Row, Put
<1> QED
  BY <1>1, <1>2, <1>3

\* No row, no content and no size is nothing.
LEMMA Something == None \notin Row /\ None \notin Size /\ None \notin Contents
BY NothingAssumption

-----------------------------------------------------------------------------
(* The start.                                                               *)

LEMMA InitInv == Init => Inv
<1> SUFFICES ASSUME Init PROVE Inv
  OBVIOUS
<1>1. PICK s \in Starts : row = s.row /\ sig = s.sig /\ disk = s.disk
  BY DEF Init
<1>2. row \in [Posts -> Row \cup {None}] /\ SigOK(sig) /\ DiskOK(disk)
  BY <1>1, StartAssumption
<1>3. MaintenanceTypeOK
  <2>1. DOMAIN meta = {} /\ entries \subseteq Paths
    BY DEF Init
  <2>2. \A w \in Workers : worker[w].post \in Posts \cup {None}
    BY DEF Init, Nobody
  <2> QED
    BY <1>2, <2>1, <2>2 DEF Init, MaintenanceTypeOK
<1>4. ReqTypes
  BY NothingAssumption DEF Init, Quiet, ReqTypes, Replacing
<1>5. ShellTypes /\ WorkerTypes /\ MetaTypes
  <2>1. ShellTypes
    BY DEF Init, ShellTypes
  <2>2. WorkerTypes
    BY DEF Init, Nobody, WorkerTypes, Value
  <2>3. MetaTypes
    BY DEF Init, MetaTypes
  <2> QED
    BY <2>1, <2>2, <2>3
<1>6. Confined /\ Alone
  BY DEF Init, Nobody, Confined, Alone, Busy, Thumbs, Fits
<1>7. ASSUME NEW p \in Posts PROVE ~Met(p) /\ DataOK(p)
  <2>1. req.post # p
    BY <1>7, NothingAssumption DEF Init, Quiet
  <2>2. row[p] # None => Agree(row[p], sig, disk, p)
    BY <1>1, StartAssumption
  <2>3. MetaOK(p)
    BY DEF Init, MetaOK
  <2>4. \A w \in Workers : worker[w].post # p
    BY <1>7, NothingAssumption DEF Init, Nobody
  <2> QED
    BY <2>1, <2>2, <2>3, <2>4 DEF DataOK, Met, HeldOK, Replacing
<1> QED
  BY <1>3, <1>4, <1>5, <1>6, <1>7 DEF Inv, Shape, Types

-----------------------------------------------------------------------------
(* Steps that touch neither rows nor files.                                 *)

LEMMA Frame ==
    ASSUME NEW p \in Posts, DataOK(p), UNCHANGED <<data, req>>, row[p] # None => MetaOK(p)',
           row[p] # None => \A w \in Workers : worker'[w].post = p => GotOK(w, p)'
    PROVE  DataOK(p)'
BY DEF DataOK, HeldOK, Replacing, Thumbed, data

LEMMA SameGot ==
    ASSUME NEW p \in Posts, NEW w \in Workers, UNCHANGED <<data, meta>>, worker'[w] = worker[w],
           shell'.task = shell.task
    PROVE  GotOK(w, p)' <=> GotOK(w, p)
BY DEF GotOK, data

LEMMA SameMeta ==
    ASSUME NEW p \in Posts, UNCHANGED <<data, req, meta>>, shell'.task = shell.task
    PROVE  MetaOK(p)' <=> MetaOK(p)
BY DEF MetaOK, data, Replacing, Thumbed

\* The main thread goes on: the pass, its posts and its workers stay.
Onward == run_task \/ Leave \/ EndPass \/ EndWalk \/ Signal

LEMMA OnwardKeeps ==
    ASSUME Shape, Onward
    PROVE  UNCHANGED <<data, serve, worker, meta, queue>> /\ shell'.task = shell.task
<1> USE DEF data, task, pass, serve, told
<1>1. CASE run_task
  BY <1>1 DEF run_task, Go, Shape, Types, ShellTypes
<1>2. CASE Leave
  BY <1>2 DEF Leave, Go, Shape, Types, ShellTypes
<1>3. CASE EndPass
  BY <1>3 DEF EndPass, Go, Shape, Types, ShellTypes
<1>4. CASE EndWalk
  BY <1>4 DEF EndWalk, Go, Shape, Types, ShellTypes
<1>5. CASE Signal
  BY <1>5 DEF Signal, Shape, Types, ShellTypes
<1> QED
  BY <1>1, <1>2, <1>3, <1>4, <1>5 DEF Onward

LEMMA OnwardShape ==
    ASSUME Shape, Onward, crossed' \subseteq Posts
    PROVE  Shape'
<1> USE DEF data, task, pass, serve, told
<1>1. UNCHANGED <<data, serve, worker, meta, queue>> /\ shell'.task = shell.task
  BY OnwardKeeps
<1>2. ShellTypes'
  BY DEF Shape, Types, ShellTypes, Onward, run_task, Leave, EndPass, EndWalk, Signal, Go
<1>3. ReqTypes' /\ WorkerTypes' /\ MetaTypes'
  BY <1>1 DEF Shape, Types, ReqTypes, WorkerTypes, MetaTypes, Replacing
<1>4. MaintenanceTypeOK'
  <2>1. cancelled' \in BOOLEAN /\ killed' \in BOOLEAN /\ entries' \subseteq Paths
    BY DEF Shape, Types, MaintenanceTypeOK, DiskOK, Onward, run_task, Leave, EndPass, EndWalk,
       Signal
  <2>2. /\ selected' \subseteq Posts /\ unread' \subseteq Posts /\ alarms' \subseteq Posts
        /\ changed' \subseteq Posts /\ failed' \subseteq Posts
    BY DEF Shape, Types, MaintenanceTypeOK, Onward, run_task, Leave, EndPass, EndWalk, Signal
  <2> QED
    BY <1>1, <2>1, <2>2 DEF Shape, Types, MaintenanceTypeOK
<1>5. Confined'
  BY <1>1 DEF Shape, Types, ShellTypes, Confined, Onward, run_task, Leave, EndPass, EndWalk,
              Signal, Go, Idle, Busy, Thumbs, Fits
<1>6. Alone'
  BY <1>1 DEF Shape, Alone
<1> QED
  BY <1>2, <1>3, <1>4, <1>5, <1>6 DEF Shape, Types

LEMMA OnwardData ==
    ASSUME Shape, Onward, NEW p \in Posts, DataOK(p)
    PROVE  DataOK(p)'
<1>1. UNCHANGED <<data, req, worker, meta>> /\ shell'.task = shell.task
  BY OnwardKeeps DEF serve
<1>2. row[p] # None => MetaOK(p)'
  BY <1>1, SameMeta DEF DataOK
<1>3. ASSUME row[p] # None, NEW w \in Workers, worker'[w].post = p PROVE GotOK(w, p)'
  BY <1>1, <1>3, SameGot DEF DataOK
<1> QED
  BY <1>1, <1>2, <1>3, Frame

\* Outside a pass the workers rest.
LEMMA AtRest ==
    ASSUME Shape, shell.at \notin {"work", "stop", "walk"}
    PROVE  \A w \in Workers : worker[w].at = "idle" /\ worker[w].post = None
BY DEF Shape, Types, WorkerTypes, Confined

LEMMA QueryShape ==
    ASSUME Shape, user_query, crossed' \subseteq Posts
    PROVE  Shape'
<1> USE DEF data, task, pass, serve, told
<1>1. /\ UNCHANGED <<data, cancelled, entries, worker, serve, killed>>
      /\ shell'.task = shell.task /\ shell.at = "prompt"
      /\ DOMAIN meta' = {} /\ changed' = {} /\ failed' = {} /\ alarms' = {}
  BY DEF user_query, Shape, Types, ShellTypes
<1>2. selected' \subseteq Posts /\ queue' \subseteq Posts /\ unread' \subseteq Posts
  BY DEF user_query, Shape, Types, MaintenanceTypeOK
<1>3. ShellTypes'
  <2>1. PICK at \in {"work", "load"} : shell' = [shell EXCEPT !.passes = @ + 1, !.at = at]
    BY DEF user_query
  <2>2. shell.passes + 1 \in Nat /\ shell.task \in Tasks /\ shell.manual \in BOOLEAN
    BY DEF Shape, Types, ShellTypes
  <2>3. shell' = [at |-> at, task |-> shell.task, manual |-> shell.manual, passes |-> shell.passes + 1]
    BY <2>1 DEF Shape, Types, ShellTypes
  <2>4. shell.task \notin WalkTasks
    BY <1>1 DEF Shape, Types, ShellTypes
  <2> QED
    BY <2>2, <2>3, <2>4 DEF ShellTypes
<1>4. ReqTypes' /\ WorkerTypes'
  BY <1>1 DEF Shape, Types, ReqTypes, WorkerTypes, Replacing
<1>5. MetaTypes'
  BY DEF user_query, MetaTypes
<1>6. MaintenanceTypeOK'
  BY <1>1, <1>2 DEF Shape, Types, MaintenanceTypeOK
<1>7. \A w \in Workers : worker'[w].at = "idle" /\ worker'[w].post = None
  BY <1>1, AtRest
<1>8. shell'.task # "recompute_index" => queue' = {}
  BY <1>1 DEF user_query, Shape, Types, ShellTypes, Confined
<1>9. (queue' # {} => shell'.at = "work") /\ shell'.at # "walk"
  BY <1>1 DEF user_query, Shape, Types, ShellTypes, Confined
<1>10. Confined' /\ Alone'
  BY <1>1, <1>7, <1>8, <1>9 DEF Confined, Alone, Busy, Thumbs, Fits
<1> QED
  BY <1>3, <1>4, <1>5, <1>6, <1>10 DEF Shape, Types

LEMMA QueryData ==
    ASSUME Shape, user_query, NEW p \in Posts, DataOK(p)
    PROVE  DataOK(p)'
<1>1. UNCHANGED <<data, req, worker>> /\ DOMAIN meta' = {} /\ shell.at = "prompt"
  BY DEF user_query, serve
<1>2. MetaOK(p)'
  BY <1>1 DEF MetaOK
<1>3. \A w \in Workers : worker'[w].post # p
  BY <1>1, AtRest, NothingAssumption
<1> QED
  BY <1>1, <1>2, <1>3, Frame

\* The metadata of one more chunk.
Chunked == {q \in Smallest(unread, Chunk) : row[q] # None}

LEMMA LoadShape ==
    ASSUME Shape, load_metadata_in_chunks, crossed' \subseteq Posts
    PROVE  Shape'
<1> USE DEF data, task, pass, serve, told
<1>1. /\ UNCHANGED <<data, cancelled, selected, entries, worker, alarms, serve, told>>
      /\ shell'.task = shell.task /\ shell.at = "load"
  BY DEF load_metadata_in_chunks, Go, Shape, Types, ShellTypes
<1>2. ShellTypes'
  BY DEF load_metadata_in_chunks, Go, Shape, Types, ShellTypes
<1>3. ReqTypes' /\ WorkerTypes'
  BY <1>1 DEF Shape, Types, ReqTypes, WorkerTypes, Replacing
<1>4. Smallest(unread, Chunk) \subseteq Posts
  BY DEF Smallest, Shape, Types, MaintenanceTypeOK
<1>5. MetaTypes' /\ DOMAIN meta \subseteq DOMAIN meta'
  <2>1. CASE UNCHANGED meta
    BY <2>1 DEF Shape, Types, MetaTypes
  <2>2. CASE meta' = [p \in DOMAIN meta \cup Chunked |->
                        IF p \in Smallest(unread, Chunk) THEN row[p] ELSE meta[p]]
    <3>1. \A q \in Chunked : row[q] \in Row
      BY <1>4 DEF Chunked, Shape, Types, MaintenanceTypeOK
    <3>2. Smallest(unread, Chunk) \cap DOMAIN meta = {}
      BY DEF Smallest, Shape, Confined
    <3>3. Chunked \subseteq Posts
      BY <1>4 DEF Chunked
    <3> QED
      BY <2>2, <3>1, <3>2, <3>3 DEF Shape, Types, MetaTypes, Chunked
  <2> QED
    BY <2>1, <2>2 DEF load_metadata_in_chunks, Chunked
<1>6. MaintenanceTypeOK'
  <2>1. unread' \subseteq Posts
    BY DEF load_metadata_in_chunks, Shape, Types, MaintenanceTypeOK
  <2>2. queue' \subseteq Posts
    BY DEF load_metadata_in_chunks, Shape, Types, MaintenanceTypeOK, Targets
  <2>3. DOMAIN meta' \subseteq Posts
    BY <1>5 DEF MetaTypes
  <2> QED
    BY <1>1, <2>1, <2>2, <2>3 DEF Shape, Types, MaintenanceTypeOK
<1>7. \A w \in Workers : worker'[w].at = "idle" /\ worker'[w].post = None
  BY <1>1, AtRest
<1>8. queue' \subseteq DOMAIN meta' /\ (queue' # {} => shell'.at = "work")
  <2>1. queue = {}
    BY <1>1 DEF Shape, Confined
  <2> QED
    BY <2>1 DEF load_metadata_in_chunks, Targets, Go, Shape, Types, ShellTypes
<1>9. unread' \cap DOMAIN meta' = {}
  <2>1. CASE unread = {} \/ cancelled
    BY <2>1 DEF load_metadata_in_chunks, Shape, Confined
  <2>2. CASE ~(unread = {} \/ cancelled)
    <3>1. unread' = unread \ Smallest(unread, Chunk) /\ DOMAIN meta' = DOMAIN meta \cup Chunked
      BY <2>2 DEF load_metadata_in_chunks, Chunked
    <3> QED
      BY <3>1 DEF Chunked, Shape, Confined
  <2> QED
    BY <2>1, <2>2
<1>10. shell'.task \notin WalkTasks /\ shell'.at # "walk"
  BY <1>1 DEF load_metadata_in_chunks, Go, Shape, Types, ShellTypes
<1>11. Confined' /\ Alone'
  BY <1>1, <1>7, <1>8, <1>9, <1>10 DEF Confined, Alone, Busy, Thumbs, Fits
<1> QED
  BY <1>2, <1>3, <1>5, <1>6, <1>11 DEF Shape, Types

LEMMA LoadData ==
    ASSUME Shape, load_metadata_in_chunks, NEW p \in Posts, DataOK(p)
    PROVE  DataOK(p)'
<1>1. UNCHANGED <<data, req, worker>> /\ shell'.task = shell.task /\ shell.at = "load"
  BY DEF load_metadata_in_chunks, serve, Go, Shape, Types, ShellTypes
<1>2. ASSUME row[p] # None PROVE MetaOK(p)'
  <2>1. MetaOK(p) /\ HeldOK(p)
    BY <1>2 DEF DataOK
  <2>2. CASE p \in DOMAIN meta' /\ (p \notin DOMAIN meta \/ meta'[p] # meta[p])
    <3>1. meta'[p].mime = row[p].mime
      BY <2>2 DEF load_metadata_in_chunks
    <3> QED
      BY <1>1, <2>1, <3>1 DEF MetaOK, HeldOK, Replacing, Thumbed, data
  <2>3. CASE p \notin DOMAIN meta'
    BY <2>3 DEF MetaOK
  <2>4. CASE p \in DOMAIN meta /\ meta'[p] = meta[p]
    BY <1>1, <2>1, <2>4 DEF MetaOK, Replacing, Thumbed, data
  <2> QED
    BY <2>2, <2>3, <2>4
<1>3. \A w \in Workers : worker'[w].post # p
  BY <1>1, AtRest, NothingAssumption
<1> QED
  BY <1>1, <1>2, <1>3, Frame

-----------------------------------------------------------------------------
(* Steps at other posts.                                                    *)

SameFiles(d, e, p) ==
    \A path \in Paths : path.post = p =>
        /\ path \in DOMAIN d <=> path \in DOMAIN e
        /\ path \in DOMAIN d => d[path] = e[path]

LEMMA PathTypes ==
    ASSUME NEW p \in Posts
    PROVE  /\ \A mime \in Mimes, key \in Keys :
                  Path("posts", key, p, mime) \in Paths /\ Path("posts", key, p, mime).post = p
           /\ \A path \in Thumbnails(p) : path \in Paths /\ path.post = p /\ path.dir = "generated"
BY DEF Path, Paths, Keys, Thumbs, Thumbnails, thumbnail_path

LEMMA FilesSame ==
    ASSUME NEW p \in Posts, NEW d, NEW e, DiskOK(d), DiskOK(e), SameFiles(d, e, p)
    PROVE  /\ \A mime \in Mimes :
                  /\ FileOf(d, p, mime) = FileOf(e, p, mime)
                  /\ content_path(p, mime) \in DOMAIN d <=> content_path(p, mime) \in DOMAIN e
                  /\ content_path(p, mime) \in DOMAIN d =>
                        d[content_path(p, mime)] = e[content_path(p, mime)]
           /\ Shown(d, p) = Shown(e, p)
<1>1. ASSUME NEW mime \in Mimes, NEW key \in Keys
      PROVE  LET path == Path("posts", key, p, mime)
             IN  /\ path \in DOMAIN d <=> path \in DOMAIN e
                 /\ path \in DOMAIN d => d[path] = e[path]
  BY PathTypes DEF SameFiles
<1>2. \A path \in Thumbnails(p) :
          (path \in DOMAIN d <=> path \in DOMAIN e) /\ (path \in DOMAIN d => d[path] = e[path])
  BY PathTypes DEF SameFiles
<1>3. Shown(d, p) = Shown(e, p)
  <2>1. Thumbnails(p) \cap DOMAIN d = Thumbnails(p) \cap DOMAIN e
    BY <1>2
  <2>2. \A path \in Thumbnails(p) \cap DOMAIN d : d[path].of = e[path].of
    BY <1>2
  <2> QED
    BY <2>1, <2>2 DEF Shown
<1>4. ASSUME NEW mime \in Mimes PROVE FileOf(d, p, mime) = FileOf(e, p, mime)
  BY <1>1 DEF FileOf, Keys
<1> QED
  BY <1>1, <1>3, <1>4 DEF content_path, Keys

LEMMA AgreeSame ==
    ASSUME NEW p \in Posts, NEW d, NEW e, DiskOK(d), DiskOK(e), SameFiles(d, e, p),
           NEW s, NEW t, p \in DOMAIN s <=> p \in DOMAIN t, p \in DOMAIN s => s[p] = t[p],
           NEW r \in Row, Agree(r, s, d, p)
    PROVE  Agree(r, t, e, p)
<1>1. r.mime \in Mimes
  BY DEF Row
<1>2. /\ FileOf(d, p, r.mime) = FileOf(e, p, r.mime) /\ Shown(d, p) = Shown(e, p)
      /\ content_path(p, r.mime) \in DOMAIN d <=> content_path(p, r.mime) \in DOMAIN e
  BY <1>1, FilesSame
<1>3. ASSUME NEW path \in DOMAIN e, path.post = p PROVE path \in DOMAIN d /\ d[path] = e[path]
  BY <1>3 DEF SameFiles, DiskOK
<1> QED
  BY <1>2, <1>3 DEF Agree

\* What a step that is not about post p leaves.
SameFor(p) ==
    /\ row'[p] = row[p]
    /\ p \in DOMAIN sig' <=> p \in DOMAIN sig
    /\ p \in DOMAIN sig => sig'[p] = sig[p]
    /\ SameFiles(disk, disk', p)

LEMMA Elsewhere ==
    ASSUME Shape, DiskOK(disk'), NEW p \in Posts, DataOK(p), SameFor(p),
           req' = req \/ (req.post # p /\ req'.post # p),
           UNCHANGED meta, shell'.task = shell.task,
           \A w \in Workers : worker'[w].post = p => worker'[w] = worker[w]
    PROVE  DataOK(p)'
<1> SUFFICES ASSUME row[p] # None PROVE DataOK(p)'
  BY DEF DataOK, SameFor
<1>1. DiskOK(disk) /\ row[p] \in Row /\ row[p].mime \in Mimes
  BY DEF Shape, Types, MaintenanceTypeOK, Row
<1>2. Replacing(p)' <=> Replacing(p)
  BY DEF Replacing
<1>3. ~Replacing(p) => Agree(row[p], sig', disk', p)
  BY <1>1, AgreeSame DEF DataOK, SameFor
<1>4. \A mime \in Mimes :
          /\ FileOf(disk, p, mime) = FileOf(disk', p, mime)
          /\ content_path(p, mime) \in DOMAIN disk <=> content_path(p, mime) \in DOMAIN disk'
          /\ content_path(p, mime) \in DOMAIN disk =>
                disk[content_path(p, mime)] = disk'[content_path(p, mime)]
  BY <1>1, FilesSame DEF SameFor
<1>5. Shown(disk, p) = Shown(disk', p) /\ \A c : Thumbed(p, c)' <=> Thumbed(p, c)
  <2>1. Shown(disk, p) = Shown(disk', p)
    BY <1>1, FilesSame DEF SameFor
  <2>2. thumbnail_path(p, Configured) \in Paths /\ thumbnail_path(p, Configured).post = p
    BY PathTypes, MaintenanceAssumption DEF Thumbnails
  <2> QED
    BY <2>1, <2>2 DEF Thumbed, SameFor, SameFiles
<1>6. MetaOK(p)'
  <2>1. p \in DOMAIN meta => meta[p].mime \in Mimes
    BY DEF Shape, Types, MetaTypes, Row
  <2>2. MetaOK(p)
    BY DEF DataOK
  <2>3. Replacing(p) => req' = req
    BY DEF Replacing
  <2> QED
    BY <1>1, <1>2, <1>4, <1>5, <2>1, <2>2, <2>3 DEF MetaOK, SameFor
<1>7. HeldOK(p)'
  <2>1. HeldOK(p)
    BY DEF DataOK
  <2>2. CASE req' # req
    BY <1>2, <2>2 DEF HeldOK, Replacing
  <2>3. CASE req' = req
    <3>1. Replacing(p) => MimeOf[req.new] \in Mimes
      BY MaintenanceAssumption DEF Shape, Types, ReqTypes, Replacing
    <3> QED
      BY <1>1, <1>2, <1>4, <1>5, <2>1, <2>3, <3>1 DEF HeldOK, SameFor
  <2> QED
    BY <2>2, <2>3
<1>8. ASSUME NEW w \in Workers, worker'[w].post = p PROVE GotOK(w, p)'
  <2>1. worker'[w] = worker[w] /\ GotOK(w, p)
    BY <1>8 DEF DataOK
  <2> QED
    BY <1>1, <1>4, <1>5, <2>1 DEF GotOK, SameFor
<1> QED
  BY <1>2, <1>3, <1>6, <1>7, <1>8 DEF DataOK, SameFor

-----------------------------------------------------------------------------
(* Workers.                                                                 *)

\* A worker that has taken a post goes on or rests.
LEMMA WorkerShape ==
    ASSUME Shape, NEW w \in Workers, worker[w].at # "idle",
           \/ Rest(w)
           \/ /\ worker[w].at \in Busy
              /\ \E at \in Busy, got \in Value \cup Size :
                    Fits(at, got) /\ Do(w, at, worker[w].post, got),
           UNCHANGED <<shell, cancelled, pass, queue, serve, changed, killed>>,
           failed' \subseteq Posts, alarms' \subseteq Posts, crossed' \subseteq Posts,
           row' \in [Posts -> Row \cup {None}], SigOK(sig'), DiskOK(disk'),
           \A p \in Posts : /\ row'[p] = None <=> row[p] = None
                            /\ row[p] # None => row'[p].mime = row[p].mime
    PROVE  Shape'
<1> USE DEF pass, serve
<1>1. /\ worker' \in [Workers -> [at : Busy \cup Thumbs \cup {"idle"}, post : Posts \cup {None},
                                  got : Value \cup Size]]
      /\ \A v \in Workers \ {w} : worker'[v] = worker[v]
      /\ worker'[w].post \in {None, worker[w].post}
      /\ worker'[w].at = "idle" <=> worker'[w].post = None
      /\ worker'[w].at # "idle" => worker'[w].at \in Busy /\ worker[w].at \in Busy
      /\ Fits(worker'[w].at, worker'[w].got)
  <2>1. CASE Rest(w)
    BY <2>1 DEF Rest, Nobody, Shape, Types, WorkerTypes, Value, Fits, Thumbs
  <2>2. ASSUME worker[w].at \in Busy, NEW at \in Busy, NEW got \in Value \cup Size,
               Fits(at, got), Do(w, at, worker[w].post, got)
        PROVE  <1>1!:
    <3>1. worker[w].post \in Posts \cup {None} /\ worker[w].post # None
      BY <2>2 DEF Shape, Types, WorkerTypes, Confined, Busy
    <3> QED
      BY <2>2, <3>1 DEF Do, Shape, Types, WorkerTypes, Busy
  <2> QED
    BY <2>1, <2>2
<1>2. MaintenanceTypeOK'
  BY <1>1 DEF Shape, Types, MaintenanceTypeOK
<1>3. ShellTypes' /\ MetaTypes' /\ WorkerTypes'
  BY <1>1 DEF Shape, Types, ShellTypes, MetaTypes, WorkerTypes
<1>4. ReqTypes'
  BY DEF Shape, Types, ReqTypes, Replacing
<1>5. Confined'
  BY <1>1 DEF Shape, Confined, Thumbs, Busy, Fits
<1>6. Alone'
  BY <1>1 DEF Shape, Alone
<1> QED
  BY <1>2, <1>3, <1>4, <1>5, <1>6 DEF Shape, Types

LEMMA TakeShape ==
    ASSUME Shape, NEW w \in Workers, Take(w), crossed' \subseteq Posts
    PROVE  Shape'
<1> USE DEF data, task, pass, serve, told
<1>1. PICK p \in queue :
          IF cancelled THEN queue' = {} /\ Go("stop") /\ UNCHANGED worker
          ELSE queue' = queue \ {p} /\ Do(w, "read", p, None) /\ UNCHANGED shell
  BY DEF Take
<1>2. /\ UNCHANGED <<data, cancelled, pass, alarms, serve, told>> /\ shell'.task = shell.task
      /\ shell.at = "work" /\ worker[w].at = "idle" /\ p \in Posts /\ p # None
  BY NothingAssumption DEF Take, Go, Shape, Types, ShellTypes, MaintenanceTypeOK
<1>3. CASE cancelled
  <2>1. UNCHANGED worker /\ queue' = {} /\ shell'.at = "stop" /\ ShellTypes'
    BY <1>1, <1>2, <1>3 DEF Go, Shape, Types, ShellTypes
  <2>2. MaintenanceTypeOK'
    BY <1>2, <2>1 DEF Shape, Types, MaintenanceTypeOK
  <2>3. ReqTypes' /\ WorkerTypes' /\ MetaTypes'
    BY <1>2, <2>1 DEF Shape, Types, ReqTypes, WorkerTypes, MetaTypes, Replacing
  <2>4. Confined' /\ Alone'
    BY <1>2, <2>1 DEF Shape, Confined, Alone, Fits
  <2> QED
    BY <2>1, <2>2, <2>3, <2>4 DEF Shape, Types
<1>4. CASE ~cancelled
  <2>1. UNCHANGED shell /\ queue' = queue \ {p}
    BY <1>1, <1>4
  <2>2. /\ worker'[w] = [at |-> "read", post |-> p, got |-> None]
        /\ \A v \in Workers \ {w} : worker'[v] = worker[v]
        /\ WorkerTypes'
    BY <1>1, <1>2, <1>4 DEF Do, Shape, Types, WorkerTypes, Busy, Value
  <2>3. MaintenanceTypeOK'
    BY <1>2, <2>1, <2>2 DEF Shape, Types, MaintenanceTypeOK
  <2>4. ReqTypes' /\ ShellTypes' /\ MetaTypes'
    BY <1>2, <2>1 DEF Shape, Types, ReqTypes, ShellTypes, MetaTypes, Replacing
  <2>5. Confined'
    BY <1>2, <2>1, <2>2 DEF Shape, Confined, Busy, Thumbs, Fits
  <2>6. Alone'
    BY <1>2, <2>1, <2>2 DEF Shape, Alone
  <2> QED
    BY <2>2, <2>3, <2>4, <2>5, <2>6 DEF Shape, Types
<1> QED
  BY <1>3, <1>4

LEMMA TakeData ==
    ASSUME Shape, NEW w \in Workers, Take(w), NEW p \in Posts, DataOK(p)
    PROVE  DataOK(p)'
<1>1. UNCHANGED <<data, req, meta>> /\ shell'.task = shell.task
  BY DEF Take, serve, pass, Go, Shape, Types, ShellTypes
<1>2. row[p] # None => MetaOK(p)'
  BY <1>1, SameMeta DEF DataOK
<1>3. ASSUME row[p] # None, NEW v \in Workers, worker'[v].post = p PROVE GotOK(v, p)'
  <2>1. CASE worker'[v] = worker[v]
    BY <1>1, <1>3, <2>1, SameGot DEF DataOK
  <2>2. CASE worker'[v].at = "read"
    BY <2>2 DEF GotOK
  <2> QED
    BY <2>1, <2>2 DEF Take, Do, Shape, Types, WorkerTypes
<1> QED
  BY <1>1, <1>2, <1>3, Frame

\* A step of a worker that writes no row and no file, and what it has got then.
LEMMA WorkerData ==
    ASSUME Shape, NEW w \in Workers, UNCHANGED <<data, req, meta>>, shell'.task = shell.task,
           \A v \in Workers \ {w} : worker'[v] = worker[v],
           NEW p \in Posts, DataOK(p),
           row[p] # None /\ worker'[w].post = p => GotOK(w, p)'
    PROVE  DataOK(p)'
<1>1. row[p] # None => MetaOK(p)'
  BY SameMeta DEF DataOK
<1>2. ASSUME row[p] # None, NEW v \in Workers, worker'[v].post = p PROVE GotOK(v, p)'
  <2>1. CASE v # w
    BY <1>2, <2>1, SameGot DEF DataOK
  <2> QED
    BY <1>2, <2>1
<1> QED
  BY <1>1, <1>2, Frame

-----------------------------------------------------------------------------
(* What workers derive.                                                     *)

LEMMA HoldsTypes ==
    ASSUME Shape, NEW p \in Posts
    PROVE  /\ \A mime \in Mimes : Holds(content_path(p, mime)) \in Contents \cup {None}
           /\ \A f \in Formats : Holds(thumbnail_path(p, f)) \in Size \cup {None}
           /\ Shown(disk, p) \subseteq Contents \cup {None}
<1>1. DiskOK(disk)
  BY DEF Shape, Types, MaintenanceTypeOK
<1>2. \A mime \in Mimes : content_path(p, mime).dir = "posts"
  BY DEF content_path, Path
<1>3. \A path \in Thumbnails(p) : path.dir # "posts"
  BY PathTypes
<1>4. \A path \in Thumbnails(p) \cap DOMAIN disk : disk[path] \in Size
  BY <1>1, <1>3 DEF DiskOK
<1>5. Shown(disk, p) \subseteq Contents \cup {None}
  BY <1>4 DEF Shown, Size
<1> QED
  BY <1>1, <1>2, <1>4, <1>5 DEF Holds, DiskOK, Thumbnails

LEMMA Decoded ==
    ASSUME Shape, NEW p \in Posts
    PROVE  LET got == decode_generated_thumbnail(p)
           IN  /\ got = None \/ got \in Shown(disk, p)
               /\ \A c \in Contents : Thumbed(p, c) => got = c
<1> DEFINE decoded(f) == LET path == thumbnail_path(p, f)
                         IN  IF Holds(path) # None /\ Holds(path).as = f
                             THEN Holds(path).of ELSE None
           others == {decoded(f) : f \in Formats} \ {None}
<1>1. decode_generated_thumbnail(p) =
          IF decoded(Configured) # None THEN decoded(Configured)
          ELSE IF others = {} THEN None ELSE CHOOSE c \in others : TRUE
  BY DEF decode_generated_thumbnail
<1>2. ASSUME NEW f \in Formats, decoded(f) # None PROVE decoded(f) \in Shown(disk, p)
  <2>1. thumbnail_path(p, f) \in DOMAIN disk /\ decoded(f) = disk[thumbnail_path(p, f)].of
    BY <1>2 DEF Holds
  <2> QED
    BY <2>1 DEF Shown, Thumbnails
<1>3. others \subseteq Shown(disk, p)
  BY <1>2
<1>4. ASSUME NEW c \in Contents, Thumbed(p, c) PROVE decoded(Configured) = c
  <2>1. Holds(thumbnail_path(p, Configured)) = Thumbnail(c, Configured)
    BY <1>4 DEF Thumbed, Holds
  <2>2. Thumbnail(c, Configured) \in Size
    BY MaintenanceAssumption DEF Thumbnail, Size
  <2> QED
    BY <2>1, <2>2, Something DEF Thumbnail
<1> HIDE DEF decoded
<1> QED
  BY <1>1, <1>2, <1>3, <1>4, MaintenanceAssumption, Something

LEMMA DerivedTypes ==
    ASSUME Shape, NEW w \in Workers, worker[w].at = "read"
    PROVE  /\ worker[w].post \in Posts /\ shell.task \in TaskNames \ WalkTasks
           /\ shell.task # "recompute_index" =>
                worker[w].post \in DOMAIN meta /\ meta[worker[w].post] \in Row
           /\ Derived(shell.task, worker[w].post) \in Value
           /\ shell.task \in ThumbnailTasks =>
                Derived(shell.task, worker[w].post) \in Contents \cup {None}
<1> DEFINE p == worker[w].post
<1>1. p \in Posts /\ shell.task \in TaskNames \ WalkTasks
  BY MaintenanceAssumption DEF Shape, Types, WorkerTypes, ShellTypes, Confined, Busy
<1>2. shell.task # "recompute_index" => p \in DOMAIN meta /\ meta[p] \in Row
  BY <1>1 DEF Shape, Types, MetaTypes, Confined, Busy
<1>3. CASE shell.task = "recompute_index"
  <2>1. Derived(shell.task, p) = IF p \in DOMAIN sig THEN sig[p].signature ELSE None
    BY <1>3 DEF Derived, PhashTasks, ThumbnailTasks
  <2> QED
    BY <1>1, <1>3, <2>1 DEF Shape, Types, MaintenanceTypeOK, SigOK, Value, ThumbnailTasks
<1>4. CASE shell.task # "recompute_index"
  <2>1. meta[p].mime \in Mimes
    BY <1>2, <1>4 DEF Row
  <2>2. Holds(content_path(p, meta[p].mime)) \in Value
    BY <1>1, <2>1, HoldsTypes DEF Value
  <2>3. representative_image(p, meta[p].mime) \in Value /\ detect_post_type(p, meta[p].mime) \in Value
    BY <2>1, <2>2 DEF representative_image, detect_post_type, Value
  <2>4. decode_generated_thumbnail(p) \in Value
    BY <1>1, Decoded, HoldsTypes DEF Value
  <2>5. Derived(shell.task, p) \in
            {Holds(content_path(p, meta[p].mime)), representative_image(p, meta[p].mime),
             detect_post_type(p, meta[p].mime), decode_generated_thumbnail(p)}
    BY <1>1, <1>4 DEF Derived, TaskNames, PhashTasks, ThumbnailTasks
  <2>6. shell.task \in ThumbnailTasks =>
            /\ Derived(shell.task, p) = representative_image(p, meta[p].mime)
            /\ representative_image(p, meta[p].mime) \in Contents \cup {None}
    BY <1>1, <2>1, HoldsTypes DEF Derived, PhashTasks, ThumbnailTasks, representative_image
  <2> QED
    BY <1>1, <1>2, <2>2, <2>3, <2>4, <2>5, <2>6
<1> QED
  BY <1>3, <1>4

\* The file that the metadata name is that of the row.
LEMMA ReadsFile ==
    ASSUME Shape, NEW p \in Posts, DataOK(p), row[p] # None, ~Replacing(p), p \in DOMAIN meta,
           NEW c, c = Holds(content_path(p, meta[p].mime)), c # None
    PROVE  /\ meta[p].mime = row[p].mime /\ content_path(p, row[p].mime) \in DOMAIN disk
           /\ c = FileOf(disk, p, row[p].mime)
<1>1. content_path(p, meta[p].mime) \in DOMAIN disk /\ c = disk[content_path(p, meta[p].mime)]
  BY DEF Holds
<1>2. meta[p].mime = row[p].mime
  BY <1>1 DEF DataOK, MetaOK
<1> QED
  BY <1>1, <1>2 DEF FileOf, content_path

\* What a worker derives from a post that no request is at is right.
LEMMA Derives ==
    ASSUME Shape, NEW w \in Workers, worker[w].at = "read",
           NEW p \in Posts, p = worker[w].post, ~Met(p), DataOK(p), row[p] # None,
           NEW got, got = Derived(shell.task, p), got # None
    PROVE  LET c == FileOf(disk, p, row[p].mime)
               t == shell.task
           IN  /\ t = "recompute_checksums" => got = c
               /\ t \in {"recompute_signatures"} \cup ThumbnailTasks =>
                     /\ meta[p].mime = row[p].mime
                     /\ content_path(p, row[p].mime) \in DOMAIN disk
                     /\ got = c /\ c \notin Broken
               /\ t = "recompute_post_types" =>
                     got = IF row[p].mime \in Inspected THEN c ELSE row[p].mime
               /\ t \in PhashTasks /\ c # None => got = c \/ (c \in Broken /\ got \in Shown(disk, p))
               /\ t = "recompute_index" => p \in DOMAIN sig /\ got = sig[p].signature
<1> DEFINE c == FileOf(disk, p, row[p].mime)
           mime == meta[p].mime
<1>1. ~Replacing(p) /\ Agree(row[p], sig, disk, p)
  BY DEF Met, Underway, Replacing, DataOK
<1>2. shell.task # "recompute_index" => p \in DOMAIN meta /\ mime \in Mimes
  BY DerivedTypes DEF Row
<1>3. p \in DOMAIN meta /\ Holds(content_path(p, mime)) # None =>
         /\ mime = row[p].mime /\ content_path(p, row[p].mime) \in DOMAIN disk
         /\ Holds(content_path(p, mime)) = c
  BY <1>1, ReadsFile
<1>4. CASE shell.task \in {"check_integrity", "recompute_checksums"}
  <2>1. got = Holds(content_path(p, mime))
    BY <1>4 DEF Derived, ThumbnailTasks, PhashTasks
  <2> QED
    BY <1>2, <1>3, <1>4, <2>1 DEF ThumbnailTasks, PhashTasks
<1>5. CASE shell.task \in {"recompute_signatures"} \cup ThumbnailTasks
  <2>1. got = representative_image(p, mime)
    BY <1>5 DEF Derived, ThumbnailTasks, PhashTasks
  <2>2. got = Holds(content_path(p, mime)) /\ got \notin Broken
    BY <2>1 DEF representative_image
  <2> QED
    BY <1>2, <1>3, <1>5, <2>2 DEF ThumbnailTasks, PhashTasks
<1>6. CASE shell.task = "recompute_post_types"
  <2>1. got = detect_post_type(p, mime)
    BY <1>6 DEF Derived, ThumbnailTasks, PhashTasks
  <2>2. mime = row[p].mime
    BY <1>2, <1>6 DEF DataOK, MetaOK
  <2> QED
    BY <1>2, <1>3, <1>6, <2>1, <2>2 DEF detect_post_type, ThumbnailTasks, PhashTasks
<1>7. CASE shell.task \in PhashTasks
  <2> SUFFICES ASSUME c # None
               PROVE  got = c \/ (c \in Broken /\ got \in Shown(disk, p))
    BY <1>7 DEF ThumbnailTasks, PhashTasks
  <2>1. got = IF representative_image(p, mime) # None
              THEN representative_image(p, mime) ELSE decode_generated_thumbnail(p)
    BY <1>7 DEF Derived, ThumbnailTasks, PhashTasks
  <2>2. CASE representative_image(p, mime) # None
    BY <1>2, <1>3, <1>7, <2>1, <2>2 DEF representative_image, PhashTasks
  <2>3. CASE representative_image(p, mime) = None
    <3>1. got = decode_generated_thumbnail(p) /\ got \in Shown(disk, p)
      BY <2>1, <2>3, Decoded
    <3>2. row[p].mime \in Mimes /\ DiskOK(disk)
      BY DEF Shape, Types, MaintenanceTypeOK, Row
    <3>3. c \in Contents
      <4>1. ASSUME NEW key PROVE Path("posts", key, p, row[p].mime).dir = "posts"
        BY DEF Path
      <4> QED
        BY <3>2, <4>1 DEF FileOf, DiskOK
    <3>4. CASE mime # row[p].mime
      <4>1. Thumbed(p, c)
        BY <1>1, <1>2, <1>7, <3>4 DEF DataOK, MetaOK, PhashTasks
      <4> QED
        BY <3>1, <3>3, <4>1, Decoded
    <3>5. CASE mime = row[p].mime /\ content_path(p, mime) \in DOMAIN disk
      <4>1. Holds(content_path(p, mime)) = c
        BY <3>5 DEF Holds, FileOf, content_path
      <4> QED
        BY <2>3, <3>1, <4>1 DEF representative_image
    <3>6. CASE mime = row[p].mime /\ content_path(p, mime) \notin DOMAIN disk /\ c \notin Broken
      <4>1. PICK path \in Thumbnails(p) \cap DOMAIN disk : got = disk[path].of
        BY <3>1 DEF Shown
      <4>2. path.dir = "generated" /\ path.post = p
        BY PathTypes, <4>1
      <4> QED
        BY <1>1, <3>6, <4>1, <4>2 DEF Agree
    <3> QED
      BY <3>1, <3>4, <3>5, <3>6
  <2> QED
    BY <2>2, <2>3
<1>8. CASE shell.task = "recompute_index"
  <2>1. got = IF p \in DOMAIN sig THEN sig[p].signature ELSE None
    BY <1>8 DEF Derived, ThumbnailTasks, PhashTasks
  <2> QED
    BY <1>8, <2>1 DEF ThumbnailTasks, PhashTasks
<1>9. shell.task \in TaskNames \ WalkTasks
  BY DerivedTypes
<1> QED
  BY <1>4, <1>5, <1>6, <1>7, <1>8, <1>9 DEF TaskNames

-----------------------------------------------------------------------------
(* Reading.                                                                 *)

\* What a worker goes on with once it has read the files of post p.
Proceeds(w, p, got) ==
    \E at \in {"size", "check", "clear", "write"} :
        /\ Do(w, at, p, got) /\ Fits(at, got)
        /\ at # "size" => got = Derived(shell.task, p)
        /\ at = "clear" => shell.task \in ThumbnailTasks
        /\ at = "write" => shell.task # "recompute_checksums"

LEMMA ReadSteps ==
    ASSUME Shape, NEW w \in Workers, Read(w)
    PROVE  /\ worker[w].at = "read" /\ worker[w].post \in Posts
           /\ UNCHANGED <<data, shell, cancelled, pass, queue, serve, changed, killed>>
           /\ failed' \subseteq failed \cup {worker[w].post}
           /\ alarms' \subseteq alarms \cup {worker[w].post}
           /\ \/ Rest(w)
              \/ \E got \in Value \cup Size :
                    got # None /\ Proceeds(w, worker[w].post, got)
<1> DEFINE p == worker[w].post
           got == IF Kept(p) THEN Holds(thumbnail_path(p, Configured)) ELSE Derived(shell.task, p)
<1>1. worker[w].at = "read"
  BY DEF Read
<1>2. p \in Posts /\ Derived(shell.task, p) \in Value
  BY <1>1, DerivedTypes
<1>3. got \in Value \cup Size
  BY <1>2, HoldsTypes, MaintenanceAssumption DEF Value
<1>4. /\ UNCHANGED <<data, shell, cancelled, pass, queue, serve, changed, killed>>
      /\ failed' \subseteq failed \cup {p} /\ alarms' \subseteq alarms \cup {p}
  BY DEF Read
<1>5. CASE got = None \/ shell.task = "check_integrity"
  BY <1>1, <1>2, <1>4, <1>5 DEF Read
<1>6. CASE got # None /\ shell.task # "check_integrity" /\ Kept(p)
  <2>1. Rest(w) \/ Do(w, "size", p, got)
    BY <1>6 DEF Read
  <2>2. Fits("size", got)
    BY <1>2, <1>6, HoldsTypes, MaintenanceAssumption DEF Fits
  <2> HIDE DEF got
  <2> QED
    BY <1>1, <1>2, <1>3, <1>4, <1>6, <2>1, <2>2 DEF Proceeds
<1>7. CASE got # None /\ shell.task # "check_integrity" /\ ~Kept(p)
  <2>1. IF shell.task = "recompute_checksums" THEN Do(w, "check", p, got)
        ELSE IF shell.task \in ThumbnailTasks THEN Do(w, "clear", p, got)
        ELSE Do(w, "write", p, got)
    BY <1>7 DEF Read
  <2>2. got \in Value /\ (shell.task \in ThumbnailTasks => got \in Contents)
    BY <1>1, <1>2, <1>7, DerivedTypes
  <2>3. got = Derived(shell.task, p)
    BY <1>7
  <2> HIDE DEF got
  <2>4. Proceeds(w, p, got)
    BY <1>7, <2>1, <2>2, <2>3 DEF Proceeds, Fits, Thumbs
  <2> QED
    BY <1>1, <1>2, <1>3, <1>4, <1>7, <2>4
<1> QED
  BY <1>5, <1>6, <1>7

LEMMA ReadShape ==
    ASSUME Shape, NEW w \in Workers, Read(w), crossed' \subseteq Posts
    PROVE  Shape'
<1>1. Rest(w) \/ \E at \in Busy, got \in Value \cup Size :
                   Fits(at, got) /\ Do(w, at, worker[w].post, got)
  BY ReadSteps DEF Proceeds, Busy
<1>2. failed' \subseteq Posts /\ alarms' \subseteq Posts
  BY ReadSteps DEF Shape, Types, MaintenanceTypeOK
<1>3. row' \in [Posts -> Row \cup {None}] /\ SigOK(sig') /\ DiskOK(disk')
  BY ReadSteps DEF Shape, Types, MaintenanceTypeOK, data
<1> QED
  BY <1>1, <1>2, <1>3, ReadSteps, WorkerShape DEF Busy, data

LEMMA ReadData ==
    ASSUME Shape, NEW w \in Workers, Read(w), NEW p \in Posts, ~Met(p), DataOK(p)
    PROVE  DataOK(p)'
<1>1. UNCHANGED <<data, req, meta, shell>> /\ shell'.task = shell.task
  BY ReadSteps DEF serve, pass
<1>2. \A v \in Workers \ {w} : worker'[v] = worker[v]
  BY ReadSteps DEF Proceeds, Rest, Do, Shape, Types, WorkerTypes
<1>3. ASSUME row[p] # None, worker'[w].post = p PROVE GotOK(w, p)'
  <2>1. ~Rest(w)
    BY <1>3, NothingAssumption DEF Rest, Nobody, Shape, Types, WorkerTypes
  <2>2. PICK got \in Value \cup Size : got # None /\ Proceeds(w, worker[w].post, got)
    BY <2>1, ReadSteps
  <2>3. worker[w].post = p
    BY <1>3, <2>2 DEF Proceeds, Do, Shape, Types, WorkerTypes
  <2>4. PICK at \in {"size", "check", "clear", "write"} :
            /\ worker' = [worker EXCEPT ![w] = [at |-> at, post |-> p, got |-> got]]
            /\ Fits(at, got)
            /\ at # "size" => got = Derived(shell.task, p)
            /\ at = "clear" => shell.task \in ThumbnailTasks
            /\ at = "write" => shell.task # "recompute_checksums"
    BY <2>2, <2>3 DEF Proceeds, Do
  <2>5. worker'[w].at = at /\ worker'[w].got = got
    BY <2>4 DEF Shape, Types, WorkerTypes
  <2>6. CASE at = "size"
    BY <2>5, <2>6 DEF GotOK
  <2>7. CASE at # "size"
    <3>1. got = Derived(shell.task, p)
      BY <2>4, <2>7
    <3>2. worker[w].at = "read"
      BY ReadSteps
    <3>3. LET c == FileOf(disk, p, row[p].mime)
              t == shell.task
          IN  /\ t = "recompute_checksums" => got = c
              /\ t \in {"recompute_signatures"} \cup ThumbnailTasks =>
                    /\ meta[p].mime = row[p].mime
                    /\ content_path(p, row[p].mime) \in DOMAIN disk
                    /\ got = c /\ c \notin Broken
              /\ t = "recompute_post_types" =>
                    got = IF row[p].mime \in Inspected THEN c ELSE row[p].mime
              /\ t \in PhashTasks /\ c # None => got = c \/ (c \in Broken /\ got \in Shown(disk, p))
              /\ t = "recompute_index" => p \in DOMAIN sig /\ got = sig[p].signature
      BY <1>3, <2>2, <2>3, <3>1, <3>2, Derives
    <3> QED
      BY <1>1, <2>4, <2>5, <2>7, <3>3 DEF GotOK, Fits, data
  <2> QED
    BY <2>6, <2>7
<1> QED
  BY <1>1, <1>2, <1>3, WorkerData

LEMMA CheckShape ==
    ASSUME Shape, NEW w \in Workers, CheckDuplicate(w), crossed' \subseteq Posts
    PROVE  Shape'
<1>1. worker[w].at = "check" /\ worker[w].post \in Posts /\ worker[w].got \in Value
  BY NothingAssumption DEF CheckDuplicate, Shape, Types, WorkerTypes, Confined, Fits
<1>2. \/ Rest(w)
      \/ Fits("write", worker[w].got) /\ Do(w, "write", worker[w].post, worker[w].got)
  BY <1>1 DEF CheckDuplicate, Fits, Thumbs
<1>3. failed' \subseteq Posts /\ alarms' \subseteq Posts
  BY <1>1 DEF CheckDuplicate, Shape, Types, MaintenanceTypeOK
<1>4. /\ UNCHANGED <<shell, cancelled, pass, queue, serve, changed, killed>>
      /\ UNCHANGED <<row, sig, disk>>
  BY DEF CheckDuplicate, data
<1>5. row' \in [Posts -> Row \cup {None}] /\ SigOK(sig') /\ DiskOK(disk')
  BY <1>4 DEF Shape, Types, MaintenanceTypeOK
<1> QED
  BY <1>1, <1>2, <1>3, <1>4, <1>5, WorkerShape DEF Busy

LEMMA CheckData ==
    ASSUME Shape, NEW w \in Workers, CheckDuplicate(w), NEW p \in Posts, DataOK(p)
    PROVE  DataOK(p)'
<1>1. UNCHANGED <<data, req, meta, shell>> /\ shell'.task = shell.task
  BY DEF CheckDuplicate, serve, pass
<1>2. \A v \in Workers \ {w} : worker'[v] = worker[v]
  BY DEF CheckDuplicate, Rest, Do, Shape, Types, WorkerTypes
<1>3. ASSUME row[p] # None, worker'[w].post = p PROVE GotOK(w, p)'
  <2>1. ~Rest(w)
    BY <1>3, NothingAssumption DEF Rest, Nobody, Shape, Types, WorkerTypes
  <2>2. Do(w, "write", worker[w].post, worker[w].got) /\ worker[w].at = "check"
    BY <2>1 DEF CheckDuplicate
  <2>3. /\ worker'[w].at = "write" /\ worker'[w].got = worker[w].got /\ worker[w].post = p
    BY <1>3, <2>2 DEF Do, Shape, Types, WorkerTypes
  <2>4. GotOK(w, p)
    BY <1>3, <2>3 DEF DataOK
  <2>5. shell.task = "recompute_checksums"
    BY <2>2 DEF Shape, Confined, Fits
  <2> QED
    BY <1>1, <2>2, <2>3, <2>4, <2>5 DEF GotOK, data, PhashTasks
<1> QED
  BY <1>1, <1>2, <1>3, WorkerData

-----------------------------------------------------------------------------
(* Writing rows.                                                            *)

\* A worker writes a row or a signature and leaves the post; others stay away.
LEMMA Leaves ==
    ASSUME Shape, NEW w \in Workers, Rest(w), NEW p \in Posts, worker[w].post = p
    PROVE  \A v \in Workers : worker'[v].post # p
BY NothingAssumption DEF Rest, Nobody, Shape, Alone, Types, WorkerTypes

LEMMA WrittenAt ==
    ASSUME Shape, NEW w \in Workers, Rest(w), NEW p \in Posts, worker[w].post = p,
           ~Met(p), DataOK(p), UNCHANGED <<disk, req, meta>>, shell'.task = shell.task,
           row'[p] # None =>
               row[p] # None /\ row'[p].mime = row[p].mime /\ Agree(row'[p], sig', disk, p)
    PROVE  DataOK(p)'
<1>1. req.post # p /\ ~Replacing(p) /\ ~Replacing(p)'
  BY DEF Met, Underway, Replacing
<1>2. \A v \in Workers : worker'[v].post # p
  BY Leaves
<1>3. row'[p] # None => MetaOK(p)'
  BY <1>1 DEF DataOK, MetaOK, Thumbed
<1>4. HeldOK(p)'
  BY <1>1 DEF HeldOK
<1> QED
  BY <1>1, <1>2, <1>3, <1>4 DEF DataOK

LEMMA NotWrittenAt ==
    ASSUME Shape, NEW w \in Workers, Rest(w), NEW p \in Posts, worker[w].post # p,
           DataOK(p), UNCHANGED <<disk, req, meta>>, shell'.task = shell.task, row'[p] = row[p],
           p \in DOMAIN sig' <=> p \in DOMAIN sig, p \in DOMAIN sig => sig'[p] = sig[p]
    PROVE  DataOK(p)'
<1>1. SameFor(p) /\ DiskOK(disk')
  BY DEF SameFor, SameFiles, Shape, Types, MaintenanceTypeOK
<1>2. \A v \in Workers : worker'[v].post = p => worker'[v] = worker[v]
  BY NothingAssumption DEF Rest, Nobody, Shape, Types, WorkerTypes
<1> QED
  BY <1>1, <1>2, Elsewhere

LEMMA ColumnOf ==
    ASSUME shell.task \in DOMAIN Column, NEW c, c = Column[shell.task]
    PROVE  /\ c \in {"checksum", "type", "phash"}
           /\ c = "checksum" => shell.task = "recompute_checksums"
           /\ c = "type" => shell.task = "recompute_post_types"
           /\ c = "phash" => shell.task \in PhashTasks
BY DEF Column, PhashTasks

\* The row a worker writes: that of its post with one column changed.
LEMMA ColumnWritten ==
    ASSUME Shape, NEW w \in Workers, WriteColumn(w), NEW p \in Posts, p = worker[w].post
    PROVE  /\ \A q \in Posts \ {p} : row'[q] = row[q]
           /\ row' \in [Posts -> Row \cup {None}]
           /\ \/ row'[p] = row[p]
              \/ row[p] \in Row /\ row'[p] = Put(row[p], Column[shell.task], worker[w].got)
           /\ row'[p] = None <=> row[p] = None
           /\ row[p] # None => row'[p].mime = row[p].mime
<1>1. row \in [Posts -> Row \cup {None}]
  BY DEF Shape, Types, MaintenanceTypeOK
<1>2. worker[w].got \in Value
  BY DEF WriteColumn, Shape, Confined, Fits
<1>3. Column[shell.task] \in {"checksum", "type", "phash"}
  BY ColumnOf DEF WriteColumn
<1>4. CASE UNCHANGED row
  BY <1>1, <1>4 DEF Row
<1>5. CASE row[p] # None /\ row' = [row EXCEPT ![p][Column[shell.task]] = worker[w].got]
  <2>1. row[p] \in Row
    BY <1>1, <1>5
  <2>2. row'[p] = Put(row[p], Column[shell.task], worker[w].got)
    BY <1>1, <1>5 DEF Put
  <2>3. row'[p] \in Row /\ row'[p].mime = row[p].mime
    <3>1. ASSUME NEW c, c = Column[shell.task]
          PROVE  /\ Put(row[p], c, worker[w].got) \in Row
                 /\ Put(row[p], c, worker[w].got).mime = row[p].mime
      BY <1>2, <1>3, <2>1, <3>1, PutColumn
    <3> QED
      BY <2>2, <3>1
  <2> QED
    BY <1>1, <1>5, <2>1, <2>2, <2>3, Something
<1> QED
  BY <1>4, <1>5 DEF WriteColumn

LEMMA ColumnShape ==
    ASSUME Shape, NEW w \in Workers, WriteColumn(w), crossed' \subseteq Posts
    PROVE  Shape'
<1>1. worker[w].at = "write" /\ worker[w].post \in Posts /\ Rest(w)
  BY NothingAssumption DEF WriteColumn, Shape, Types, WorkerTypes, Confined
<1>2. /\ UNCHANGED <<shell, cancelled, pass, queue, serve, changed, killed, alarms, sig, disk>>
      /\ failed' \subseteq Posts
  BY <1>1 DEF WriteColumn, Shape, Types, MaintenanceTypeOK
<1>3. alarms' \subseteq Posts /\ SigOK(sig') /\ DiskOK(disk')
  BY <1>2 DEF Shape, Types, MaintenanceTypeOK
<1>4. /\ row' \in [Posts -> Row \cup {None}]
      /\ \A p \in Posts : /\ row'[p] = None <=> row[p] = None
                          /\ row[p] # None => row'[p].mime = row[p].mime
  BY <1>1, ColumnWritten
<1> QED
  BY <1>1, <1>2, <1>3, <1>4, WorkerShape

LEMMA ColumnData ==
    ASSUME Shape, NEW w \in Workers, WriteColumn(w), NEW p \in Posts, ~Met(p), DataOK(p)
    PROVE  DataOK(p)'
<1>1. /\ Rest(w) /\ UNCHANGED <<disk, sig, req, meta>> /\ shell'.task = shell.task
      /\ worker[w].at = "write" /\ worker[w].post \in Posts
  BY NothingAssumption DEF WriteColumn, serve, pass, Shape, Types, WorkerTypes, Confined
<1>2. CASE worker[w].post # p
  BY <1>1, <1>2, ColumnWritten, NotWrittenAt
<1>3. CASE worker[w].post = p
  <2> SUFFICES ASSUME row'[p] # None
               PROVE  row[p] # None /\ row'[p].mime = row[p].mime /\ Agree(row'[p], sig', disk, p)
    BY <1>1, <1>3, WrittenAt
  <2> DEFINE column == Column[shell.task]
             got == worker[w].got
  <2>1. row[p] # None /\ row'[p].mime = row[p].mime
    BY <1>3, ColumnWritten
  <2>2. Agree(row[p], sig, disk, p) /\ GotOK(w, p)
    BY <1>3, <2>1 DEF DataOK, Met, Underway, Replacing
  <2>3. CASE row'[p] = row[p]
    BY <1>1, <2>1, <2>2, <2>3
  <2>4. CASE row[p] \in Row /\ row'[p] = Put(row[p], column, got)
    <3>1. /\ column \in {"checksum", "type", "phash"}
          /\ column = "checksum" => shell.task = "recompute_checksums"
          /\ column = "type" => shell.task = "recompute_post_types"
          /\ column = "phash" => shell.task \in PhashTasks
      BY ColumnOf DEF WriteColumn
    <3>2. got \in Value
      BY <1>1 DEF Shape, Confined, Fits
    <3>3. /\ row'[p].mime = row[p].mime
          /\ row'[p].checksum = IF column = "checksum" THEN got ELSE row[p].checksum
          /\ row'[p].type = IF column = "type" THEN got ELSE row[p].type
          /\ row'[p].phash = IF column = "phash" THEN got ELSE row[p].phash
      BY <2>4, <3>1, <3>2, PutColumn
    <3>4. Agree(row'[p], sig, disk, p)
      BY <1>1, <2>2, <3>1, <3>3 DEF Agree, GotOK
    <3> QED
      BY <1>1, <2>1, <3>4
  <2> QED
    BY <1>3, <2>3, <2>4, ColumnWritten
<1> QED
  BY <1>2, <1>3

\* The signature a worker writes.
LEMMA SignatureWritten ==
    ASSUME Shape, NEW w \in Workers, WriteSignature(w), NEW p \in Posts, p = worker[w].post
    PROVE  /\ SigOK(sig')
           /\ \A q \in Posts \ {p} :
                 /\ q \in DOMAIN sig' <=> q \in DOMAIN sig
                 /\ q \in DOMAIN sig => sig'[q] = sig[q]
           /\ \/ sig' = sig
              \/ /\ shell.task = "recompute_signatures"
                 /\ p \in DOMAIN sig' /\ sig'[p] = Signed(worker[w].got)
              \/ /\ shell.task = "recompute_index" /\ p \in DOMAIN sig
                 /\ p \in DOMAIN sig' /\ sig'[p] = [sig[p] EXCEPT !.words = worker[w].got]
<1> DEFINE put(s) == sig' = [q \in DOMAIN sig \cup {p} |-> IF q = p THEN s ELSE sig[q]]
<1>1. SigOK(sig) /\ worker[w].got \in Value
  BY DEF WriteSignature, Shape, Types, MaintenanceTypeOK, Confined, Fits
<1>2. CASE sig' = sig
  BY <1>1, <1>2
<1>3. CASE shell.task = "recompute_signatures" /\ put(Signed(worker[w].got))
  <2>1. Signed(worker[w].got) \in [signature : Value, words : Value]
    BY <1>1 DEF Signed
  <2> QED
    BY <1>1, <1>3, <2>1 DEF SigOK
<1>4. CASE shell.task = "recompute_index" /\ p \in DOMAIN sig
           /\ put([sig[p] EXCEPT !.words = worker[w].got])
  <2>1. sig[p] \in [signature : Value, words : Value]
    BY <1>1, <1>4 DEF SigOK
  <2>2. [sig[p] EXCEPT !.words = worker[w].got] \in [signature : Value, words : Value]
    BY <1>1, <2>1
  <2> QED
    BY <1>1, <1>4, <2>2 DEF SigOK
<1> QED
  BY <1>2, <1>3, <1>4 DEF WriteSignature

LEMMA SignatureShape ==
    ASSUME Shape, NEW w \in Workers, WriteSignature(w), crossed' \subseteq Posts
    PROVE  Shape'
<1>1. worker[w].at = "write" /\ worker[w].post \in Posts /\ Rest(w)
  BY NothingAssumption DEF WriteSignature, Shape, Types, WorkerTypes, Confined
<1>2. UNCHANGED <<shell, cancelled, pass, queue, serve, changed, failed, killed, alarms, row, disk>>
  BY DEF WriteSignature, told
<1>3. /\ alarms' \subseteq Posts /\ failed' \subseteq Posts /\ DiskOK(disk')
      /\ row' \in [Posts -> Row \cup {None}]
  BY <1>2 DEF Shape, Types, MaintenanceTypeOK
<1>4. SigOK(sig')
  BY <1>1, SignatureWritten
<1> QED
  BY <1>1, <1>2, <1>3, <1>4, WorkerShape

LEMMA SignatureData ==
    ASSUME Shape, NEW w \in Workers, WriteSignature(w), NEW p \in Posts, ~Met(p), DataOK(p)
    PROVE  DataOK(p)'
<1>1. /\ Rest(w) /\ UNCHANGED <<disk, row, req, meta>> /\ shell'.task = shell.task
      /\ worker[w].at = "write" /\ worker[w].post \in Posts
  BY NothingAssumption DEF WriteSignature, serve, pass, Shape, Types, WorkerTypes, Confined
<1>2. CASE worker[w].post # p
  BY <1>1, <1>2, SignatureWritten, NotWrittenAt
<1>3. CASE worker[w].post = p
  <2> SUFFICES ASSUME row[p] # None PROVE Agree(row[p], sig', disk, p)
    BY <1>1, <1>3, WrittenAt
  <2>1. Agree(row[p], sig, disk, p) /\ GotOK(w, p)
    BY <1>3 DEF DataOK, Met, Underway, Replacing
  <2>2. CASE sig' = sig
    BY <2>1, <2>2
  <2>3. CASE shell.task = "recompute_signatures" /\ sig'[p] = Signed(worker[w].got)
    BY <1>1, <2>1, <2>3 DEF Agree, GotOK, Signed
  <2>4. CASE /\ shell.task = "recompute_index" /\ p \in DOMAIN sig
             /\ sig'[p] = [sig[p] EXCEPT !.words = worker[w].got]
    <3>1. sig[p] \in [signature : Value, words : Value]
      BY <2>4 DEF Shape, Types, MaintenanceTypeOK, SigOK
    <3>2. sig'[p].signature = sig[p].signature /\ sig'[p].words = worker[w].got
      BY <2>4, <3>1
    <3>3. worker[w].got = sig[p].signature
      BY <1>1, <2>1, <2>4 DEF GotOK
    <3> QED
      BY <2>1, <2>4, <3>2, <3>3 DEF Agree
  <2> QED
    BY <1>3, <2>2, <2>3, <2>4, SignatureWritten
<1> QED
  BY <1>2, <1>3

-----------------------------------------------------------------------------
(* Writing sizes.                                                           *)

LEMMA PutSize ==
    ASSUME NEW r \in Row, NEW v \in Size, NEW c \in Thumbs
    PROVE  /\ Put(r, c, v) \in Row /\ Put(r, c, v).mime = r.mime
           /\ Put(r, c, v).checksum = r.checksum /\ Put(r, c, v).type = r.type
           /\ Put(r, c, v).phash = r.phash
<1>1. CASE c = "generated"
  BY <1>1 DEF Row, Put
<1>2. CASE c = "custom"
  BY <1>2 DEF Row, Put
<1> QED
  BY <1>1, <1>2 DEF Thumbs

\* A worker stores a size and leaves.
Sizes(w) == WriteSize(w) \/ StoreSize(w)

LEMMA SizeWritten ==
    ASSUME Shape, NEW w \in Workers, Sizes(w)
    PROVE  LET p == worker[w].post
               c == IF worker[w].at = "size" THEN "generated" ELSE worker[w].at
           IN  /\ p \in Posts /\ Rest(w) /\ worker[w].at \in {"size"} \cup Thumbs
               /\ c \in Thumbs /\ worker[w].got \in Size
               /\ UNCHANGED <<sig, disk, shell, cancelled, pass, queue, alarms, serve, told>>
               /\ \/ row' = row
                  \/ row[p] \in Row /\ row' = [row EXCEPT ![p] = Put(row[p], c, worker[w].got)]
<1>1. worker[w].at \in {"size"} \cup Thumbs
  BY DEF Sizes, WriteSize, StoreSize
<1>2. worker[w].post \in Posts /\ worker[w].got \in Size
  BY <1>1 DEF Shape, Types, WorkerTypes, Confined, Fits, Thumbs
<1>3. row \in [Posts -> Row \cup {None}]
  BY DEF Shape, Types, MaintenanceTypeOK
<1>4. CASE WriteSize(w)
  BY <1>1, <1>2, <1>3, <1>4 DEF WriteSize, Put, Thumbs
<1>5. CASE StoreSize(w)
  BY <1>1, <1>2, <1>3, <1>5 DEF StoreSize, Put, Thumbs
<1> QED
  BY <1>4, <1>5 DEF Sizes

LEMMA SizeRow ==
    ASSUME Shape, NEW w \in Workers, Sizes(w)
    PROVE  /\ row' \in [Posts -> Row \cup {None}]
           /\ \A p \in Posts :
                 /\ row'[p] = None <=> row[p] = None
                 /\ row[p] # None => /\ row'[p].mime = row[p].mime
                                     /\ row'[p].checksum = row[p].checksum
                                     /\ row'[p].type = row[p].type
                                     /\ row'[p].phash = row[p].phash
                 /\ p # worker[w].post => row'[p] = row[p]
<1>1. row \in [Posts -> Row \cup {None}]
  BY DEF Shape, Types, MaintenanceTypeOK
<1>2. CASE row' = row
  BY <1>1, <1>2
<1>3. CASE row' # row
  <2> DEFINE r == row[worker[w].post]
             v == worker[w].got
             c == IF worker[w].at = "size" THEN "generated" ELSE worker[w].at
  <2>1. /\ r \in Row /\ c \in Thumbs /\ v \in Size
        /\ row' = [row EXCEPT ![worker[w].post] = Put(r, c, v)]
    BY <1>3, SizeWritten
  <2> HIDE DEF c, v
  <2>2. /\ Put(r, c, v) \in Row /\ Put(r, c, v).mime = r.mime
        /\ Put(r, c, v).checksum = r.checksum /\ Put(r, c, v).type = r.type
        /\ Put(r, c, v).phash = r.phash
    BY <2>1, PutSize
  <2>3. worker[w].post \in Posts
    BY SizeWritten
  <2> QED
    BY <1>1, <2>1, <2>2, <2>3, Something
<1> QED
  BY <1>2, <1>3

LEMMA SizeShape ==
    ASSUME Shape, NEW w \in Workers, Sizes(w), crossed' \subseteq Posts
    PROVE  Shape'
<1>1. /\ Rest(w) /\ worker[w].at # "idle"
      /\ UNCHANGED <<shell, cancelled, pass, queue, serve, changed, failed, killed, alarms, sig, disk>>
  BY SizeWritten DEF told, Thumbs
<1>2. alarms' \subseteq Posts /\ failed' \subseteq Posts /\ SigOK(sig') /\ DiskOK(disk')
  BY <1>1 DEF Shape, Types, MaintenanceTypeOK
<1> QED
  BY <1>1, <1>2, SizeRow, WorkerShape

LEMMA SizeData ==
    ASSUME Shape, NEW w \in Workers, Sizes(w), NEW p \in Posts, ~Met(p), DataOK(p)
    PROVE  DataOK(p)'
<1>1. /\ Rest(w) /\ UNCHANGED <<disk, sig, req, meta>> /\ shell'.task = shell.task
  BY SizeWritten DEF serve, pass
<1>2. CASE worker[w].post # p
  BY <1>1, <1>2, SizeRow, NotWrittenAt
<1>3. CASE worker[w].post = p
  <2>1. ASSUME row'[p] # None
        PROVE  row[p] # None /\ row'[p].mime = row[p].mime /\ Agree(row'[p], sig', disk, p)
    <3>1. row[p] # None /\ Agree(row[p], sig, disk, p)
      BY <1>3, <2>1, SizeRow DEF DataOK, Met, Underway, Replacing
    <3> QED
      BY <1>1, <3>1, SizeRow DEF Agree
  <2> QED
    BY <1>1, <1>3, <2>1, WrittenAt
<1> QED
  BY <1>2, <1>3

\* A walk reads the size of a file.
LEMMA StatSteps ==
    ASSUME Shape, NEW w \in Workers, StatThumbnail(w)
    PROVE  /\ UNCHANGED <<data, cancelled, selected, unread, meta, queue, alarms, serve, told>>
           /\ shell.at = "walk" /\ shell.task = "reset_thumbnail_sizes" /\ Idle
           /\ entries' \subseteq entries
           /\ \/ Go("end") /\ UNCHANGED worker
              \/ UNCHANGED shell /\ \E dir \in Thumbs, p \in Posts, got \in Size : Do(w, dir, p, got)
<1>1. /\ UNCHANGED <<data, cancelled, selected, unread, meta, queue, alarms, serve, told>>
      /\ shell.at = "walk" /\ shell.task = "reset_thumbnail_sizes" /\ Idle
  BY DEF StatThumbnail
<1>2. PICK path \in entries :
        IF path \in DOMAIN disk
        THEN /\ Do(w, path.dir, path.post, disk[path])
             /\ entries' = entries \ {path} /\ UNCHANGED shell
        ELSE entries' = {} /\ Go("end") /\ UNCHANGED worker
  BY DEF StatThumbnail
<1>3. path.dir \in Thumbs /\ path \in Paths
  BY <1>1, <1>2 DEF Shape, Types, MaintenanceTypeOK, Confined
<1>4. path.post \in Posts
  BY <1>3 DEF Paths
<1>5. path \in DOMAIN disk => disk[path] \in Size
  BY <1>3 DEF Shape, Types, MaintenanceTypeOK, DiskOK, Thumbs
<1> QED
  BY <1>1, <1>2, <1>3, <1>4, <1>5

LEMMA StatShape ==
    ASSUME Shape, NEW w \in Workers, StatThumbnail(w), crossed' \subseteq Posts
    PROVE  Shape'
<1> USE DEF data, serve, told
<1>1. /\ UNCHANGED <<row, sig, disk, cancelled, selected, unread, meta, queue, alarms, req,
                     requests, changed, failed, killed>>
      /\ shell.at = "walk" /\ shell.task = "reset_thumbnail_sizes" /\ entries' \subseteq entries
      /\ \A v \in Workers : worker[v].at = "idle" /\ worker[v].post = None
  BY StatSteps DEF Idle, Shape, Confined
<1>2. /\ shell'.task = shell.task /\ shell'.at \in {"walk", "end"} /\ ShellTypes'
      /\ worker' # worker => UNCHANGED shell
  BY <1>1, StatSteps DEF Go, Shape, Types, ShellTypes
<1>3. /\ WorkerTypes' /\ \A v \in Workers \ {w} : worker'[v] = worker[v]
      /\ \/ worker' = worker
         \/ worker'[w].at \in Thumbs /\ worker'[w].post \in Posts /\ worker'[w].got \in Size
  BY StatSteps DEF Do, Shape, Types, WorkerTypes
<1>4. MaintenanceTypeOK'
  BY <1>1, <1>3 DEF Shape, Types, MaintenanceTypeOK, WorkerTypes
<1>5. ReqTypes' /\ MetaTypes'
  BY <1>1 DEF Shape, Types, ReqTypes, MetaTypes, Replacing
<1>6. Confined'
  BY <1>1, <1>2, <1>3, NothingAssumption DEF Shape, Confined, Busy, Thumbs, Fits
<1>7. Alone'
  <2>1. queue = {}
    BY <1>1 DEF Shape, Confined
  <2> QED
    BY <1>1, <1>3, <2>1 DEF Alone
<1> QED
  BY <1>2, <1>3, <1>4, <1>5, <1>6, <1>7 DEF Shape, Types

LEMMA StatData ==
    ASSUME Shape, NEW w \in Workers, StatThumbnail(w), NEW p \in Posts, DataOK(p)
    PROVE  DataOK(p)'
<1>1. UNCHANGED <<data, req, meta>> /\ shell'.task = shell.task
  BY StatSteps DEF serve, Go, Shape, Types, ShellTypes
<1>2. \A v \in Workers \ {w} : worker'[v] = worker[v]
  BY StatSteps DEF Do, Shape, Types, WorkerTypes
<1>3. worker'[w].at \in Thumbs \cup {"idle"}
  BY StatSteps DEF Do, Idle, Shape, Types, WorkerTypes
<1>4. GotOK(w, p)'
  BY <1>3 DEF GotOK, Thumbs
<1> QED
  BY <1>1, <1>2, <1>4, WorkerData

-----------------------------------------------------------------------------
(* Writing thumbnails.                                                      *)

SameContent(d, e, p) ==
    \A path \in Paths : path.post = p /\ path.dir = "posts" =>
        /\ path \in DOMAIN d <=> path \in DOMAIN e
        /\ path \in DOMAIN d => d[path] = e[path]

LEMMA ContentSame ==
    ASSUME NEW p \in Posts, NEW d, NEW e, SameContent(d, e, p)
    PROVE  \A mime \in Mimes :
              /\ FileOf(d, p, mime) = FileOf(e, p, mime)
              /\ content_path(p, mime) \in DOMAIN d <=> content_path(p, mime) \in DOMAIN e
              /\ content_path(p, mime) \in DOMAIN d =>
                    d[content_path(p, mime)] = e[content_path(p, mime)]
<1>1. ASSUME NEW mime \in Mimes, NEW key \in Keys
      PROVE  LET path == Path("posts", key, p, mime)
             IN  /\ path \in DOMAIN d <=> path \in DOMAIN e
                 /\ path \in DOMAIN d => d[path] = e[path]
  <2>1. Path("posts", key, p, mime).dir = "posts"
    BY DEF Path
  <2> QED
    BY <2>1, PathTypes DEF SameContent
<1>2. ASSUME NEW mime \in Mimes PROVE FileOf(d, p, mime) = FileOf(e, p, mime)
  BY <1>1 DEF FileOf, Keys
<1> QED
  BY <1>1, <1>2 DEF content_path, Keys

\* With the file in place and an image that can be decoded, thumbnails do not matter.
LEMMA AgreeInPlace ==
    ASSUME NEW p \in Posts, NEW d, NEW e, SameContent(d, e, p), NEW s, NEW r \in Row,
           content_path(p, r.mime) \in DOMAIN d, FileOf(d, p, r.mime) \notin Broken,
           Agree(r, s, d, p)
    PROVE  Agree(r, s, e, p)
<1>1. r.mime \in Mimes
  BY DEF Row
<1>2. FileOf(d, p, r.mime) = FileOf(e, p, r.mime) /\ content_path(p, r.mime) \in DOMAIN e
  BY <1>1, ContentSame
<1> QED
  BY <1>2 DEF Agree

\* A worker that writes thumbnails: what it leaves of the files.
Thumbnailing(w) == ClearThumbnails(w) \/ SaveThumbnail(w)

LEMMA ThumbnailSteps ==
    ASSUME Shape, NEW w \in Workers, Thumbnailing(w)
    PROVE  LET p == worker[w].post
           IN  /\ p \in Posts /\ worker[w].at \in {"clear", "save"} /\ worker[w].got \in Contents
               /\ UNCHANGED <<row, sig, shell, cancelled, pass, queue, alarms, serve, told>>
               /\ DiskOK(disk') /\ SameContent(disk, disk', p)
               /\ \A q \in Posts \ {p} : SameFiles(disk, disk', q)
               /\ \/ Do(w, "save", p, worker[w].got)
                  \/ \E got \in Size : Do(w, "size", p, got)
<1> DEFINE p == worker[w].post
           thumb == thumbnail_path(p, Configured)
           size == Thumbnail(worker[w].got, Configured)
<1>1. worker[w].at \in {"clear", "save"}
  BY DEF Thumbnailing, ClearThumbnails, SaveThumbnail
<1>2. p \in Posts /\ worker[w].got \in Contents
  BY <1>1 DEF Shape, Types, WorkerTypes, Confined, Fits
<1>3. DiskOK(disk)
  BY DEF Shape, Types, MaintenanceTypeOK
<1>4. /\ thumb \in Paths /\ thumb.post = p /\ thumb.dir = "generated" /\ size \in Size
      /\ \A path \in Thumbnails(p) : path.post = p /\ path.dir = "generated"
  <2>1. thumb \in Thumbnails(p)
    BY MaintenanceAssumption DEF Thumbnails
  <2>2. size \in Size
    BY <1>2, MaintenanceAssumption DEF Thumbnail, Size
  <2> QED
    BY <1>2, <2>1, <2>2, PathTypes
<1>5. UNCHANGED <<row, sig, shell, cancelled, pass, queue, alarms, serve, told>>
  BY DEF Thumbnailing, ClearThumbnails, SaveThumbnail
<1>6. CASE ClearThumbnails(w)
  <2>1. disk' = Removed(disk, Thumbnails(p)) /\ Do(w, "save", p, worker[w].got)
    BY <1>6 DEF ClearThumbnails
  <2>2. /\ DOMAIN disk' = DOMAIN disk \ Thumbnails(p)
        /\ \A path \in DOMAIN disk' : disk'[path] = disk[path]
        /\ disk' = [path \in DOMAIN disk' |-> disk[path]]
    BY <2>1 DEF Removed, Restrict
  <2>3. DiskOK(disk') /\ SameContent(disk, disk', p)
    BY <1>3, <1>4, <2>2 DEF DiskOK, SameContent
  <2>4. \A q \in Posts \ {p} : SameFiles(disk, disk', q)
    BY <1>4, <2>2 DEF SameFiles
  <2> QED
    BY <1>1, <1>2, <1>5, <2>1, <2>3, <2>4
<1>7. CASE SaveThumbnail(w)
  <2>1. disk' = Written(disk, thumb, size) /\ Do(w, "size", p, disk'[thumb])
    BY <1>7 DEF SaveThumbnail
  <2> HIDE DEF thumb, size
  <2>2. disk' = [q \in DOMAIN disk \cup {thumb} |-> IF q = thumb THEN size ELSE disk[q]]
    BY <2>1 DEF Written
  <2>3. DiskOK(disk') /\ SameContent(disk, disk', p)
    BY <1>3, <1>4, <2>2 DEF DiskOK, SameContent
  <2>4. \A q \in Posts \ {p} : SameFiles(disk, disk', q)
    BY <1>4, <2>2 DEF SameFiles
  <2>5. disk'[thumb] \in Size
    BY <1>4, <2>2
  <2> QED
    BY <1>1, <1>2, <1>5, <2>1, <2>3, <2>4, <2>5
<1> QED
  BY <1>6, <1>7 DEF Thumbnailing

LEMMA ThumbnailShape ==
    ASSUME Shape, NEW w \in Workers, Thumbnailing(w), crossed' \subseteq Posts
    PROVE  Shape'
<1>1. /\ worker[w].at \in {"clear", "save"} /\ worker[w].got \in Contents
      /\ UNCHANGED <<row, sig, shell, cancelled, pass, queue, alarms, serve, told>>
      /\ DiskOK(disk')
  BY ThumbnailSteps
<1>2. \E at \in Busy, got \in Value \cup Size : Fits(at, got) /\ Do(w, at, worker[w].post, got)
  BY <1>1, ThumbnailSteps DEF Busy, Fits, Value, Thumbs
<1>3. /\ alarms' \subseteq Posts /\ failed' \subseteq Posts /\ SigOK(sig')
      /\ row' \in [Posts -> Row \cup {None}]
  BY <1>1 DEF Shape, Types, MaintenanceTypeOK, told
<1> QED
  BY <1>1, <1>2, <1>3, WorkerShape DEF Busy, told

LEMMA ThumbnailData ==
    ASSUME Shape, NEW w \in Workers, Thumbnailing(w), NEW p \in Posts, ~Met(p), DataOK(p)
    PROVE  DataOK(p)'
<1>1. /\ UNCHANGED <<row, sig, shell, req, meta>> /\ DiskOK(disk')
      /\ worker[w].at \in {"clear", "save"} /\ shell'.task = shell.task
  BY ThumbnailSteps DEF serve, pass
<1>2. \A v \in Workers \ {w} : worker'[v] = worker[v]
  BY ThumbnailSteps DEF Do, Shape, Types, WorkerTypes
<1>3. worker'[w].post = worker[w].post /\ worker'[w].at \in {"save", "size"}
  BY ThumbnailSteps DEF Do, Shape, Types, WorkerTypes
<1>4. CASE worker[w].post # p
  <2>1. SameFor(p)
    BY <1>1, <1>4, ThumbnailSteps DEF SameFor
  <2>2. \A v \in Workers : worker'[v].post = p => worker'[v] = worker[v]
    BY <1>2, <1>3, <1>4
  <2> QED
    BY <1>1, <2>1, <2>2, Elsewhere
<1>5. CASE worker[w].post = p
  <2> SUFFICES ASSUME row[p] # None PROVE DataOK(p)'
    BY <1>1 DEF DataOK
  <2>1. req.post # p /\ ~Replacing(p) /\ ~Replacing(p)'
    BY <1>1, <1>5 DEF Met, Underway, Replacing
  <2>2. Agree(row[p], sig, disk, p) /\ GotOK(w, p) /\ SameContent(disk, disk', p)
    BY <1>5, <2>1, ThumbnailSteps DEF DataOK
  <2>3. /\ meta[p].mime = row[p].mime /\ content_path(p, row[p].mime) \in DOMAIN disk
        /\ FileOf(disk, p, row[p].mime) \notin Broken
    BY <1>1, <2>2 DEF GotOK
  <2>4. row[p] \in Row /\ row[p].mime \in Mimes
    BY DEF Shape, Types, MaintenanceTypeOK, Row
  <2>5. Agree(row[p], sig, disk', p)
    BY <2>2, <2>3, <2>4, AgreeInPlace
  <2>6. /\ content_path(p, row[p].mime) \in DOMAIN disk'
        /\ FileOf(disk', p, row[p].mime) \notin Broken
    BY <2>2, <2>3, <2>4, ContentSame
  <2>7. MetaOK(p)' /\ HeldOK(p)'
    BY <1>1, <2>1, <2>3 DEF MetaOK, HeldOK
  <2>8. GotOK(w, p)'
    BY <1>1, <1>3, <2>3, <2>6 DEF GotOK
  <2>9. \A v \in Workers : worker'[v].post = p => v = w
    BY <1>2, <1>5, NothingAssumption DEF Shape, Alone
  <2> QED
    BY <1>1, <2>1, <2>5, <2>7, <2>8, <2>9 DEF DataOK
<1> QED
  BY <1>4, <1>5

-----------------------------------------------------------------------------
(* The walk that renames files.                                             *)

\* A walk moves a file to a name that no file has: the content of the post is the
\* same under its new name, and its thumbnails show what they showed.
MovedFiles(d, e, p) ==
    /\ \A mime \in Mimes :
          /\ FileOf(e, p, mime) = FileOf(d, p, mime)
          /\ content_path(p, mime) \in DOMAIN d => content_path(p, mime) \in DOMAIN e
    /\ Shown(d, p) \subseteq Shown(e, p)
    /\ \A path \in DOMAIN e : path.dir = "generated" /\ path.post = p =>
          \E from \in DOMAIN d : from.dir = "generated" /\ from.post = p /\ e[path] = d[from]

LEMMA AgreeMoved ==
    ASSUME NEW p \in Posts, NEW d, NEW e, MovedFiles(d, e, p), NEW s, NEW r \in Row, Agree(r, s, d, p)
    PROVE  Agree(r, s, e, p)
<1> DEFINE c == FileOf(d, p, r.mime)
<1>1. r.mime \in Mimes
  BY DEF Row
<1>2. FileOf(e, p, r.mime) = c /\ Shown(d, p) \subseteq Shown(e, p)
  BY <1>1 DEF MovedFiles
<1>3. ASSUME c # None, content_path(p, r.mime) \notin DOMAIN e, c \notin Broken,
             NEW path \in DOMAIN e, path.dir = "generated", path.post = p
      PROVE  e[path].of \in {c, None}
  <2>1. content_path(p, r.mime) \notin DOMAIN d
    BY <1>1, <1>3 DEF MovedFiles
  <2>2. PICK from \in DOMAIN d : from.dir = "generated" /\ from.post = p /\ e[path] = d[from]
    BY <1>3 DEF MovedFiles
  <2>3. d[from].of \in {c, None}
    BY <1>3, <2>1, <2>2 DEF Agree
  <2> QED
    BY <2>2, <2>3
<1> QED
  BY <1>2, <1>3 DEF Agree

LEMMA WalkedTypes ==
    ASSUME NEW path \in Paths
    PROVE  /\ Walked(path) \in Paths /\ Walked(path).post = path.post /\ Walked(path).dir = path.dir
           /\ Walked(path).key = "new"
           /\ Walked(path).ext = IF path.dir = "posts" THEN path.ext ELSE Configured
<1>1. CASE path \in [dir : {"posts"}, key : Keys, post : Posts, ext : Mimes]
  BY <1>1 DEF Walked, Paths, Keys
<1>2. CASE path \in [dir : Thumbs, key : Keys, post : Posts, ext : Formats]
  BY <1>2, MaintenanceAssumption DEF Walked, Paths, Keys, Thumbs
<1> QED
  BY <1>1, <1>2 DEF Paths

LEMMA MoveSteps ==
    ASSUME NEW d, DiskOK(d), NEW path \in DOMAIN d, NEW to, to = Walked(path),
           to # path, NEW e, e = Moved(d, path, to)
    PROVE  /\ DOMAIN e = (DOMAIN d \cup {to}) \ {path}
           /\ e[to] = d[path]
           /\ \A q \in DOMAIN d \ {path, to} : e[q] = d[q]
           /\ DiskOK(e)
<1>1. e = [q \in (DOMAIN d \cup {to}) \ {path} |-> IF q = to THEN d[path] ELSE d[q]]
  BY DEF Moved, Removed, Written, Restrict
<1>2. path \in Paths
  BY DEF DiskOK
<1>3. to \in Paths /\ to.dir = path.dir
  BY <1>2, WalkedTypes
<1>4. DiskOK(e)
  <2>1. DOMAIN e \subseteq Paths /\ d[path] \in Contents \cup Size
    BY <1>1, <1>3 DEF DiskOK
  <2>2. ASSUME NEW q \in DOMAIN e
        PROVE  e[q] \in Contents \cup Size /\ e[q] \in IF q.dir = "posts" THEN Contents ELSE Size
    BY <1>1, <1>3 DEF DiskOK
  <2> QED
    BY <1>1, <2>1, <2>2 DEF DiskOK
<1> QED
  BY <1>1, <1>4

LEMMA MovedPost ==
    ASSUME NEW d, DiskOK(d), NEW path \in DOMAIN d, Walked(path) \notin DOMAIN d,
           NEW p \in Posts, path.post = p, NEW e, e = Moved(d, path, Walked(path))
    PROVE  MovedFiles(d, e, p)
<1> DEFINE to == Walked(path)
<1>1. path \in Paths
  BY DEF DiskOK
<1>2. /\ to \in Paths /\ to.post = path.post /\ to.dir = path.dir /\ to.key = "new"
      /\ to.ext = IF path.dir = "posts" THEN path.ext ELSE Configured
  BY <1>1, WalkedTypes
<1>3. to # path
  OBVIOUS
<1> HIDE DEF to
<1>4. /\ DOMAIN e = (DOMAIN d \cup {to}) \ {path} /\ e[to] = d[path]
      /\ \A q \in DOMAIN d \ {path} : q \in DOMAIN e /\ e[q] = d[q]
  BY <1>3, MoveSteps DEF to
<1>5. to \notin DOMAIN d
  BY DEF to
<1>6. ASSUME NEW q \in DOMAIN e, q.dir = "generated", q.post = p
      PROVE  \E from \in DOMAIN d : from.dir = "generated" /\ from.post = p /\ e[q] = d[from]
  BY <1>2, <1>4, <1>6
<1>7. CASE path.dir = "posts"
  <2>1. \A q \in Thumbnails(p) : q \in DOMAIN e <=> q \in DOMAIN d
    BY <1>2, <1>4, <1>7, PathTypes
  <2>2. Shown(d, p) \subseteq Shown(e, p)
    <3>1. Thumbnails(p) \cap DOMAIN d \subseteq Thumbnails(p) \cap DOMAIN e
      BY <2>1
    <3>2. \A q \in Thumbnails(p) \cap DOMAIN d : e[q] = d[q]
      BY <1>4, <1>7, PathTypes
    <3> QED
      BY <3>1, <3>2 DEF Shown
  <2>3. path = Path("posts", "old", p, path.ext) /\ to = Path("posts", "new", p, path.ext)
        /\ path.ext \in Mimes
    <3>1. path.ext \in Mimes /\ path.key \in Keys
      BY <1>1, <1>7 DEF Paths, Thumbs
    <3>2. path = [dir |-> "posts", key |-> path.key, post |-> p, ext |-> path.ext]
      BY <1>1, <1>7 DEF Paths, Thumbs
    <3>3. to = [dir |-> "posts", key |-> "new", post |-> p, ext |-> path.ext]
      BY <1>2, <1>7 DEF Paths, Thumbs
    <3> QED
      BY <1>3, <3>1, <3>2, <3>3 DEF Keys, Path
  <2>4. ASSUME NEW mime \in Mimes
        PROVE  /\ FileOf(e, p, mime) = FileOf(d, p, mime)
               /\ content_path(p, mime) \in DOMAIN d => content_path(p, mime) \in DOMAIN e
    <3> DEFINE o == Path("posts", "old", p, mime)
               n == Path("posts", "new", p, mime)
    <3>1. o.key = "old" /\ n.key = "new" /\ o.ext = mime /\ n.ext = mime
          /\ path.key = "old" /\ to.key = "new"
      BY <2>3 DEF Path
    <3>2. CASE mime = path.ext
      <4>1. o = path /\ n = to
        BY <2>3, <3>2
      <4> QED
        BY <1>4, <1>5, <4>1 DEF FileOf, content_path
    <3>3. CASE mime # path.ext
      <4>1. o \notin {path, to} /\ n \notin {path, to}
        BY <1>2, <1>7, <3>1, <3>3
      <4>2. /\ o \in DOMAIN e <=> o \in DOMAIN d
            /\ n \in DOMAIN e <=> n \in DOMAIN d
            /\ o \in DOMAIN d => e[o] = d[o]
            /\ n \in DOMAIN d => e[n] = d[n]
        BY <1>4, <4>1
      <4> QED
        BY <4>2 DEF FileOf, content_path
    <3> QED
      BY <3>2, <3>3
  <2> QED
    BY <1>6, <2>2, <2>4 DEF MovedFiles
<1>8. CASE path.dir # "posts"
  <2>1. SameContent(d, e, p)
    BY <1>2, <1>4, <1>8 DEF SameContent
  <2>2. ASSUME NEW q \in Thumbnails(p) \cap DOMAIN d PROVE d[q].of \in Shown(e, p)
    <3>1. CASE q = path
      <4>1. path.dir = "generated"
        BY <3>1, PathTypes
      <4>2. to \in Thumbnails(p)
        <5>1. to = [dir |-> "generated", key |-> "new", post |-> p, ext |-> Configured]
          BY <1>2, <4>1 DEF Paths, Thumbs
        <5> QED
          BY <5>1, MaintenanceAssumption DEF Thumbnails, thumbnail_path, Path
      <4> QED
        BY <1>3, <1>4, <3>1, <4>2 DEF Shown
    <3>2. CASE q # path
      BY <1>4, <3>2 DEF Shown
    <3> QED
      BY <3>1, <3>2
  <2>3. Shown(d, p) \subseteq Shown(e, p)
    BY <2>2 DEF Shown
  <2> QED
    BY <1>6, <2>1, <2>3, ContentSame DEF MovedFiles
<1> QED
  BY <1>7, <1>8

\* A step of the walk leaves the files as they are, or moves one that was in
\* nobody's way.
LEMMA WalkSteps ==
    ASSUME Shape, reset_filenames
    PROVE  /\ UNCHANGED <<row, sig, shell, cancelled, selected, unread, meta, queue, worker,
                          alarms, serve, told>>
           /\ shell.at = "walk" /\ shell.task = "reset_filenames" /\ entries' \subseteq entries
           /\ DiskOK(disk')
           /\ \/ disk' = disk
              \/ \E path \in DOMAIN disk :
                    /\ path.post \in Posts /\ disk' = Moved(disk, path, Walked(path))
                    /\ \A q \in Posts \ {path.post} : SameFiles(disk, disk', q)
                    /\ ~Overwritten(path.post) =>
                          Walked(path) \notin DOMAIN disk /\ ~Replacing(path.post)
<1>1. PICK path \in entries :
        /\ entries' = entries \ {path}
        /\ disk' = IF path \in DOMAIN disk THEN Moved(disk, path, Walked(path)) ELSE disk
  BY DEF reset_filenames
<1>2. /\ UNCHANGED <<row, sig, shell, cancelled, selected, unread, meta, queue, worker,
                     alarms, serve, told>>
      /\ shell.at = "walk" /\ shell.task = "reset_filenames" /\ entries' \subseteq entries
  BY <1>1 DEF reset_filenames
<1>3. DiskOK(disk) /\ path \in Paths
  BY DEF Shape, Types, MaintenanceTypeOK
<1>4. CASE path \notin DOMAIN disk
  BY <1>1, <1>2, <1>3, <1>4
<1>5. CASE path \in DOMAIN disk /\ Walked(path) = path
  <2>1. disk' = [q \in DOMAIN disk |-> disk[q]]
    BY <1>1, <1>5 DEF Moved, Removed, Written, Restrict
  <2>2. disk' = disk
    BY <1>3, <2>1 DEF DiskOK
  <2> QED
    BY <1>2, <1>3, <2>2
<1>6. CASE path \in DOMAIN disk /\ Walked(path) # path
  <2> DEFINE to == Walked(path)
  <2>1. to \in Paths /\ to.post = path.post /\ path.post \in Posts
    BY <1>3, WalkedTypes DEF Paths
  <2> HIDE DEF to
  <2>2. /\ DOMAIN disk' = (DOMAIN disk \cup {to}) \ {path} /\ disk'[to] = disk[path]
        /\ \A q \in DOMAIN disk \ {path, to} : disk'[q] = disk[q]
        /\ DiskOK(disk')
    BY <1>1, <1>3, <1>6, MoveSteps DEF to
  <2>3. \A q \in Posts \ {path.post} : SameFiles(disk, disk', q)
    BY <2>1, <2>2 DEF SameFiles
  <2>4. ASSUME ~Overwritten(path.post) PROVE to \notin DOMAIN disk /\ ~Replacing(path.post)
    <3>1. path \in DOMAIN disk \ DOMAIN disk'
      BY <1>6, <2>2
    <3> QED
      BY <1>2, <2>4, <3>1 DEF Overwritten, Locked, Replacing, to
  <2> QED
    BY <1>1, <1>2, <1>6, <2>1, <2>2, <2>3, <2>4 DEF to
<1> QED
  BY <1>4, <1>5, <1>6

LEMMA WalkShape ==
    ASSUME Shape, reset_filenames, crossed' \subseteq Posts
    PROVE  Shape'
<1>1. /\ UNCHANGED <<row, sig, shell, cancelled, selected, unread, meta, queue, worker, alarms, req,
                     requests, changed, failed, killed>>
      /\ shell.task = "reset_filenames" /\ entries' \subseteq entries /\ DiskOK(disk')
  BY WalkSteps DEF serve, told
<1>2. MaintenanceTypeOK'
  BY <1>1 DEF Shape, Types, MaintenanceTypeOK
<1>3. ReqTypes' /\ ShellTypes' /\ WorkerTypes' /\ MetaTypes'
  BY <1>1 DEF Shape, Types, ReqTypes, ShellTypes, WorkerTypes, MetaTypes, Replacing
<1>4. Confined' /\ Alone'
  BY <1>1 DEF Shape, Confined, Alone, Fits
<1> QED
  BY <1>2, <1>3, <1>4 DEF Shape, Types

LEMMA WalkData ==
    ASSUME Shape, reset_filenames, NEW p \in Posts, DataOK(p), ~Overwritten(p)
    PROVE  DataOK(p)'
<1>1. /\ UNCHANGED <<row, sig, shell, meta, worker, req>> /\ DiskOK(disk')
      /\ shell.at = "walk" /\ shell.task = "reset_filenames"
  BY WalkSteps DEF serve
<1>2. CASE disk' = disk
  BY <1>1, <1>2, Elsewhere DEF SameFor, SameFiles
<1>3. CASE disk' # disk
  <2>1. PICK path \in DOMAIN disk :
            /\ path.post \in Posts /\ disk' = Moved(disk, path, Walked(path))
            /\ \A q \in Posts \ {path.post} : SameFiles(disk, disk', q)
            /\ ~Overwritten(path.post) => Walked(path) \notin DOMAIN disk /\ ~Replacing(path.post)
    BY <1>3, WalkSteps
  <2>2. CASE path.post # p
    <3>1. SameFor(p)
      BY <1>1, <2>1, <2>2 DEF SameFor
    <3> QED
      BY <1>1, <3>1, Elsewhere
  <2>3. CASE path.post = p
    <3> SUFFICES ASSUME row[p] # None PROVE DataOK(p)'
      BY <1>1 DEF DataOK
    <3>1. ~Replacing(p) /\ ~Replacing(p)' /\ row[p] \in Row /\ DiskOK(disk)
      BY <1>1, <2>1, <2>3 DEF Replacing, Shape, Types, MaintenanceTypeOK
    <3>2. MovedFiles(disk, disk', p)
      BY <2>1, <2>3, <3>1, MovedPost
    <3>3. Agree(row[p], sig, disk, p) /\ HeldOK(p)
      BY <3>1 DEF DataOK
    <3>4. Agree(row[p], sig, disk', p)
      BY <3>1, <3>2, <3>3, AgreeMoved
    <3>5. HeldOK(p)'
      BY <1>1, <3>1, <3>3 DEF HeldOK
    <3>6. MetaOK(p)'
      BY <1>1 DEF MetaOK, Shape, Confined, WalkTasks
    <3>7. ASSUME NEW w \in Workers PROVE GotOK(w, p)'
      <4>1. worker[w].at \notin Busy
        BY <1>1 DEF Shape, Confined
      <4> QED
        BY <1>1, <4>1 DEF GotOK, Busy
    <3> QED
      BY <1>1, <3>1, <3>4, <3>5, <3>6, <3>7 DEF DataOK
  <2> QED
    BY <2>2, <2>3
<1> QED
  BY <1>2, <1>3

-----------------------------------------------------------------------------
(* The process is started again.                                            *)

Restarted == Again \/ Kill

LEMMA RestartSteps ==
    ASSUME Shape, Restarted
    PROVE  /\ \E t \in Tasks : Started(t)
           /\ killed' \in BOOLEAN
           /\ \/ disk' = disk
              \/ \E w \in Workers :
                    /\ worker[w].at = "save" /\ worker[w].post \in Posts
                    /\ disk' = Written(disk, thumbnail_path(worker[w].post, Configured),
                                       Thumbnail(None, Configured))
<1>1. shell.task \in Tasks /\ killed \in BOOLEAN
  BY DEF Shape, Types, ShellTypes, MaintenanceTypeOK
<1>2. \A w \in Workers : worker[w].at = "save" => worker[w].post \in Posts
  BY DEF Shape, Types, WorkerTypes, Confined
<1>3. CASE Again
  BY <1>1, <1>3 DEF Again
<1>4. CASE Kill
  BY <1>1, <1>2, <1>4 DEF Kill
<1> QED
  BY <1>3, <1>4 DEF Restarted

\* An empty thumbnail is written for a post.
LEMMA EmptyWritten ==
    ASSUME DiskOK(disk), NEW p \in Posts,
           disk' = Written(disk, thumbnail_path(p, Configured), Thumbnail(None, Configured))
    PROVE  /\ DiskOK(disk') /\ SameContent(disk, disk', p)
           /\ \A q \in Posts \ {p} : SameFiles(disk, disk', q)
<1> DEFINE thumb == thumbnail_path(p, Configured)
           size == Thumbnail(None, Configured)
<1>1. thumb \in Thumbnails(p) /\ size \in Size
  BY MaintenanceAssumption DEF Thumbnails, Thumbnail, Size
<1>2. thumb \in Paths /\ thumb.post = p /\ thumb.dir = "generated"
  BY <1>1, PathTypes
<1> HIDE DEF thumb, size
<1>3. disk' = [q \in DOMAIN disk \cup {thumb} |-> IF q = thumb THEN size ELSE disk[q]]
  BY DEF Written, thumb, size
<1>4. DiskOK(disk') /\ SameContent(disk, disk', p)
  BY <1>1, <1>2, <1>3 DEF DiskOK, SameContent
<1>5. \A q \in Posts \ {p} : SameFiles(disk, disk', q)
  BY <1>2, <1>3 DEF SameFiles
<1> QED
  BY <1>4, <1>5

LEMMA RestartShape ==
    ASSUME Shape, Restarted, crossed' \subseteq Posts
    PROVE  Shape'
<1>1. PICK t \in Tasks : Started(t)
  BY RestartSteps
<1>2. /\ UNCHANGED <<row, sig, req, requests, changed, failed>>
      /\ cancelled' = FALSE /\ selected' = {} /\ unread' = {} /\ entries' = {} /\ queue' = {}
      /\ DOMAIN meta' = {} /\ worker' = [w \in Workers |-> Nobody] /\ alarms' = {}
      /\ shell' = [shell EXCEPT !.at = "start", !.task = t]
  BY <1>1 DEF Started, serve
<1>3. ShellTypes' /\ shell'.at = "start"
  BY <1>2 DEF Shape, Types, ShellTypes
<1>4. ReqTypes'
  BY <1>2 DEF Shape, Types, ReqTypes, Replacing
<1>5. WorkerTypes' /\ MetaTypes'
  <2>1. MetaTypes'
    BY <1>1 DEF Started, MetaTypes
  <2> QED
    BY <1>2, <2>1 DEF WorkerTypes, Nobody, Value
<1>6. DiskOK(disk')
  BY RestartSteps, EmptyWritten DEF Shape, Types, MaintenanceTypeOK
<1>7. MaintenanceTypeOK'
  <2>1. \A w \in Workers : worker'[w].post \in Posts \cup {None}
    BY <1>2 DEF Nobody
  <2> QED
    BY <1>2, <1>6, <2>1, RestartSteps DEF Shape, Types, MaintenanceTypeOK
<1>8. Confined' /\ Alone'
  BY <1>2, <1>3 DEF Nobody, Confined, Alone, Busy, Thumbs, Fits
<1> QED
  BY <1>3, <1>4, <1>5, <1>7, <1>8 DEF Shape, Types

LEMMA RestartData ==
    ASSUME Shape, Restarted, NEW p \in Posts, ~Met(p), DataOK(p)
    PROVE  DataOK(p)'
<1>1. /\ UNCHANGED <<row, sig, req>> /\ DOMAIN meta' = {}
      /\ worker' = [w \in Workers |-> Nobody]
  <2>1. PICK t \in Tasks : Started(t)
    BY RestartSteps
  <2> QED
    BY <2>1 DEF Started, serve
<1>2. MetaOK(p)' /\ \A w \in Workers : worker'[w].post # p
  BY <1>1, NothingAssumption DEF MetaOK, Nobody
<1> SUFFICES ASSUME row[p] # None PROVE (~Replacing(p) => Agree(row[p], sig, disk', p)) /\ HeldOK(p)'
  BY <1>1, <1>2 DEF DataOK, Replacing
<1>3. row[p] \in Row /\ DiskOK(disk) /\ (~Replacing(p) => Agree(row[p], sig, disk, p)) /\ HeldOK(p)
  BY DEF Shape, Types, MaintenanceTypeOK, DataOK
<1>4. CASE disk' = disk
  BY <1>1, <1>3, <1>4 DEF HeldOK, Replacing, Thumbed
<1>5. CASE disk' # disk
  <2>1. PICK w \in Workers :
            /\ worker[w].at = "save" /\ worker[w].post \in Posts
            /\ disk' = Written(disk, thumbnail_path(worker[w].post, Configured),
                               Thumbnail(None, Configured))
    BY <1>5, RestartSteps
  <2>2. CASE worker[w].post = p
    <3>1. req.post # p /\ ~Replacing(p)
      BY <2>2 DEF Met, Underway, Replacing
    <3>2. HeldOK(p)'
      BY <1>1, <3>1 DEF HeldOK, Replacing
    <3>3. GotOK(w, p) /\ SameContent(disk, disk', p)
      BY <1>3, <2>1, <2>2, EmptyWritten DEF DataOK
    <3>4. content_path(p, row[p].mime) \in DOMAIN disk /\ FileOf(disk, p, row[p].mime) \notin Broken
      BY <2>1, <3>3 DEF GotOK
    <3> QED
      BY <1>3, <3>1, <3>2, <3>3, <3>4, AgreeInPlace
  <2>3. CASE worker[w].post # p
    <3>1. SameFiles(disk, disk', p) /\ DiskOK(disk')
      BY <1>3, <2>1, <2>3, EmptyWritten
    <3>2. ~Replacing(p) => Agree(row[p], sig, disk', p)
      BY <1>3, <3>1, AgreeSame
    <3>3. HeldOK(p)'
      <4>1. \A mime \in Mimes :
              /\ content_path(p, mime) \in DOMAIN disk <=> content_path(p, mime) \in DOMAIN disk'
              /\ content_path(p, mime) \in DOMAIN disk =>
                    disk[content_path(p, mime)] = disk'[content_path(p, mime)]
        BY <1>3, <3>1, FilesSame
      <4>2. \A c : Thumbed(p, c)' <=> Thumbed(p, c)
        <5>1. thumbnail_path(p, Configured) \in Paths /\ thumbnail_path(p, Configured).post = p
          BY PathTypes, MaintenanceAssumption DEF Thumbnails
        <5> QED
          BY <3>1, <5>1 DEF Thumbed, SameFiles
      <4>3. row[p].mime \in Mimes /\ (Replacing(p) => MimeOf[req.new] \in Mimes)
        BY <1>3, MaintenanceAssumption DEF Row, Shape, Types, ReqTypes, Replacing
      <4> QED
        BY <1>1, <1>3, <4>1, <4>2, <4>3 DEF HeldOK, Replacing
    <3> QED
      BY <3>2, <3>3
  <2> QED
    BY <2>2, <2>3
<1> QED
  BY <1>4, <1>5

-----------------------------------------------------------------------------
(* Requests.                                                                *)

LEMMA BeginSteps ==
    ASSUME Shape, BeginRequest
    PROVE  /\ UNCHANGED <<data, task, told>> /\ req.at = "idle" /\ req.post = None
           /\ \E p \in Posts, op \in Ops :
                 /\ row[p] \in Row
                 /\ req' = [at |-> IF op = "replace" THEN "files" ELSE "commit", post |-> p,
                            op |-> op, old |-> row[p], new |-> None]
<1>1. row \in [Posts -> Row \cup {None}] /\ (req.at = "idle" => req.post = None)
  BY DEF Shape, Types, MaintenanceTypeOK, ReqTypes
<1> QED
  BY <1>1 DEF BeginRequest

\* What a request leaves alone.
LEMMA RequestShape ==
    ASSUME Shape, UNCHANGED task, UNCHANGED <<failed, killed>>, changed' \subseteq Posts,
           crossed' \subseteq Posts, row' \in [Posts -> Row \cup {None}], SigOK(sig'),
           DiskOK(disk'), ReqTypes'
    PROVE  Shape'
<1>1. UNCHANGED <<shell, cancelled, selected, unread, entries, meta, queue, worker, alarms>>
  BY DEF task, pass
<1>2. MaintenanceTypeOK'
  BY <1>1 DEF Shape, Types, MaintenanceTypeOK
<1>3. ShellTypes' /\ WorkerTypes' /\ MetaTypes'
  BY <1>1 DEF Shape, Types, ShellTypes, WorkerTypes, MetaTypes
<1>4. Confined' /\ Alone'
  BY <1>1 DEF Shape, Confined, Alone, Fits
<1> QED
  BY <1>2, <1>3, <1>4 DEF Shape, Types

LEMMA BeginShape ==
    ASSUME Shape, BeginRequest, crossed' \subseteq Posts
    PROVE  Shape'
<1>1. UNCHANGED <<row, sig, disk>> /\ UNCHANGED task /\ UNCHANGED <<changed, failed, killed>>
  BY BeginSteps DEF data, told
<1>2. /\ row' \in [Posts -> Row \cup {None}] /\ SigOK(sig') /\ DiskOK(disk')
      /\ changed' \subseteq Posts
  BY <1>1 DEF Shape, Types, MaintenanceTypeOK
<1>3. PICK p \in Posts, op \in Ops :
        /\ row[p] \in Row
        /\ req' = [at |-> IF op = "replace" THEN "files" ELSE "commit", post |-> p,
                   op |-> op, old |-> row[p], new |-> None]
  BY BeginSteps
<1>4. ReqTypes'
  BY <1>1, <1>3, Something DEF ReqTypes, Replacing
<1> QED
  BY <1>1, <1>2, <1>4, RequestShape

LEMMA BeginData ==
    ASSUME Shape, BeginRequest, NEW p \in Posts, DataOK(p)
    PROVE  DataOK(p)'
<1>1. UNCHANGED <<row, sig, disk, meta, worker, shell>> /\ req.at = "idle"
  BY BeginSteps DEF data, task, pass
<1>2. ~Replacing(p) /\ ~Replacing(p)'
  BY <1>1, BeginSteps DEF Replacing
<1>3. req'.post = p => row[p] = req'.old
  BY BeginSteps
<1>4. row[p] # None => MetaOK(p)'
  BY <1>1, <1>2 DEF DataOK, MetaOK, Thumbed
<1>5. HeldOK(p)'
  BY <1>1, <1>2, <1>3 DEF HeldOK
<1>6. \A w \in Workers : GotOK(w, p)' <=> GotOK(w, p)
  BY <1>1 DEF GotOK
<1> QED
  BY <1>1, <1>2, <1>4, <1>5, <1>6 DEF DataOK

\* The files of a replacement: the new content is in place of the old, and shown.
LEMMA ReplaceSteps ==
    ASSUME Shape, ReplaceFiles, NEW p, p = req.post
    PROVE  /\ UNCHANGED <<row, sig, requests>> /\ UNCHANGED task /\ UNCHANGED told
           /\ req.at = "files" /\ req.op = "replace" /\ p \in Posts /\ DiskOK(disk')
           /\ \A q \in Posts \ {p} : SameFiles(disk, disk', q)
           /\ \E c \in Uploads :
                 /\ req' = [req EXCEPT !.at = "commit", !.new = c]
                 /\ content_path(p, MimeOf[c]) \in DOMAIN disk'
                 /\ disk'[content_path(p, MimeOf[c])] = c
                 /\ Thumbed(p, c)'
                 /\ \A mime \in Mimes \ {MimeOf[c]} :
                       content_path(p, mime) \in DOMAIN disk' =>
                           content_path(p, mime) \in DOMAIN disk /\ mime # req.old.mime
<1> DEFINE old == content_path(p, req.old.mime)
           thumb == thumbnail_path(p, Configured)
<1>1. PICK c \in Uploads :
        /\ disk' = Written(Written(Removed(disk, {old}), content_path(p, MimeOf[c]), c),
                           thumb, Thumbnail(c, Configured))
        /\ req' = [req EXCEPT !.at = "commit", !.new = c]
  BY DEF ReplaceFiles
<1> DEFINE new == content_path(p, MimeOf[c])
           size == Thumbnail(c, Configured)
<1>2. req.at = "files" /\ UNCHANGED <<row, sig, requests>> /\ UNCHANGED task /\ UNCHANGED told
  BY DEF ReplaceFiles
<1>3. p \in Posts /\ req.old \in Row /\ req.op = "replace"
  BY <1>2 DEF Shape, Types, ReqTypes
<1>4. c \in Contents /\ MimeOf[c] \in Mimes /\ req.old.mime \in Mimes
  BY <1>3, MaintenanceAssumption DEF Row
<1>5. new \in Paths /\ new.post = p /\ new.dir = "posts" /\ old.post = p
  BY <1>3, <1>4, PathTypes DEF content_path, Keys, Path
<1>6. thumb \in Thumbnails(p) /\ size \in Size
  BY <1>4, MaintenanceAssumption DEF Thumbnails, Thumbnail, Size
<1>7. thumb \in Paths /\ thumb.post = p /\ thumb.dir = "generated"
  BY <1>3, <1>6, PathTypes
<1>8. DiskOK(disk)
  BY DEF Shape, Types, MaintenanceTypeOK
<1>9. ASSUME NEW mime \in Mimes
      PROVE  /\ content_path(p, mime).ext = mime /\ content_path(p, mime).dir = "posts"
             /\ (content_path(p, mime) = old <=> mime = req.old.mime)
             /\ (content_path(p, mime) = new <=> mime = MimeOf[c])
  BY DEF content_path, Path
<1> HIDE DEF old, thumb, new, size
<1>10. disk' = [q \in ((DOMAIN disk \ {old}) \cup {new}) \cup {thumb} |->
                  IF q = thumb THEN size ELSE IF q = new THEN c ELSE disk[q]]
  BY <1>1 DEF Written, Removed, Restrict, new, size
<1>11. new # thumb
  BY <1>5, <1>7
<1>12. DiskOK(disk')
  BY <1>4, <1>5, <1>6, <1>7, <1>8, <1>10, <1>11 DEF DiskOK
<1>13. \A q \in Posts \ {p} : SameFiles(disk, disk', q)
  BY <1>5, <1>7, <1>10 DEF SameFiles
<1>14. new \in DOMAIN disk' /\ disk'[new] = c /\ thumb \in DOMAIN disk' /\ disk'[thumb] = size
  BY <1>10, <1>11
<1>15. Thumbed(p, c)'
  BY <1>14 DEF Thumbed, thumb, size
<1>16. ASSUME NEW mime \in Mimes \ {MimeOf[c]}, content_path(p, mime) \in DOMAIN disk'
       PROVE  content_path(p, mime) \in DOMAIN disk /\ mime # req.old.mime
  BY <1>7, <1>9, <1>10, <1>16
<1> QED
  BY <1>1, <1>2, <1>3, <1>12, <1>13, <1>14, <1>15, <1>16 DEF new

LEMMA ReplaceShape ==
    ASSUME Shape, ReplaceFiles, crossed' \subseteq Posts
    PROVE  Shape'
<1>1. PICK p : p = req.post
  OBVIOUS
<1>2. /\ UNCHANGED <<row, sig, requests>> /\ UNCHANGED task /\ UNCHANGED told
      /\ req.at = "files" /\ p \in Posts /\ DiskOK(disk')
  BY <1>1, ReplaceSteps
<1>3. PICK c \in Uploads : req' = [req EXCEPT !.at = "commit", !.new = c]
  BY <1>1, ReplaceSteps
<1>4. ReqTypes'
  BY <1>2, <1>3 DEF Shape, Types, ReqTypes, Replacing
<1>5. UNCHANGED <<changed, failed, killed>>
  BY <1>2 DEF told
<1>6. changed' \subseteq Posts /\ row' \in [Posts -> Row \cup {None}] /\ SigOK(sig')
  BY <1>2, <1>5 DEF Shape, Types, MaintenanceTypeOK
<1> QED
  BY <1>2, <1>4, <1>5, <1>6, RequestShape

LEMMA ReplaceData ==
    ASSUME Shape, ReplaceFiles, NEW p \in Posts, ~Met(p), DataOK(p)
    PROVE  DataOK(p)'
<1>1. PICK r : r = req.post
  OBVIOUS
<1>2. /\ UNCHANGED <<row, sig>> /\ UNCHANGED <<meta, worker, shell>>
      /\ req.at = "files" /\ req.op = "replace" /\ DiskOK(disk')
      /\ \A q \in Posts \ {r} : SameFiles(disk, disk', q)
  BY <1>1, ReplaceSteps DEF task, pass
<1>3. PICK c \in Uploads :
            /\ req' = [req EXCEPT !.at = "commit", !.new = c]
            /\ content_path(r, MimeOf[c]) \in DOMAIN disk'
            /\ disk'[content_path(r, MimeOf[c])] = c
            /\ Thumbed(r, c)'
            /\ \A mime \in Mimes \ {MimeOf[c]} :
                  content_path(r, mime) \in DOMAIN disk' =>
                      content_path(r, mime) \in DOMAIN disk /\ mime # req.old.mime
  BY <1>1, ReplaceSteps
<1>4. req'.post = r /\ req'.op = "replace" /\ req'.at = "commit" /\ req'.new = c /\ req'.old = req.old
  BY <1>1, <1>2, <1>3 DEF Shape, Types, ReqTypes
<1>5. CASE r # p
  <2>1. SameFor(p) /\ req.post # p /\ req'.post # p
    BY <1>1, <1>2, <1>4, <1>5 DEF SameFor
  <2> QED
    BY <1>2, <2>1, Elsewhere
<1>6. CASE r = p
  <2> SUFFICES ASSUME row[p] # None PROVE DataOK(p)'
    BY <1>2 DEF DataOK
  <2>1. Replacing(p)' /\ ~Replacing(p) /\ req.post = p
    BY <1>1, <1>2, <1>4, <1>6 DEF Replacing
  <2>2. MetaOK(p) /\ row[p] = req.old /\ row[p].mime \in Mimes
    BY <2>1 DEF DataOK, HeldOK, Shape, Types, MaintenanceTypeOK, Row
  <2>3. MetaOK(p)'
    <3> SUFFICES ASSUME p \in DOMAIN meta PROVE MetaOK(p)'
      BY <1>2 DEF MetaOK
    <3>1. meta[p].mime \in Mimes
      BY DEF Shape, Types, MetaTypes, Row
    <3>2. meta[p].mime = MimeOf[c] \/ content_path(p, meta[p].mime) \notin DOMAIN disk'
      <4>1. meta[p].mime = req.old.mime \/ content_path(p, meta[p].mime) \notin DOMAIN disk
        BY <2>1, <2>2 DEF MetaOK
      <4> QED
        BY <1>3, <1>6, <3>1, <4>1
    <3>3. shell.task # "recompute_post_types"
      BY <2>1 DEF Met, Underway
    <3> QED
      BY <1>2, <1>3, <1>4, <1>6, <2>1, <3>2, <3>3 DEF MetaOK
  <2>4. HeldOK(p)'
    BY <1>2, <1>3, <1>4, <1>6, <2>1, <2>2 DEF HeldOK
  <2>5. \A w \in Workers : worker'[w].post # p
    BY <1>2, <2>1 DEF Met, Underway
  <2> QED
    BY <2>1, <2>3, <2>4, <2>5 DEF DataOK
<1> QED
  BY <1>5, <1>6

\* The row and the signature that a request commits.
LEMMA FreshRow ==
    ASSUME Shape, NEW p, NEW c \in Uploads, req.old \in Row
    PROVE  /\ Fresh(p, c) \in Row /\ Fresh(p, c).mime = MimeOf[c] /\ Fresh(p, c).checksum = c
           /\ Fresh(p, c).type = (IF MimeOf[c] \in Inspected THEN c ELSE MimeOf[c])
           /\ Fresh(p, c).phash = c
<1>1. c \in Contents /\ MimeOf[c] \in Mimes
  BY MaintenanceAssumption
<1>2. Thumbnail(c, Configured) \in Size /\ req.old.custom \in Size \cup {None}
  BY <1>1, MaintenanceAssumption DEF Thumbnail, Size, Row
<1>3. c \in Value /\ MimeOf[c] \in Value
  BY <1>1 DEF Value
<1> QED
  BY <1>1, <1>2, <1>3 DEF Fresh, Row

LEMMA CommitSteps ==
    ASSUME Shape, CommitRequest, NEW p, p = req.post
    PROVE  /\ UNCHANGED <<disk, requests, failed, killed>> /\ UNCHANGED task
           /\ p \in Posts /\ req.at = "commit" /\ row[p] # None
           /\ changed' = changed \cup {p} /\ req.old \in Row /\ req.op \in Ops
           /\ row' \in [Posts -> Row \cup {None}] /\ SigOK(sig')
           /\ \A q \in Posts \ {p} :
                 /\ row'[q] = row[q] /\ (q \in DOMAIN sig' <=> q \in DOMAIN sig)
                 /\ q \in DOMAIN sig => sig'[q] = sig[q]
           /\ \/ req.op = "delete" /\ row'[p] = None /\ req' = [req EXCEPT !.at = "gone"]
              \/ req.op = "edit" /\ row'[p] = req.old /\ sig' = sig /\ req' = Quiet
              \/ /\ req.op = "replace" /\ req.new \in Uploads /\ row'[p] = Fresh(p, req.new)
                 /\ p \in DOMAIN sig' /\ sig'[p] = Signed(req.new) /\ req' = Quiet
<1> USE NothingAssumption
<1>1. /\ UNCHANGED <<disk, requests, failed, killed>> /\ UNCHANGED task
      /\ req.at = "commit" /\ changed' = changed \cup {p}
  BY DEF CommitRequest
<1>2. /\ p \in Posts /\ req.old \in Row /\ row[p] # None
      /\ req.op \in Ops \cup {"none"}
  BY <1>1 DEF Shape, Types, ReqTypes
<1>3. row \in [Posts -> Row \cup {None}] /\ SigOK(sig)
  BY DEF Shape, Types, MaintenanceTypeOK
<1>4. req.op \in Ops /\ req.op \in {"delete", "edit", "replace"}
  BY <1>1, <1>2, MaintenanceAssumption DEF Shape, Types, ReqTypes
<1>5. CASE req.op = "delete"
  <2>1. /\ row' = [row EXCEPT ![p] = None] /\ sig' = Restrict(sig, DOMAIN sig \ {p})
        /\ req' = [req EXCEPT !.at = "gone"]
    BY <1>5 DEF CommitRequest
  <2>2. sig' = [q \in DOMAIN sig \ {p} |-> sig[q]]
    BY <2>1 DEF Restrict
  <2> QED
    BY <1>1, <1>2, <1>3, <1>4, <1>5, <2>1, <2>2 DEF SigOK
<1>6. CASE req.op = "edit"
  <2>1. row' = [row EXCEPT ![p] = req.old] /\ sig' = sig /\ req' = Quiet
    BY <1>6 DEF CommitRequest
  <2> QED
    BY <1>1, <1>2, <1>3, <1>4, <1>6, <2>1
<1>7. CASE req.op = "replace"
  <2>1. /\ row' = [row EXCEPT ![p] = Fresh(p, req.new)] /\ req' = Quiet
        /\ sig' = [q \in DOMAIN sig \cup {p} |-> IF q = p THEN Signed(req.new) ELSE sig[q]]
    BY <1>7 DEF CommitRequest
  <2>2. req.new \in Uploads
    BY <1>1, <1>7 DEF Shape, Types, ReqTypes, Replacing
  <2>3. Fresh(p, req.new) \in Row
    BY <1>2, <2>2, FreshRow
  <2>4. Signed(req.new) \in [signature : Value, words : Value]
    BY <2>2, MaintenanceAssumption DEF Signed, Value
  <2>5. SigOK(sig')
    BY <1>2, <1>3, <2>1, <2>4 DEF SigOK
  <2> HIDE DEF Fresh, Signed
  <2> QED
    BY <1>1, <1>2, <1>3, <1>4, <1>7, <2>1, <2>2, <2>3, <2>5
<1> QED
  BY <1>4, <1>5, <1>6, <1>7

LEMMA CommitShape ==
    ASSUME Shape, CommitRequest, crossed' \subseteq Posts
    PROVE  Shape'
<1>1. PICK p : p = req.post
  OBVIOUS
<1>2. /\ UNCHANGED <<disk, failed, killed>> /\ UNCHANGED task /\ p \in Posts /\ req.at = "commit"
      /\ changed' = changed \cup {p} /\ row' \in [Posts -> Row \cup {None}] /\ SigOK(sig')
  BY <1>1, CommitSteps
<1>3. ReqTypes'
  <2>1. CASE req' = Quiet
    BY <2>1 DEF Quiet, ReqTypes, Replacing
  <2>2. CASE req.op = "delete" /\ row'[p] = None /\ req' = [req EXCEPT !.at = "gone"]
    BY <1>1, <1>2, <2>2 DEF Shape, Types, ReqTypes, Replacing
  <2> QED
    BY <1>1, <2>1, <2>2, CommitSteps
<1>4. changed' \subseteq Posts /\ DiskOK(disk')
  BY <1>2 DEF Shape, Types, MaintenanceTypeOK
<1> QED
  BY <1>2, <1>3, <1>4, RequestShape

LEMMA CommitData ==
    ASSUME Shape, CommitRequest, NEW p \in Posts, ~Met(p), DataOK(p)
    PROVE  DataOK(p)'
<1>1. PICK r : r = req.post
  OBVIOUS
<1>2. /\ UNCHANGED disk /\ UNCHANGED <<meta, worker, shell>> /\ r \in Posts
      /\ req.at = "commit" /\ row[r] # None /\ DiskOK(disk')
  BY <1>1, CommitSteps DEF task, pass, Shape, Types, MaintenanceTypeOK
<1>3. req'.post \in {None, r} /\ ~Replacing(p)'
  BY <1>1, CommitSteps DEF Quiet, Replacing, Shape, Types, ReqTypes
<1>4. CASE r # p
  <2>1. SameFor(p)
    BY <1>1, <1>2, <1>4, CommitSteps DEF SameFor, SameFiles
  <2>2. req.post # p /\ req'.post # p
    BY <1>1, <1>3, <1>4, NothingAssumption
  <2> QED
    BY <1>2, <2>1, <2>2, Elsewhere
<1>5. CASE r = p /\ row'[p] = None
  BY <1>5 DEF DataOK
<1>6. CASE r = p /\ row'[p] # None
  <2>1. /\ MetaOK(p) /\ HeldOK(p) /\ (~Replacing(p) => Agree(row[p], sig, disk, p))
        /\ req.post = p
    BY <1>1, <1>2, <1>6 DEF DataOK
  <2>2. (\A w \in Workers : worker'[w].post # p)
        /\ (p \in DOMAIN meta => shell.task # "recompute_post_types")
    BY <1>2, <2>1 DEF Met, Underway
  <2>3. req' = Quiet
    BY <1>1, <1>6, CommitSteps
  <2>4. HeldOK(p)'
    BY <1>3, <2>3, NothingAssumption DEF HeldOK, Quiet
  <2>5. CASE req.op = "edit"
    <3>1. row'[p] = row[p] /\ sig' = sig /\ ~Replacing(p)
      BY <1>1, <1>6, <2>1, <2>5, CommitSteps DEF HeldOK, Replacing
    <3>2. MetaOK(p)'
      BY <1>2, <1>3, <2>1, <3>1 DEF MetaOK, Thumbed
    <3> QED
      BY <1>2, <2>1, <2>2, <2>4, <3>1, <3>2 DEF DataOK
  <2>6. CASE req.op = "replace"
    <3>1. PICK c : c = req.new
      OBVIOUS
    <3>2. /\ c \in Uploads /\ row'[p] = Fresh(p, c) /\ p \in DOMAIN sig' /\ sig'[p] = Signed(c)
          /\ Replacing(p)
      BY <1>1, <1>2, <1>6, <2>6, <3>1, CommitSteps DEF Replacing
    <3>3. /\ row'[p].mime = MimeOf[c] /\ row'[p].checksum = c /\ row'[p].phash = c
          /\ row'[p].type = IF MimeOf[c] \in Inspected THEN c ELSE MimeOf[c]
      BY <1>1, <3>2, CommitSteps, FreshRow
    <3>4. /\ content_path(p, MimeOf[c]) \in DOMAIN disk /\ disk[content_path(p, MimeOf[c])] = c
          /\ Thumbed(p, c)
      BY <2>1, <3>1, <3>2 DEF HeldOK
    <3>5. FileOf(disk, p, MimeOf[c]) = c /\ c \notin Broken
      BY <3>2, <3>4, MaintenanceAssumption DEF FileOf, content_path
    <3>6. Agree(row'[p], sig', disk, p)
      BY <3>2, <3>3, <3>4, <3>5 DEF Agree, Signed
    <3>7. MetaOK(p)'
      <4> SUFFICES ASSUME p \in DOMAIN meta PROVE MetaOK(p)'
        BY <1>2 DEF MetaOK
      <4>1. meta[p].mime = MimeOf[c] \/ content_path(p, meta[p].mime) \notin DOMAIN disk
        BY <2>1, <3>1, <3>2 DEF MetaOK
      <4>2. FileOf(disk, p, row'[p].mime) = c
        BY <3>3, <3>5
      <4>3. Thumbed(p, c)'
        BY <1>2, <3>4 DEF Thumbed
      <4> QED
        BY <1>2, <1>3, <2>2, <3>3, <4>1, <4>2, <4>3 DEF MetaOK
    <3> QED
      BY <1>2, <2>2, <2>4, <3>6, <3>7 DEF DataOK
  <2> QED
    BY <1>1, <1>6, <2>5, <2>6, CommitSteps
<1> QED
  BY <1>4, <1>5, <1>6

LEMMA PurgeSteps ==
    ASSUME Shape, PurgeFiles, NEW p, p = req.post
    PROVE  /\ UNCHANGED <<row, sig, requests>> /\ UNCHANGED task /\ UNCHANGED told
           /\ p \in Posts /\ row[p] = None /\ req' = Quiet /\ DiskOK(disk')
           /\ \A q \in Posts \ {p} : SameFiles(disk, disk', q)
<1> DEFINE gone == {content_path(p, req.old.mime)} \cup {Path(d, "new", p, Configured) : d \in Thumbs}
<1>1. /\ UNCHANGED <<row, sig, requests>> /\ UNCHANGED task /\ UNCHANGED told
      /\ req.at = "gone" /\ req' = Quiet
  BY DEF PurgeFiles
<1>2. disk' = Removed(disk, gone)
  BY DEF PurgeFiles
<1>3. p \in Posts /\ row[p] = None /\ DiskOK(disk)
  BY <1>1 DEF Shape, Types, ReqTypes, MaintenanceTypeOK
<1>4. \A path \in gone : path.post = p
  BY DEF content_path, Path
<1> HIDE DEF gone
<1>5. disk' = [path \in DOMAIN disk \ gone |-> disk[path]]
  BY <1>2 DEF Removed, Restrict
<1>6. DiskOK(disk')
  BY <1>3, <1>5 DEF DiskOK
<1>7. \A q \in Posts \ {p} : SameFiles(disk, disk', q)
  BY <1>4, <1>5 DEF SameFiles
<1> QED
  BY <1>1, <1>3, <1>6, <1>7

LEMMA PurgeShape ==
    ASSUME Shape, PurgeFiles, crossed' \subseteq Posts
    PROVE  Shape'
<1>1. PICK p : p = req.post
  OBVIOUS
<1>2. /\ UNCHANGED <<row, sig, requests>> /\ UNCHANGED task /\ UNCHANGED <<changed, failed, killed>>
      /\ req' = Quiet /\ DiskOK(disk')
  BY <1>1, PurgeSteps DEF told
<1>3. ReqTypes'
  BY <1>2, NothingAssumption DEF Quiet, ReqTypes, Replacing
<1>4. changed' \subseteq Posts /\ row' \in [Posts -> Row \cup {None}] /\ SigOK(sig')
  BY <1>2 DEF Shape, Types, MaintenanceTypeOK
<1> QED
  BY <1>2, <1>3, <1>4, RequestShape

LEMMA PurgeData ==
    ASSUME Shape, PurgeFiles, NEW p \in Posts, DataOK(p)
    PROVE  DataOK(p)'
<1>1. PICK r : r = req.post
  OBVIOUS
<1>2. /\ UNCHANGED <<row, sig>> /\ UNCHANGED <<meta, worker, shell>>
      /\ row[r] = None /\ req' = Quiet /\ DiskOK(disk')
      /\ \A q \in Posts \ {r} : SameFiles(disk, disk', q)
  BY <1>1, PurgeSteps DEF task, pass
<1>3. CASE r = p
  BY <1>2, <1>3 DEF DataOK
<1>4. CASE r # p
  <2>1. SameFor(p) /\ req.post # p /\ req'.post # p
    BY <1>1, <1>2, <1>4, NothingAssumption DEF SameFor, Quiet
  <2> QED
    BY <1>2, <2>1, Elsewhere
<1> QED
  BY <1>3, <1>4

-----------------------------------------------------------------------------
(* Every step.                                                              *)

Steps == \/ Onward \/ user_query \/ load_metadata_in_chunks \/ reset_filenames \/ Restarted
         \/ BeginRequest \/ ReplaceFiles \/ CommitRequest \/ PurgeFiles
         \/ \E w \in Workers : \/ Take(w) \/ Read(w) \/ CheckDuplicate(w) \/ WriteColumn(w)
                               \/ WriteSignature(w) \/ Thumbnailing(w) \/ Sizes(w) \/ StatThumbnail(w)

LEMMA NextSteps ==
    ASSUME Next
    PROVE  /\ Steps
           /\ crossed' = crossed \cup {p \in Posts : Overwritten(p) \/ Met(p)'}
BY DEF Next, Steps, Onward, Restarted, Request, Work, Thumbnailing, Sizes, Met

LEMMA StepShape ==
    ASSUME Shape, Steps, crossed' \subseteq Posts
    PROVE  Shape'
BY OnwardShape, QueryShape, LoadShape, WalkShape, RestartShape, BeginShape, ReplaceShape,
   CommitShape, PurgeShape, TakeShape, ReadShape, CheckShape, ColumnShape, SignatureShape,
   ThumbnailShape, SizeShape, StatShape DEF Steps

LEMMA StepData ==
    ASSUME Shape, Steps, NEW p \in Posts, ~Met(p), DataOK(p), ~Overwritten(p)
    PROVE  DataOK(p)'
BY OnwardData, QueryData, LoadData, WalkData, RestartData, BeginData, ReplaceData,
   CommitData, PurgeData, TakeData, ReadData, CheckData, ColumnData, SignatureData,
   ThumbnailData, SizeData, StatData DEF Steps

LEMMA NextInv ==
    ASSUME Inv, Next
    PROVE  Inv'
<1>1. Steps /\ crossed' = crossed \cup {p \in Posts : Overwritten(p) \/ Met(p)'}
  BY NextSteps
<1>2. crossed' \subseteq Posts
  BY <1>1 DEF Inv, Shape, Types, MaintenanceTypeOK
<1>3. Shape'
  BY <1>1, <1>2, StepShape DEF Inv
<1>4. ASSUME NEW p \in Posts, p \notin crossed' PROVE ~Met(p)' /\ DataOK(p)'
  <2>1. ~Overwritten(p) /\ ~Met(p)' /\ p \notin crossed
    BY <1>1, <1>4
  <2> QED
    BY <1>1, <2>1, StepData DEF Inv
<1> QED
  BY <1>3, <1>4 DEF Inv

LEMMA StutterInv ==
    ASSUME Inv, UNCHANGED mainVars
    PROVE  Inv'
<1> USE DEF mainVars, data, task, pass, serve, told
<1>1. UNCHANGED <<data, crossed, task, serve, told>>
  OBVIOUS
<1>2. Shape'
  BY <1>1 DEF Inv, Shape, Types, MaintenanceTypeOK, ReqTypes, ShellTypes, WorkerTypes, MetaTypes,
              Replacing, Confined, Alone, Fits
<1>3. ASSUME NEW p \in Posts, p \notin crossed' PROVE ~Met(p)' /\ DataOK(p)'
  <2>1. ~Met(p) /\ DataOK(p)
    BY <1>1, <1>3 DEF Inv
  <2>2. ~Met(p)'
    BY <1>1, <2>1 DEF Met, Underway
  <2>3. (MetaOK(p)' <=> MetaOK(p)) /\ \A w \in Workers : GotOK(w, p)' <=> GotOK(w, p)
    BY <1>1, SameMeta, SameGot
  <2> QED
    BY <1>1, <2>1, <2>2, <2>3, Frame DEF DataOK
<1> QED
  BY <1>2, <1>3 DEF Inv

LEMMA SpecInv == Spec => []Inv
<1>1. Inv /\ [Next]_mainVars => Inv'
  BY NextInv, StutterInv
<1> QED
  BY <1>1, InitInv, PTL DEF Spec

-----------------------------------------------------------------------------

\* Every variable has its type: the rows, the signatures and the files of
\* every post, and what the process, the workers and the request hold.
THEOREM TasksTyped == Spec => []MaintenanceTypeOK
<1>1. Inv => MaintenanceTypeOK
  BY DEF Inv, Shape, Types
<1> QED
  BY <1>1, SpecInv, PTL

LEMMA CurrentAt ==
    ASSUME Inv, NEW p \in Posts, Undisturbed(p), content_path(p, row[p].mime) \in DOMAIN disk
    PROVE  /\ row[p].checksum \in {Old, Holds(content_path(p, row[p].mime))}
           /\ row[p].type \in {Old, detect_post_type(p, row[p].mime)}
           /\ row[p].phash \in {None, Old} \cup Images(p)
           /\ p \in DOMAIN sig =>
                /\ sig[p].signature \in {Old, representative_image(p, row[p].mime)}
                /\ sig[p].words \in {Old, sig[p].signature}
<1> DEFINE c == Holds(content_path(p, row[p].mime))
<1>1. Agree(row[p], sig, disk, p)
  BY DEF Inv, DataOK, Undisturbed, Replacing
<1>2. row[p] \in Row /\ row[p].mime \in Mimes /\ DiskOK(disk)
  BY DEF Undisturbed, Inv, Shape, Types, MaintenanceTypeOK, Row
<1>3. FileOf(disk, p, row[p].mime) = c
  BY DEF FileOf, Holds, content_path
<1>4. c # None
  <2>1. content_path(p, row[p].mime).dir = "posts"
    BY DEF content_path, Path
  <2> QED
    BY <1>2, <2>1, Something DEF Holds, DiskOK
<1>5. c \in Images(p) /\ (c \in Broken => Shown(disk, p) \subseteq Images(p))
  BY DEF Images
<1> QED
  BY <1>1, <1>3, <1>4, <1>5 DEF Agree, detect_post_type, representative_image

\* A derived column is what a former version left there or belongs to the file
\* the row names, however many workers write beside the requests, whenever the
\* process is stopped or killed, unless a request was at the post together
\* with a worker (the tasks of admin/post.rs and admin/database.rs).
THEOREM ColumnsStayCurrent == Spec => []ColumnsCurrent
<1>1. Inv => ColumnsCurrent
  BY CurrentAt DEF ColumnsCurrent
<1> QED
  BY <1>1, SpecInv, PTL
=============================================================================
