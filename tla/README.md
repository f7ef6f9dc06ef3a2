# A TLA+ model of Oxibooru's server

Oxibooru is an image board: a Rust server (`src/server`) that keeps posts, tags, pools, comments
and users in PostgreSQL and the posts' content in a data directory, and a JavaScript client
(`src/client`) that talks to it over a REST API. This directory holds TLA+ modules that model
the server's own logic, TLC configurations that check them on small instances, and proofs
checked by TLAPS. `PROJECT.json` lists the runs, the source lines every definition stands for,
the hazards the properties are for, and the theorems.

Sections: 1 the system; 2 the modules; 3-9 the models, one group of components each, with their
runs, properties and bounds; 10 fairness and deadlock; 11 the proofs; 12 what is only
model-checked and what is not modelled; 13 how to run it.

## 1. The system

| part | state it keeps | operations | modelled by |
|---|---|---|---|
| Post content (`api/post.rs`, `update/post.rs`, `filesystem.rs`, `admin/post.rs`) | row of `post` (MIME type, checksums, size), content file | create, update, convert to JPEG XL (endpoint, admin task), merge, delete | `PostContent` |
| Orphan cleaner (`admin/database.rs`) | none of its own | scan the data directory against the rows, re-check, remove | `OrphanFiles` |
| Temporary uploads (`filesystem.rs`, `content/upload.rs`, `content/cache.rs`) | upload directory, map of known sizes, ring cache of properties | stream an upload, sweep hourly, compute and transcode, take | `Uploads` |
| Webhooks (`api/middleware.rs`) | `LAST_POSTED_SNAPSHOT`, table `snapshot` | announce new snapshots after each modifying request | `WebhookFeed`, `Webhooks` |
| Connections (`db.rs`, `api/mod.rs`) | r2d2 pool, semaphore permits, two mutexes | get, transaction, timeout | `Connections` |
| Tags (`api/tag.rs`, `update/tag.rs`) | tags, names, implications, usages | create, edit, merge, delete; closure and cycle check | `TagGraph` |
| Categories (`api/tag_category.rs`, `api/pool_category.rs`) | categories, of which ID 0 is the default | create, edit, set default, delete | `CategoryBook`, `Categories` |
| Pools, relations, favorites, scores, comments, features (`api/`, `update/`) | side tables of a post | edit, merge, delete | `PostLinks` |
| Users (`api/user.rs`, `update/user.rs`, `auth/`) | users, ranks, names, avatar files | register, edit, delete | `Users` |
| Passwords and tokens (`api/password_reset.rs`, `api/user_token.rs`, `admin/user.rs`) | hashes, salts, tokens | mail and use a reset link, create, update and use a token | `Credentials` |
| Statistics (`migrations/013_database_statistics`, `admin/database.rs`) | counters kept by triggers | every insert and delete; recomputation | `Statistics` |
| Search (`search/`, lists of `api/`) | search seeds of clients | parse, filter, sort, page, neighbors | `SearchTerms`, `Search` |
| Responses (`resource/`) | none | load rows and fields in batches | `Records`, `Resources` |
| Admin tasks (`admin/`) | columns and thumbnails derived from files | recompute, regenerate, rename, interrupt | `Maintenance` |
| Duplicates (`admin/post.rs`) | relations, perceptual hashes | list pairs and groups, compare, merge | `Duplicates` |
| Signatures (`content/signature.rs`, `math/`) | none | crop, measure, compare, compress, index | `Signatures` |
| Codecs (`content/decode.rs`, `encode.rs`, `ffmpeg.rs`, `flash.rs`, ...) | none | functions of bytes | abstracted |
| Configuration, errors, enums, client, functional tests | - | - | not modelled |

How they interact. A request goes through `post_to_webhooks`, `auth` and a `TimeoutLayer` to its
handler (`api/mod.rs`). A handler that modifies anything does so in one transaction on a
blocking thread (`db.rs`, `AsyncConnectionPool::transaction`); the thread runs to its end even
if the request times out or the client goes away. Handlers that change content rename, write and
remove files from inside (or right after) the transaction. Admin tasks are another process on
the same database and data directory, and may run beside the server. After the response the
middleware reads the snapshots committed meanwhile and announces them.

What is hard about it: the database rolls back and the file system does not; transactions of
READ COMMITTED see each other's commits between two statements; versions are compared on rows
that are not locked; snapshot IDs are drawn in one order and committed in another; requests time
out while their transaction goes on; the server and the tasks can stop anywhere.

## 2. The modules

One module per component, each with its state, one action per statement or file operation that
others can observe, and its properties. `MC...` modules give the constants their values. Where
two components share no state, an MC module puts them side by side and a variable `part` says
which one a behaviour is about, so that one run covers both without multiplying their states.

| modules | checked by (run) | proofs |
|---|---|---|
| `PostContent`; `OrphanFiles` extends it; `MCPostContent` | `content_merge`, `content_stale_edit`, `content_convert_crash` | `PostContentProofs` |
| `WebhookFeed`, `Webhooks`; `Connections`; `MCServer` | `server`, `webhooks_skipped` | `ServerProofs` |
| `Uploads` | `uploads`, `uploads_token` | `UploadsProofs` |
| `Database` (rows under READ COMMITTED), used by `TagGraph`, `PostLinks`, `Statistics` | through these | through these |
| `TagGraph`; `CategoryBook`, `Categories`; `PostLinks`; `MCTags` | `tags` | `TagGraphProofs`, `CategoriesProofs`, `PostLinksProofs` |
| `Users`, `Credentials`, which extend `Accounts`; `Statistics`; `SearchTerms`, `Search`, `MCSearch`; `MCAccounts` | `accounts`, `statistics_reset` | `AccountsProofs` |
| `Maintenance`; `Duplicates`; `Signatures`; `Records`, `Resources`, `MCResponses`; `MCMaintenance` | `maintenance`, `signature_crop` | `MaintenanceProofs` |

PostgreSQL is modelled as the handlers rely on it: a statement sees what was committed before it
and what its own transaction did; writers of a row wait for each other; unique indexes and
foreign keys make a conflicting writer wait and then fail; a deadlock the server breaks, a stale
version, a validation error or a lost connection is an `Abort`, which is always possible.
`Database` states this once for rows that are records; `PostContent`, `Users`, `Credentials` and
`Categories`, which have one or two tables, keep a function per table instead.

Many properties carry an exception of the form "unless another commit came between". Each is a
history variable no guard reads (`torn`, `raced`, `late`, `muddled`, `uneven`, `skewed`,
`exposed`, `crossed`, `spoiled`). It is set by exactly the interleavings the code does not
protect against, so the property says both what is kept and what is not.

## 3. Post content and the orphan cleaner

**State.** `row[p]` is the committed row of post `p`: `NoRow`, or the identity of the content it
names, a picture and an encoding. `file[p][m]` is the file at `PostHash::content_path`, which
depends on the post's ID and the MIME type only. `temp` is the directory of temporary uploads.
Each request `r` has a program counter, a job, the rows it has read (`seen`), the rows it has
written and not committed (`stage`) and the picture it holds between two file operations
(`held`). `issued` are the IDs the sequence has handed out. `dirty`, `stale` and `torn` are
history.

| operation | code | steps |
|---|---|---|
| `create` | `create_impl` | `StartCreate`, `Insert`, `Fill`, `Commit` |
| `edit` (no new content) | `update_impl` | `Read`, `Save`, `Commit` |
| `update` (new content) | `update_impl` | `Read`, `ReplaceSignature`, `Unlink`, `Fill`, `Save`, `Commit` |
| `convert` | `update::post::convert_to_jxl` | `Read`, `Decode`, `Encode`, `ConvertRow` or `ConvertUndo`, `Unlink`, `Commit` |
| `task` | `convert_post_to_jxl_in_parallel` | `Read`, `Decode`, `Encode`, `TaskRow` or `ConvertUndo`, `TaskSweep` |
| `delete` | `delete` | `Read`, `DeleteRow`, `Commit`, `Purge` |
| `merge`, `replace` | `update::post::merge` (API, and the admin duplicate merge) | `StartMerge`, `MergeRead`, `MergeLock`, `MergeAbsorb`, `SwapMove` (three), `MergeMeta`, `MergePurge`, `Commit` |

`Abort` is any failure of a step; `Crash` stops the server anywhere. Both roll transactions back
and leave the files. `UploadFile` and `ExpireUpload` are the client and the sweep.

**Abstractions.** A file is written completely or not at all. Thumbnails, and the columns that
do not describe the content, are left out. Decoding and encoding keep the picture or fail. The
version a client sends is that of the row the request reads: the model starts where
`verify_version` has passed. `POST_TAG_MUTEX` is not relied on, because a request that times out
drops its guard while its transaction goes on. The admin duplicate merge reads its two rows in
autocommit mode before the transaction, which to others is the same as `StartMerge` and
`MergeRead`, which lock nothing.

**Properties** (run `content_merge`).

* `ContentServed`, the central one. The code does *not* keep every post's file in place, so the
  invariant says what it does keep: `torn` collects the posts of requests that rolled back after
  changing files, committed content columns somebody had replaced since they read them, or
  changed files under another request's hands. Every other post, whenever nobody is in the
  middle of its files, has its file with the right content. The JPEG XL task commits before it
  removes anything, so a post only tasks work on is served at every single step.
* `CreatedWithContent`: a post never becomes visible without its file.
* `ConversionKeepsPicture`: a conversion changes the encoding and nothing else.
* `MergeKeepsChosenContent`: a merge ends with one post and the chosen content.
* `LastCopyKept`: the orphan cleaner removes no stale file of a post that has no other.

The other four are promised beside the cleaner as well.

`OrphanFiles` extends `PostContent` by the cleaner, a process of its own: it reads which
encoding each post has (`types`), lists files that are nobody's own, asks, reads the encodings
again, and looks at each file once more before it removes it. It relies on file ages: `young`
are the files modified within an hour (`MIN_ORPHAN_AGE`), and the one assumption on time is that
no request takes an hour from its first change of a file to its end. `exposed` names the three
ways past this second look: an upload that was old when a rename, which keeps its modification
time, moved it in; an hour that passes after the encodings were read again; a file that changes
between look and removal. In all three the model has the cleaner take a post's content, and
marks the post as torn. A parked `.swap-` file is protected by its age only. Only content files
are modelled: a thumbnail has one expected path, and a file whose name has no post ID belongs to
no post.

Two runs show what the code does not do. In `content_stale_edit` the version check, made on a
row that is not locked, lets an edit of, say, the description write old content columns back
over a committed content update. In `content_convert_crash` the conversion endpoint removes the
original before its COMMIT.

**Bounds.** Two requests, three post IDs of which two exist (a PNG and a JPEG XL), two pictures,
two encodings and one upload. Every interference is between two requests on one or two posts; a
merge needs two posts; a unique violation two posts with one content; a third ID lets a creation
run beside both. The three parts keep apart what would only multiply states: `requests` (edit,
delete, convert, task, both merges), `uploads` (everything that takes the upload, on one post),
`cleaner` (up to `MaxRequests` = 2 requests of any operation, one at a time, beside one run of
the cleaner; the proof of section 11 has no such bound).

## 4. Webhooks and connections

`WebhookFeed` is the promise: committed snapshots are announced at most once each and in
increasing order. `Webhooks` is the middleware: transactions insert snapshots and commit in any
order; `TimeOut` separates a request from its transaction; after the response the middleware
reads the counter (`ReadLast`), queries (`Query`), and goes through the batch with `Peek` and
`Claim`, the load and the compare-and-exchange of `post_snapshot`. `Abandon` drops the
middleware at one of its awaits, `Stop` and `Start` restart the server, and admin tasks insert
snapshots without a middleware and while the server is down. Delivery over HTTP is one attempt
per claimed snapshot and webhook; whether it arrives is not modelled.

* `FeedSpec`: refinement of `WebhookFeed` (same variables `stored`, `announced`).
* `NothingLeftBehind`: a request that runs to its end leaves none of its own snapshots to a
  later one; each is announced or overtaken.
* `EveryRequestEnds`: a request whose response is ready gets through the compare-and-exchange
  loop.
* `EveryEventAnnounced` is what the documentation says and the code does not do
  (`webhooks_skipped`): a snapshot that commits after a higher ID was announced is skipped.

`Connections` is how requests get at the database: a few worker threads, the two asynchronous
mutexes (`POST_TAG_MUTEX` and the `ANTI_DEADLOCK_MUTEX` of `delete`, which have the same shape),
as many permits as the pool has connections, and the pool itself, whose `get` blocks its thread.
A transaction runs on a blocking thread of its own; when its request is cancelled it goes on
(`left`, `closing`), with its permit but without the mutex.

* `GetsServed`: a thread that blocks in `pool.get()` never waits for a transaction. It is what
  the permits are for, and would fail if the closure did not take its permit along.
* `OneAtATime`: one transaction per mutex, but for those whose request was dropped.
* `Served`: whoever waits for a mutex, a permit or a connection gets it or gives up.

`get_blocking` is used before the server listens and by admin tasks, where no request competes,
and `request_reset` keeps its connection while it sends mail; both are longer holds of the same
steps. Not modelled: the pool of the administrator's process, which nobody else uses, where
`reset_statistics_impl` takes a second connection while it holds one, as the migrations at
startup do, and parallel tasks take one per item.

**Bounds** (`server`): two requests and three snapshot IDs, enough for two IDs in one
transaction and one in another to commit in either order, before or after a claim; three tasks,
one worker and two connections, so that one waits at every place, and both mutexes.

## 5. Temporary uploads

**State.** `size[t]` is the file of upload token `t` in the directory of temporary uploads, or
`Gone`. `issued` are the tokens generated (UUIDs, so never twice) and `handed` those a client
was given. `cache` is the ring cache of `app.rs`, of which only the tokens matter. A request has
a program counter, the token it works on, the token that had before transcoding (`original`),
and is in `own` while it works on a file it wrote itself. The sweep has the directory entries
still to visit (`listed`), the sizes it remembers between sweeps (`known`, the map `uploads`),
the files seen in this one (`found`, `seen_files`), and the file it is about to remove
(`doomed`). `spent` is history: tokens of clients a create has used up or the sweep removed.

**Actions.** `StartWithContent`, `WriteChunk`, `CloseFile` are `save_uploaded_file`;
`StartWithToken` is a request that names a token; `Properties`, `Compute`, `RemoveOriginal` and
`FinishSearch` are `content/cache.rs`; `Move` is `move_file`; `Fail` is anything that ends a
request early. The sweep runs file by file beside them: `StartSweep`, `Visit`, `RemoveStale`
(the removal is a step of its own, after the size was read), `EndSweep`. `Restart` loses
everything but the directory.

**Time** enters by one assumption, the guard `spanned = {}` of `StartSweep`: no request runs
during two sweeps. Sweeps are an hour apart; a request has 60 seconds
(`request_timeout_seconds`), its downloads 10 minutes and each FFmpeg call 120 seconds in the
distributed configuration. Without it the sweep does remove a stalled upload, which is what it
is for.

**Properties** (`uploads`).

* `OwnFileSurvives`: the sweep takes no file from the request that wrote it, in whatever order
  they meet. Tokens handed out are another matter: the sweep may remove those at any time.
* `KeptTokenUsable`: a token stays good through any number of searches, failed creations and
  restarts, as long as transcoding does not make its content smaller.
* `LeftoversSwept`: every file goes, sooner or later. With a restart every hour nothing is
  swept, so restarts are bounded by `MaxCrashes`.

`uploads_token` shows what the code does not do. `api/upload.rs:53` says the token "can be used
in other requests". With transcoding on, a reverse search moves the content of a token to a new
one that nobody but the server knows, and the creation the client sends next fails.

**Bounds.** Two requests and two tokens: one upload that transcoding replaces by the other, or
two that it leaves alone, with two readers of the same token. Files have two sizes (`MaxSize`),
enough to grow between two sweeps; the ring has one place, so that the second search evicts; one
restart. Deadlock is checked, and nothing stops.

## 6. Tags, categories, pools and what hangs on a post (`tags`)

`TagGraph` has rows of tags, names, implications and usages. A request is a transaction that
goes statement by statement: a DELETE finds its rows when it starts and deletes what is left of
them when it gets their locks, so it is two steps. `unchecked` are the implications `has_cycle`
has not seen; `raced[r]` the tables another transaction changed since `r` read them.

* `CheckedAcyclic`: the implications that were checked form no cycle. Merging `a` into `b` while
  `a` implies `x` and `x` implies `b` moves edges without a check and does make one, and so may
  two edits at once, each of which sees committed rows only; those edges are `unchecked`.
* `EditsComplete`: an edit leaves a tag all its implications imply, a tagged post all its tags
  imply. The tags asked for are looked up, their implications loaded turn by turn into a graph
  until it has no new tag, and missing names made tags, each in a step of its own beside the
  other requests (`FindNamed`, `LoadImplications`, `FindMissing`, `CreateMissing`).
* `MergeKeepsUsages`: no post loses the absorbed tag without getting the other.
* `TagsHavePrimaryName`: every tag keeps a primary name, by which the API addresses it, although
  a rename deletes the names before it inserts the new ones and a merge moves them.

The model follows the code where a comment says otherwise: a merge moves the names of the
absorbed tag, which the API comment calls discarded; `delete` deletes a tag with usages; two
concurrent edits of the same implications unite them.

`Categories`: the default category is the row with ID 0, so `set_default` swaps the contents of
two rows and moves the tags of both, statement by statement, while others, which have read a
category's ID by its name, go on to use that ID. `CategoryBook` is the promise: a book of
categories known by name. `CategoriesByName` says that every step of `Categories` is one of the
book or a stutter, except the commit of a request another commit has overtaken between its first
read and its own commit (which may rename or delete the wrong category, because it goes by an ID
that now has another name).

`PostLinks`: relations, places in pools, what is there once per user or tag (favorites, scores,
tags), and what is there any number of times (comments, features), for posts that are created,
edited, merged and deleted. It models no mutex, so it allows more than the code does.

* `RowsRegular`: relations are there both ways (which `set_relations` relies on), and of a post
  with itself there is none; a pool's posts are numbered 0, 1, ..., except in pools that lost a
  post or that two requests changed at once.
* `ListsKept`: a pool merge keeps both orders and appends; an edit leaves what the client could
  not see. The merge numbers new posts from the count of the old ones, so it appends only if the
  target has not lost a post (`uneven`); posts the client cannot see go to the end, in no
  particular order.
* `PostMergeKeepsLinks`: a merge of posts loses no relation, mark, comment or place in a pool.
  Comments get new rows, whose scores are lost to the cascade; scores of comments are not
  modelled.

**Bounds.** Two requests everywhere; three tag IDs, three names and `MaxReqs` = 3 requests (a
cycle of implications through a merge needs two tags, a third, and three requests); two
categories and a third that comes, one tag; three posts and two pools that share one, one user
and two remarks. Every race excepted above needs two requests on one table.

## 7. Accounts and statistics (`accounts`)

`Users`: a request is authenticated, which reads its user's rank, and then acts in one
transaction; avatars are files named after the user. `avatar[i]` is the picture user `i` last
saved, `muddled` the users whose avatar another's request, or one that failed or was overtaken,
has written.

* `FirstUserAlone`: nobody registers a rank above the default and its own but the first user.
  Two first registrations at once both become administrators (`raced`), and after the last user
  is deleted the next one is administrator again.
* `RanksRespected`: nobody edits a user of a higher rank, nor gives a rank higher than its own.
  Deletion is not in it: `delete` checks the privilege and not the target's rank.
* `AvatarFollowsUser`: an avatar is where its user's name says, through renames and exchanges of
  names. `muddled` also has a case that an instance of two names does not reach and the proof
  attempt found: an overtaken request writes over the avatar of the user who took the name
  meanwhile, and a later rename carries that file off. A deletion leaves the file.

`Credentials`: a reset link carries a hash of the salt the password had when it was mailed, and
setting a password draws a new salt. `outdated` are links mailed for passwords replaced since.
An administrator's prompt is one more request, whose UPDATE goes by name.

* `RevocationHolds`: a used or outdated link sets no password; a disabled or expired token is
  good again only by a request that asks for it. A token's update writes all columns, so one
  that read the token before another's commit may enable it again (`late`).

`Statistics`: the triggers of migration 013, with the row locks they take as a transaction
commits, and the task that recomputes everything beside the server.

* `StatisticsExact`: all 27 statistics are those of the committed rows, except (`skewed`) where
  the task has overwritten a change it had not read, reset disk usage, or counted implications,
  suggestions and relations by the wrong end; where a category was deleted with `n` tags or
  pools in it (the BEFORE DELETE trigger and the deferred ones add `n` twice to the default's
  count); and a last time computed by a trigger that had to wait.
* `StatisticsReset` (`statistics_reset`, a finding): the task alone does not leave the
  statistics those of the tables.

**Bounds.** Users: two names and three IDs, three ranks, one picture, five requests, two at a
time, so that names can be exchanged, and taken again after a deletion. Credentials: two users,
two tokens, two requests, three draws. Statistics: two transactions of seven possible changes
beside the task.

## 8. Search (`accounts`)

`SearchTerms` is the parser, from text to filters and sorts, as operators on sequences of
characters (a run of letters nothing looks into is one character). `Search` is what the
statements select. Filters on relations go to two temporary tables first, one statement each;
the count and the load use these tables and filter on columns themselves, each seeing what is
committed by then. Random order is one shuffle per seed, and asking for the first page redraws
the seed. `get_neighbors` loads growing batches until both neighbors are in one.

* `ListsExact` (with `SearchesAnswered`): while nothing changes, a list counts the rows that are
  meant and its page has those of its places, in the order meant. What is meant is computed from
  the text directly, filter by filter and row by row. A search whose filter matches a row in
  several ways is not refused.
* `NeighborsAdjacent`: while nothing changes, neighbors are the rows before and after.

`Misread` names the searches that mean something else to the code: `implies:` and `suggests:`
after another filter on a relation are compared with the wrong tag's ID, so such filters do not
commute; a negated pattern of tags is not lowered; negated `similar:` leaves out posts without a
hash; a bound given as a year includes the first instant of the next. Ties in the last sort
(pools by creation time, snapshots by time) leave the order, and so the pages, open. Tags on a
blacklist are patterns in a search of tags and exact names elsewhere.

**Bounds.** 31 searches (`MCSearch`), chosen so that every kind of filter, sort and resource
comes, over three or four rows, one edit by others, two clients and two shuffles. The searches
are inputs, so what the run shows is limited to these; the operators are pure.

## 9. Admin tasks, duplicates, signatures and responses (`maintenance`)

`Maintenance` has the prompt (by hand or over all posts), the chunks of rows a task loads up
front, its worker threads, signals, a kill and restarts, beside a request for the same posts. A
column holds the content it was derived from, so that a stale one can be told.

* `ColumnsCurrent`: a derived column is what a former version left there or belongs to the file
  the row names now (a hash may be of a thumbnail only if the file cannot be decoded), and the
  words by which a post is found belong to its signature, but for posts a request was at
  together with a worker, or whose old file the walk of `reset_filenames` put on or beside a
  newer one (`crossed`).
* `PassRepairs`: a pass that ends unnoticed by a signal has done what the task promises for
  every post that no request changed, whatever an earlier pass that was killed had left.

The model has what the code does and a reader may not expect: workers write by ID what they read
without a lock; an edit saves all columns of the row it read; `recompute_index` takes its row
lock in autocommit mode; a signature's version is written before the signature is recomputed;
`reset_filenames` gives thumbnails the configured extension whatever they hold, after which
`regenerate_thumbnails` keeps them; `reset_thumbnail_sizes` never restores avatar sizes (it
compares user names with file names that end in `.png`) and visits custom thumbnails twice; and
a signal between installation of the handlers and `run_task`, or at the prompt, is lost.

`Duplicates`: both searches list what they examine, look at it for a while, and merge in a
transaction; merges are single steps here, their statements are `PostContent`'s and
`PostLinks'`.

* `BestKept`: the picture of every post a task may have absorbed is still shown by the post that
  stands for it, in no worse content; after the first task it is the very same picture. Posts
  that requests worked on are spared: a merge through the API with `replaceContent` does not
  move the perceptual hash, so a later task may merge unlike pictures; and a pair whose target
  was deleted loses the absorbed post.

`Signatures` computes the signature of small images stage by stage, with the panics of unsigned
subtraction. `SignaturesSound`: grid squares stay inside the image, symbols are in order of the
differences, compression loses nothing and words lose only what clamping does, and distance is
in [0, 1] and 0 for equal signatures. `signature_crop` (a finding): an image whose intensity
changes in its first columns or rows only, such as one two pixels wide, panics.

`Resources` puts a response together in batches, one statement per field, over `Records`.
`ResponsesOwn`: every resource and field is its own, as it was at some moment of the request; a
response panics only if something it was about was deleted meanwhile. That second part is a real
exposure: an assertion fails when a row, or a category, tag or pool it names, is deleted between
two statements, also in the second transaction after a creation or an edit. Modelled are fields
that differ in how they are loaded; left out are those loaded the same way as one of them (the
other counts of posts and users), columns of the row itself, categories and user tokens.

**Bounds.** Tasks: two posts, two workers, chunks of one, two passes, one request, one signal or
kill per behaviour, every task. Duplicates: three posts that form two or three pairs or one
group, one request, two tasks, and three sizes of pictures, two of which have the same aspect
ratio within the tolerance of 2 % and not otherwise. Signatures: all black-and-white images of 1x1, 1x4, 4x2 and 5x4
and gradients of 6x7 and 9x7, with a grid of three and two levels. Responses: three rows of each
kind and two changes by others between the statements, one or two fields at a time.

## 10. Fairness and deadlock

Safety is checked without fairness. Liveness is claimed of three modules only, each under the
fairness the code's scheduling justifies.

* `Webhooks`: weak fairness of the middleware of each request. tokio polls a future that can go
  on, and blocking threads run. Nothing is assumed of clients, transactions or restarts.
* `Connections`: transactions end and returned connections come back (weak). A task at the head
  of a queue is served when it next runs (strong): tokio's semaphores and mutexes are
  first-come-first-served and a permit handed to a waiter stays its own, so only whether a
  worker is free changes; and the pool wakes its waiters. A transaction that never ends is
  excluded.
* `Uploads`: a request ends (timeouts), the interval ticks, and a sweep that has begun goes on
  (one synchronous function).

Of post content, tags and the like liveness is not claimed: a request may fail at any step, and
nothing obliges a client to retry.

`CHECK_DEADLOCK FALSE` stands in all configurations but those of `Uploads`, because there the
system really may stop: no client is obliged to send anything, every task ends, and requests are
bounded.

## 11. The proofs

Every theorem holds for any value of the constants that satisfies the named `ASSUME` of its
module (`ConstantAssumption`, `UploadAssumption`, `RankAssumption`, ...): bounds are numbers,
and "none" is not one of the things it stands for. `Credentials`, `Categories` and `TagGraph`
are also parameterised by the rows they begin with, of which the theorems assume what the tables
can hold (`Constants`, `Possible`); the MC modules assert the same of their instances, so TLC
evaluates it. `Maintenance` begins with any rows and files that agree (`StartAssumption`). Every
invariant below was checked by TLC on the runs' instances before it was proved.

| theorem | states |
|---|---|
| `PostContentProofs!TypeCorrect`, `ContentIsServed` | `[]TypeOK`, `[]ContentServed` |
| `PostContentProofs!CreationServes`, `ConversionsKeepPictures`, `MergesKeepChosenContent` | the three action properties |
| `PostContentProofs!CleanerSparesContent`, `PromisesBesideCleaner`, `CleanerKeepsLastCopy` | the same of `CleanerSpec`, and `LastCopyKept` |
| `ServerProofs!TypesCorrect`, `ImplementsFeed`, `LeavesNothingBehind` | `[]TypesOK`, the refinement `FeedSpec`, `NothingLeftBehind` |
| `ServerProofs!ConnectionsServe`, `OneTransactionPerMutex` | `[]GetsServed`, `[]OneAtATime` |
| `UploadsProofs!TypeCorrect`, `SweepSparesRequests`, `TokensKeep` | `[]` of `TypeOK`, `OwnFileSurvives`, `KeptTokenUsable` |
| `AccountsProofs!TypeCorrect`, `FirstUser`, `RanksBind`, `AvatarsFollow` | `[]TypeOK`, `FirstUserAlone`, `RanksRespected`, `[]AvatarFollowsUser` |
| `AccountsProofs!CredentialsTypeCorrect`, `RevokedStaysRevoked` | `[]CredentialsTypeOK`, `RevocationHolds` |
| `CategoriesProofs!TypeCorrect`, `ImplementsBook` | `[]TypeOK`, the refinement `CategoriesByName` |
| `TagGraphProofs!TypeCorrect`, `NoCheckedCycle`, `EditsLeaveClosed`, `MergesKeepUsages`, `TagsKeepPrimaryName` | `[]TypeOK`, `[]CheckedAcyclic`, `EditsComplete`, `MergeKeepsUsages`, `[]TagsHavePrimaryName` |
| `PostLinksProofs!LinkTypes`, `RegularRows`, `KeptLists`, `PostMergesKeep` | `[]LinkTypeOK`, `[]RowsRegular`, `ListsKept`, `PostMergeKeepsLinks` |
| `MaintenanceProofs!TasksTyped`, `ColumnsStayCurrent` | `[]MaintenanceTypeOK`, `[]ColumnsCurrent` |

**Post content.** `ContentServed` is not inductive. `Inv` adds, for each request: where it can
be given its operation (`JobKnown`), which rows it has read and which files it has changed at
each point (`Progress`), that a row is as it was read unless the request is marked stale
(`Fresh`), what a creation keeps to itself (`Pending`), what it may have written (`Written`,
`Deleted`), and what the files of the post hold half way through an update, a conversion and a
swap (`ReplacesContent`, `Converts`, `Swaps`); and between requests, that no two are changing
the files of a post that is not torn (`Exclusive`) and that posts in use have been issued
(`Issued`). The lemma `Preserves` says what a step of one request must respect for the others'
parts to stay true; each action then has one lemma.

More invariants carry the other theorems. `Locked`: a row one transaction has written is written
by nobody else, and a row it means to update stays there until it commits; `CreationServes`
follows, because then only a creation can make a row appear. `Overtaken`: a request which has
changed the files of a post, and whose row was replaced since it read it, has been counted as
torn or has lost its post; that the JPEG XL task keeps its posts served follows, because a task
that is not torn still holds the row it read, whose file it removes only once the row names the
new one. `Decoded`: a conversion holds the picture of the row it read, unless it decoded the
file of a replacement that has not committed yet, whose commit will make it stale; `Midway`:
what is where the original was during an update and a swap, which says what such a conversion
can have decoded; `ConversionsKeepPictures` follows. `Marked`: a merge writes the row it keeps
and then deletes the other before it touches a file, so it holds both locks;
`MergesKeepChosenContent` follows. All of it is `Kept`.

**The orphan cleaner.** Its specification is `CleanerSpec`: the requests of `PostContent`, the
task, and the hour that passes. `Kept` is not enough for it, as a removal must be shown to hit
neither a post's own file nor one that a request has put in place and not yet named. So `Tidy`
adds what the second look is worth. `Guarded`: the file a request has in place (`InPlace`) is
young, or not there. `Known`: of the posts the cleaner is about to judge, it knows the row, or
the row has come since and its file is young. `Looked`: what it has looked at is not young, and
is still an orphan. Each holds for posts that are neither torn nor exposed, and each step has to
give a reason: what a step of the server makes visible it had in place before (`RowPlaced`), a
file that appears has been moved or encoded and so is young (`FilesArrive`, `StaysSafe`), and
when an hour passes nobody has anything in place. `OrphanSpared` puts them together, and with it
a removal keeps `Kept`. Then `CleanerSparesContent` and `PromisesBesideCleaner` say for
`CleanerSpec` what the theorems above say for `Spec`, and `CleanerKeepsLastCopy` says what the
task promises of itself. The proof found a slip in the model: the swap of a merge can move a
picture onto a leftover file with the same picture, where the content stays and the time does
not, so `Moved` follows the renames and not the contents.

**Webhooks.** The invariant says that IDs of open transactions have been drawn and not committed
(`Sequenced`), that the counter is at least every announced ID and that an ID it has reached is
committed (`Posted`), and that everything a request owes is in its batch, announced, or below
the counter (`Handled`, `Origin`).

**Connections.** Two equations between counters (`PermitsHeld`, `ConnectionsHeld`): a permit
that is out is held by a task or by a transaction left behind by one, and so is a connection,
which may also be on its way back. Together they say that a thread in `pool.get()` waits at most
for connections on their way back. `Guarded`: past its mutex a task has the guard. `InQueue`:
who waits for a mutex is in its queue, so that a guard is handed to somebody who waits.

**Uploads.** Where a request stands (`Placed`), that nobody else can reach a file its request
still holds (`Private`), and the reason the sweep spares it (`MetOnce`): a request that runs
while a sweep does is marked, the next sweep waits for it, and so its file has been met at most
once, when the sweep did not know it yet. The time assumption is part of the specification. The
ring cache needs two lemmas on sequences.

**Users.** `RowsOK`: what a request has at each statement and the row it has written, that IDs
in use were drawn, and that row locks and the unique index keep names distinct among committed
and written rows. `FreshOK`: until another commits, the ranks and the count a request has read
are those of the tables; the two theorems about ranks follow. `SavingOK`: while a request saves
an avatar, the picture is at the path it last wrote, unless another has been at that user's
file; with it avatars follow through an exchange of names.

**Credentials.** `SaltsOK`: current salts are drawn, distinct, and outdate no link mailed for
them. `ReadsOK`: until another commits, what a request read holds, and the row it is about to
write grants no more than the old row or what was asked.

**Categories.** `RowsOK` (one default, distinct names, no dangling tag), `OneSwaps` (the lock of
row 0 admits one `set_default` at a time), and for each request, by statement, what it has read
(`ReadOK`), written (`WrittenOK`) and moved (`MovedOK`), and that this still agrees with the
committed rows unless it is raced (`StillOK`). Then each commit is mapped to a step of the book:
the written rows are the committed ones with the two names exchanged, and the moved tags follow.

**Tags.** The heart is the lemma `NewEdgesAcyclic`: when the implications reachable from the new
children have no cycle and do not lead back to the tag, neither does the graph after the edit.
The invariant gives it its hypotheses at commit: what the edit is to insert is closed under the
committed implications, and they are acyclic from there, as long as no other commit touched them
(`FreshOK`), because while the graph is loaded every implication of its tags is in it or comes
next (`GraphOK`); it deletes all rows it replaces (`FoundOK`) and inserts nothing else (`PutOK`,
`QuietOK`). `MergeOK` says the same of the usages a merge moves. `Known` says that rows refer to
IDs the sequence has given. A cycle is taken as a set of tags each of which implies one of the
set, so no induction over paths is needed. `NamesInv` carries the theorem about names: a tag a
request inserts has a primary name among its insertions, and names it has deleted are either of
the tag for which it has inserted a primary one (a rename), or of the tag it deletes at its
commit (a merge).

**Relations and pools.** What a request is going to write follows from the committed rows as
long as no other commit has touched the table, and `ContentsOK` says how, operation by
operation: which relations and which numbering an edit of a post or of a pool leaves
(`RelateOK`, `EditOK`, `CreateOK`), what a pool merge appends (`MergePoolsOK`), which row takes
the place of each row of an absorbed post (`MergePostsOK`). `RowsOK` holds even when another
commit did: written rows are of the tables the request has come to, have parents the request can
see, come as relations in pairs, and have keys that no other transaction has written (`Apart`)
and that are not committed. At the commit the rows that a cascade takes are named (`Touched`,
`Fallen`), so that each property speaks of three sets: inserted, deleted and fallen rows.
Numberings are the part that is hard: that posts 0, 1, ... stay 0, 1, ... through an edit and
through a merge is a bijection, proved for the positions of the new list, and `uneven` has to
have recorded every commit that can break one. Only then do `ListsKept` and
`PostMergeKeepsLinks` speak of committed rows alone.

**Admin tasks.** `ColumnsCurrent` speaks of rows at rest; workers write what they got from a
file without a lock, so the invariant says for each post not in `crossed` what holds in between
(`DataOK`). Row, signature and files agree (`Agree`), except while a replacement has changed the
files and not committed, when the row still is what the request read and the new file and its
thumbnail are in place (`HeldOK`). The row a task loaded up front names the MIME type of the row
now; or the post has been replaced since, and then its old file is gone and its thumbnail shows
the new one, which is why a hash taken from the thumbnail of a file that cannot be decoded is
still right (`MetaOK`). What a worker has got is of the file the row names (`GotOK`). Around it,
`Shape` says where workers can be (`Confined`) and that no post has two (`Alone`): a post is
taken out of the queue or of the rows loaded. A request and a worker are never both at such a
post (`Met`). Each statement of a task and of a request has one lemma, over lemmas on the files
a path can name (`FileOf`, `Shown`) and on what a write of one column leaves alone.

Two attempts failed for good reason. The walk of `reset_filenames` can put the old file of a
post beside the file of a replacement that is about to commit, so `Overwritten` records that as
well. And as long as a file has its old name, a hash is taken from whatever thumbnail there is,
so thumbnails at the start have to show it.

## 12. Limits

**Only model-checked.** These stay with TLC, on the instances above.

* `EveryRequestEnds`, `Served` and `LeftoversSwept` are liveness under fairness, which is out of
  the prover's reach, as ENABLED is.
* What a recursive or folded definition computes for every input needs induction over data,
  which the installed provers cannot do: the sums of `Statistics` (`StatisticsExact`), the
  parser and lists of `Search` (`ListsExact`, `NeighborsAdjacent`), `SignaturesSound`, and what
  lists become in `Resources` (`ResponsesOwn`).
* `PassRepairs` and `BestKept` are within reach in principle and not proved.
* The runs that expect a violation: each finds a counterexample to what a document or comment
  says.

**Not modelled.** Thumbnails (except in `Maintenance`), notes, descriptions, colours,
suggestions (the same statements as implications), scores of comments, and other columns set in
one statement; validation of fields, as it only decides whether a request starts; e-mail,
OpenAPI, configuration; codecs and FFmpeg, which keep a picture or fail; the JSON of snapshots;
user preferences beyond what they hide; and the client. Their reasons are in `PROJECT.json`
under `components`.

## 13. Running

    tlc -config content_merge.cfg  MCPostContent.tla
    tlc -config server.cfg         MCServer.tla
    tlc -config tags.cfg           MCTags.tla
    tlc -config accounts.cfg       MCAccounts.tla
    tlc -config uploads.cfg        Uploads.tla
    tlc -config maintenance.cfg    MCMaintenance.tla
    tlapm PostContentProofs.tla    (and the other *Proofs modules)

Each passing run takes less than five minutes; the largest, `maintenance`, has 2.3 million
distinct states. The runs that expect a violation are `content_stale_edit`,
`content_convert_crash`, `webhooks_skipped` (module `Webhooks`), `statistics_reset`,
`uploads_token` and `signature_crop`, each with its configuration of the same name.
