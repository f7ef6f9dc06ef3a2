------------------------------ MODULE Uploads ------------------------------
(***************************************************************************)
(* The directory of temporary uploads (filesystem.rs, content/cache.rs).   *)
(* A request streams a file into it under a new token; later requests name *)
(* the token to search for similar posts or to create a post, which moves  *)
(* the file away.  Properties that are costly to compute are kept in a     *)
(* ring cache; computing them may transcode the file, which puts it under  *)
(* another token.  An hourly sweep removes files that have not grown since *)
(* the sweep before.                                                       *)
(*                                                                         *)
(* Time appears as one assumption: a request and its blocking work take    *)
(* less than the hour between two sweeps (request_timeout_seconds and      *)
(* ffmpeg_timeout_seconds are a minute by default), so no request runs     *)
(* during two of them.                                                     *)
(***************************************************************************)
EXTENDS Integers, SequencesExt

CONSTANTS
    Tokens,      \* tokens the server may generate
    Shrinking,   \* those whose content is smaller when transcoded
    Reqs,        \* concurrent requests
    MaxSize,     \* bound: the size files grow to
    CacheSize,   \* CONTENT_CACHE_SIZE
    MaxCrashes,  \* bound: how often the server may stop
    None         \* no token

ASSUME UploadAssumption ==
    /\ Shrinking \subseteq Tokens
    /\ MaxSize \in Nat /\ CacheSize \in Nat /\ MaxCrashes \in Nat
    /\ None \notin Tokens

VARIABLES
    size,      \* the directory: size of the file of each token, or Gone
    issued,    \* tokens generated so far
    handed,    \* tokens clients were given
    cache,     \* the ring cache: tokens of the properties in it, oldest first
    pc, job,   \* where each request is, and what it is
    token,     \* the token whose file a request works on
    original,  \* the token it had before transcoding
    own,       \* requests that wrote the file of their token themselves
    spanned,   \* requests that have been running during a sweep
    sweeping,  \* a sweep is going on
    listed,    \* directory entries the sweep has yet to visit
    known,     \* `uploads` of the sweep: size of each file it remembers
    found,     \* `seen_files` of the sweep
    doomed,    \* file the sweep has decided to remove
    crashes,
    spent      \* history: tokens of clients used up by a create, or swept

dirVars   == <<size, issued, spent>>
reqVars   == <<pc, job, token, original, own, spanned>>
sweepVars == <<sweeping, listed, known, found, doomed>>
vars      == <<dirVars, handed, cache, reqVars, sweepVars, crashes>>

Gone == -1

Jobs == {"upload", "search", "create"}

FilesOK ==
    /\ size \in [Tokens -> Gone..MaxSize]
    /\ \A t \in Tokens : size[t] # Gone => t \in issued
    /\ issued \subseteq Tokens /\ handed \subseteq issued /\ spent \subseteq handed
    /\ crashes \in 0..MaxCrashes

CacheOK == cache \in Seq(issued) /\ Len(cache) <= CacheSize

RequestsOK ==
    /\ pc \in [Reqs -> {"idle", "stream", "properties", "compute", "unlink", "computed",
                        "move"}]
    /\ job \in [Reqs -> Jobs \cup {None}]
    /\ token \in [Reqs -> issued \cup {None}]
    /\ original \in [Reqs -> issued \cup {None}]
    /\ own \subseteq Reqs /\ spanned \subseteq Reqs
    /\ \A r \in Reqs : pc[r] # "idle" => token[r] # None

SweepOK ==
    /\ sweeping \in BOOLEAN
    /\ listed \subseteq issued /\ found \subseteq issued
    /\ known \in [Tokens -> Gone..MaxSize]
    /\ doomed \in issued \cup {None}

\* Types, and the ring cache keeps to its size (RingCache::insert).
TypeOK == FilesOK /\ CacheOK /\ RequestsOK /\ SweepOK

Init ==
    /\ size = [t \in Tokens |-> Gone]
    /\ issued = {} /\ handed = {} /\ spent = {}
    /\ cache = <<>>
    /\ pc = [r \in Reqs |-> "idle"]
    /\ job = [r \in Reqs |-> None]
    /\ token = [r \in Reqs |-> None]
    /\ original = [r \in Reqs |-> None]
    /\ own = {} /\ spanned = {}
    /\ sweeping = FALSE
    /\ listed = {} /\ found = {}
    /\ known = [t \in Tokens |-> Gone]
    /\ doomed = None
    /\ crashes = 0

Goto(r, label) == pc' = [pc EXCEPT ![r] = label]

Exists(t) == size[t] # Gone

UsedUp(t) == spent \cup ({t} \cap handed)

\* A directory entry made while the sweep reads the directory may be listed or not.
NewFile(t, bytes) ==
    /\ t \notin issued
    /\ issued' = issued \cup {t}
    /\ size' = [size EXCEPT ![t] = bytes]
    /\ listed' \in IF sweeping THEN {listed, listed \cup {t}} ELSE {listed}
    /\ UNCHANGED <<sweeping, known, found, doomed>>

-----------------------------------------------------------------------------
(* Requests.                                                                *)

Enter(r, what, label) ==
    /\ pc[r] = "idle"
    /\ Goto(r, label)
    /\ job' = [job EXCEPT ![r] = what]
    /\ spanned' = IF sweeping THEN spanned \cup {r} ELSE spanned

Leave(r) ==
    /\ Goto(r, "idle")
    /\ job' = [job EXCEPT ![r] = None]
    /\ token' = [token EXCEPT ![r] = None]
    /\ original' = [original EXCEPT ![r] = None]
    /\ own' = own \ {r}
    /\ spanned' = spanned \ {r}

\* The content was uploaded before.
StartWithToken(r, what, t) ==
    /\ what # "upload" /\ t \in handed
    /\ Enter(r, what, "properties")
    /\ token' = [token EXCEPT ![r] = t]
    /\ UNCHANGED <<dirVars, handed, cache, original, own, sweepVars, crashes>>

\* The content comes with the request, as a body part or a URL.  save_uploaded_file
\* generates a token and creates its file once it has read the first bytes ...
StartWithContent(r, what, t) ==
    /\ Enter(r, what, "stream")
    /\ NewFile(t, 0)
    /\ token' = [token EXCEPT ![r] = t]
    /\ own' = own \cup {r}
    /\ UNCHANGED <<spent, handed, cache, original, crashes>>

\* ... the file grows as buffers are written out, unless it has been unlinked ...
WriteChunk(r) ==
    /\ pc[r] = "stream"
    /\ Exists(token[r]) /\ size[token[r]] < MaxSize
    /\ size' = [size EXCEPT ![token[r]] = @ + 1]
    /\ UNCHANGED <<issued, spent, handed, cache, reqVars, sweepVars, crashes>>

\* ... and the token goes to the client, or on to the handler.
CloseFile(r) ==
    /\ pc[r] = "stream"
    /\ \/ job[r] = "upload" /\ handed' = handed \cup {token[r]} /\ Leave(r)
       \/ /\ job[r] # "upload"
          /\ Goto(r, "properties")
          /\ UNCHANGED <<handed, job, token, original, own, spanned>>
    /\ UNCHANGED <<dirVars, cache, sweepVars, crashes>>

\* RingCache::remove takes the oldest properties of the token, if there are any.
CacheRemove(t) ==
    \E i \in 1..Len(cache) :
        /\ cache[i] = t /\ \A j \in 1..i-1 : cache[j] # t
        /\ cache' = RemoveAt(cache, i)

\* A create looks in the cache first.
Properties(r) ==
    /\ pc[r] = "properties"
    /\ \/ job[r] = "create" /\ CacheRemove(token[r]) /\ Goto(r, "move")
       \/ /\ job[r] = "search" \/ ~Contains(cache, token[r])
          /\ Goto(r, "compute")
          /\ UNCHANGED cache
    /\ UNCHANGED <<dirVars, handed, job, token, original, own, spanned, sweepVars, crashes>>

\* What happens to the properties: a search caches them, a create goes on.
Computed(r) == Goto(r, IF job[r] = "search" THEN "computed" ELSE "move")

\* Mutant: the result of transcoding is kept even when it is not smaller.
ComputeAlwaysTranscoding(r) ==
    /\ pc[r] = "compute"
    /\ Exists(token[r])
    /\ \E new \in Tokens :
          /\ NewFile(new, MaxSize)
          /\ token' = [token EXCEPT ![r] = new]
    /\ original' = [original EXCEPT ![r] = token[r]]
    /\ own' = own \cup {r}
    /\ Goto(r, "unlink")
    /\ UNCHANGED <<spent, handed, cache, job, spanned, crashes>>

\* compute_properties_no_cache: the file is decoded; if transcoding pays, the result
\* is written under a new token.
Compute(r) ==
    LET t == token[r]
    IN  /\ pc[r] = "compute"
        /\ Exists(t)
        /\ \/ /\ t \notin Shrinking
              /\ Computed(r)
              /\ UNCHANGED <<size, issued, token, original, own, sweepVars>>
           \/ /\ t \in Shrinking
              /\ \E new \in Tokens \ Shrinking :
                    /\ NewFile(new, MaxSize)
                    /\ token' = [token EXCEPT ![r] = new]
              /\ original' = [original EXCEPT ![r] = t]
              /\ own' = own \cup {r}
              /\ Goto(r, "unlink")
        /\ UNCHANGED <<spent, handed, cache, job, spanned, crashes>>

\* maybe_transcode removes the original; that it is gone already is not an error.
RemoveOriginal(r) ==
    /\ pc[r] = "unlink"
    /\ size' = [size EXCEPT ![original[r]] = Gone]
    /\ spent' = IF job[r] = "create" THEN UsedUp(original[r]) ELSE spent
    /\ original' = [original EXCEPT ![r] = None]
    /\ Computed(r)
    /\ UNCHANGED <<issued, handed, cache, job, token, own, spanned, sweepVars, crashes>>

\* Mutant: nothing leaves the ring when it is full.
CacheInsertUnbounded(t) == cache' = Append(cache, t)

\* RingCache::insert
CacheInsert(t) ==
    LET longer == Append(cache, t)
    IN  cache' = IF Len(longer) > CacheSize THEN Tail(longer) ELSE longer

\* The search caches what it computed, and answers from the database.
FinishSearch(r) ==
    /\ pc[r] = "computed"
    /\ CacheInsert(token[r])
    /\ Leave(r)
    /\ UNCHANGED <<dirVars, handed, sweepVars, crashes>>

\* move_file takes the file to its permanent place; it fails if the file is gone.
Move(r) ==
    /\ pc[r] = "move"
    /\ size' = [size EXCEPT ![token[r]] = Gone]
    /\ spent' = UsedUp(token[r])
    /\ Leave(r)
    /\ UNCHANGED <<issued, handed, cache, sweepVars, crashes>>

\* A request can fail, time out or be dropped anywhere; it cleans nothing up.
Fail(r) ==
    /\ pc[r] # "idle"
    /\ Leave(r)
    /\ UNCHANGED <<dirVars, handed, cache, sweepVars, crashes>>

Work(r) ==
    \/ WriteChunk(r) \/ CloseFile(r) \/ Properties(r) \/ Compute(r)
    \/ RemoveOriginal(r) \/ FinishSearch(r) \/ Move(r)
    \/ Fail(r)

-----------------------------------------------------------------------------
(* The sweep: spawn_temporary_uploads_cleanup_task, remove_stale_uploads.   *)

StartSweep ==
    /\ ~sweeping
    /\ spanned = {}
    /\ sweeping' = TRUE
    /\ listed' = {t \in Tokens : Exists(t)}
    /\ found' = {}
    /\ spanned' = {r \in Reqs : pc[r] # "idle"}
    /\ UNCHANGED <<dirVars, handed, cache, pc, job, token, original, own, known, doomed,
                   crashes>>

\* Mutant: a file is removed the first time it is seen.
VisitAtOnce(t) ==
    /\ sweeping /\ doomed = None /\ t \in listed
    /\ listed' = listed \ {t}
    /\ doomed' = IF Exists(t) THEN t ELSE None
    /\ UNCHANGED <<dirVars, handed, cache, reqVars, sweeping, known, found, crashes>>

\* Mutant: a file that has kept its size is taken to be growing.
VisitLenient(t) ==
    /\ sweeping /\ doomed = None /\ t \in listed
    /\ listed' = listed \ {t}
    /\ IF Exists(t)
       THEN known' = [known EXCEPT ![t] = size[t]] /\ found' = found \cup {t}
       ELSE UNCHANGED <<known, found>>
    /\ UNCHANGED <<dirVars, handed, cache, reqVars, sweeping, doomed, crashes>>

\* A new file, or one that has grown, is remembered; one that has not is to go.
Visit(t) ==
    /\ sweeping /\ doomed = None /\ t \in listed
    /\ listed' = listed \ {t}
    /\ \/ /\ ~Exists(t)
          /\ UNCHANGED <<known, found, doomed>>
       \/ /\ Exists(t) /\ size[t] > known[t]
          /\ known' = [known EXCEPT ![t] = size[t]]
          /\ found' = found \cup {t}
          /\ UNCHANGED doomed
       \/ /\ Exists(t) /\ size[t] <= known[t]
          /\ doomed' = t
          /\ UNCHANGED <<known, found>>
    /\ UNCHANGED <<dirVars, handed, cache, reqVars, sweeping, crashes>>

RemoveStale ==
    /\ doomed # None
    /\ size' = [size EXCEPT ![doomed] = Gone]
    /\ spent' = UsedUp(doomed)
    /\ known' = [known EXCEPT ![doomed] = Gone]
    /\ doomed' = None
    /\ UNCHANGED <<issued, handed, cache, reqVars, sweeping, listed, found, crashes>>

\* What was not found is forgotten.
EndSweep ==
    /\ sweeping /\ doomed = None /\ listed = {}
    /\ sweeping' = FALSE
    /\ known' = [t \in Tokens |-> IF t \in found THEN known[t] ELSE Gone]
    /\ found' = {}
    /\ UNCHANGED <<dirVars, handed, cache, reqVars, listed, doomed, crashes>>

Sweep == (\E t \in Tokens : Visit(t)) \/ RemoveStale \/ EndSweep

-----------------------------------------------------------------------------
\* The server stops and starts again: only the directory is left.
Restart ==
    /\ crashes < MaxCrashes
    /\ crashes' = crashes + 1
    /\ cache' = <<>>
    /\ pc' = [r \in Reqs |-> "idle"]
    /\ job' = [r \in Reqs |-> None]
    /\ token' = [r \in Reqs |-> None]
    /\ original' = [r \in Reqs |-> None]
    /\ own' = {} /\ spanned' = {}
    /\ sweeping' = FALSE
    /\ listed' = {} /\ found' = {}
    /\ known' = [t \in Tokens |-> Gone]
    /\ doomed' = None
    /\ UNCHANGED <<dirVars, handed>>

Next ==
    \/ \E r \in Reqs :
          \/ \E what \in Jobs, t \in Tokens :
                StartWithContent(r, what, t) \/ StartWithToken(r, what, t)
          \/ Work(r)
    \/ StartSweep \/ Sweep
    \/ Restart

\* Requests end (TimeoutLayer, the timeout of FFmpeg); the interval ticks; a sweep is
\* one synchronous function.
Fairness ==
    /\ \A r \in Reqs : WF_vars(Work(r))
    /\ WF_vars(StartSweep) /\ WF_vars(Sweep)

Spec == Init /\ [][Next]_vars /\ Fairness

-----------------------------------------------------------------------------
(* Properties                                                               *)

\* The sweep never takes a file away from the request that wrote it, whether it is
\* still being streamed or transcoded or waits to be moved (remove_stale_uploads spares
\* a file it has not seen before).
OwnFileSurvives == \A r \in own : Exists(token[r])

\* A token given to a client stays usable, whatever is searched for in the meantime,
\* until a create uses it up or the sweep finds it left alone, as long as its content is
\* not transcoded.
KeptTokenUsable == \A t \in handed \ (spent \cup Shrinking) : Exists(t)

\* Whatever request fails wherever, the file it leaves behind is removed some day
\* (save_uploaded_file "relies on the cleanup task"); restarts only delay it.
LeftoversSwept == \A t \in Tokens : Exists(t) ~> ~Exists(t)

-----------------------------------------------------------------------------
(* What the documentation says of the code, and the code does not do.       *)

\* "The token can be used in other requests" (api/upload.rs, docs/API.md): a token
\* nobody has used up and the sweep has not removed has its file.
TokenUsable == \A t \in handed \ spent : Exists(t)
=============================================================================
