--------------------------- MODULE MCPostContent ---------------------------
(* PostContent on one or two posts present at start and two post IDs, and,  *)
(* where Cleaner says so, with the orphan cleaner beside one request.       *)
EXTENDS OrphanFiles, Naturals, TLC

CONSTANTS p1, p2, p3, cat, dog, png, jxl, upload,
          Parts,       \* what a behaviour is about: "requests", "uploads", "cleaner"
          RequestOps,  \* operations of the first
          UploadOps,   \* operations of the second, which leave p2 alone
          CleanerOps,  \* operations beside a cleaner
          MaxRequests  \* bound: and how many of them

VARIABLES part, begun

MCPics   == {cat, dog}
MCMimes  == {png, jxl}
MCTokens == {upload}

\* Post p1 is a PNG, p2 is JPEG XL already.
MCStartRow ==
    [p \in Existing |-> IF p = p1 THEN [pic |-> cat, mime |-> png]
                                  ELSE [pic |-> dog, mime |-> jxl]]

\* The upload is neither; two requests using it collide with each other.
MCTokenFile == [t \in Tokens |-> [pic |-> dog, mime |-> png]]

MCInit == part \in Parts /\ Init /\ InitOrphans /\ begun = 0

SparesP2 == \A r \in Reqs : job'[r].post # p2

\* Beside the cleaner, which is run once, a few requests come, one at a time,
\* and leave p2 alone.
Beside ==
    /\ Cardinality({r \in Reqs : pc'[r] # "idle"}) < 2
    /\ SparesP2
    /\ begun' = begun + IF pc' # pc /\ \A r \in Reqs : pc[r] = "idle" THEN 1 ELSE 0
    /\ begun' <= IF part = "cleaned" THEN begun ELSE MaxRequests

Only(ops) == \A r \in Reqs : job'[r].op \in ops \cup {"none"}

MCNext ==
    \/ part = "requests" /\ Next /\ Only(RequestOps) /\ UNCHANGED <<orphanVars, part, begun>>
    \/ /\ part = "uploads" /\ Next /\ Only(UploadOps) /\ SparesP2
       /\ UNCHANGED <<orphanVars, part, begun>>
    \/ /\ part = "cleaner" /\ Clean /\ UNCHANGED begun
       /\ part' = IF at' = "idle" THEN "cleaned" ELSE part
    \/ part \in {"cleaner", "cleaned"} /\ Serve /\ Only(CleanerOps) /\ Beside /\ UNCHANGED part

MCSpec == MCInit /\ [][MCNext]_<<vars, orphanVars, part, begun>>

ReqSymmetry == Permutations(Reqs)
=============================================================================
