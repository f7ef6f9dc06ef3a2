--------------------------- MODULE UploadsProofs ---------------------------
(* Theorems about Uploads, for any number of tokens and requests.          *)
EXTENDS Uploads, SequenceTheorems, TLAPS

-----------------------------------------------------------------------------
(* The inductive invariant.                                                *)

\* What the place of a request says of its files.
Placed ==
    \A r \in Reqs : /\ pc[r] = "stream" => r \in own
                    /\ pc[r] = "idle" => r \notin own /\ token[r] = None
                    /\ pc[r] = "unlink" => original[r] \in Shrinking
                    /\ pc[r] # "unlink" => original[r] = None

\* Nobody else can reach a file its request still holds: it is not given to a client,
\* not the file of another request, and the sweep is not about to remove it.
Private ==
    \A r \in own : /\ token[r] \notin handed \cup {None, doomed}
                   /\ \A q \in Reqs : /\ original[q] # token[r]
                                      /\ q # r => token[q] # token[r]

\* Requests that run while a sweep does are marked, and a file its request still holds
\* has been met by at most the one sweep that marked the request.
MetOnce ==
    /\ sweeping => \A r \in Reqs : pc[r] # "idle" => r \in spanned
    /\ \A t \in Tokens : known[t] # Gone => t \in issued
    /\ \A r \in own : known[token[r]] # Gone =>
                          r \in spanned /\ (sweeping => token[r] \notin listed)

Inv ==
    /\ TypeOK /\ Placed /\ Private /\ MetOnce
    /\ OwnFileSurvives /\ KeptTokenUsable

-----------------------------------------------------------------------------
(* Lemmas about the operators.                                              *)

LEMMA GoneIsSize == Gone \in Gone..MaxSize /\ \A n \in 0..MaxSize : n \in Gone..MaxSize /\ n # Gone
BY UploadAssumption DEF Gone

\* RingCache::insert keeps the ring within its size.
LEMMA CacheInsertOK ==
    ASSUME NEW t \in issued, CacheOK, CacheInsert(t), UNCHANGED issued
    PROVE  CacheOK'
<1> DEFINE longer == Append(cache, t)
<1>1. longer \in Seq(issued) /\ longer # <<>> /\ Len(longer) = Len(cache) + 1
  BY AppendProperties DEF CacheOK
<1>2. Tail(longer) \in Seq(issued) /\ Len(Tail(longer)) = Len(longer) - 1
  BY <1>1, HeadTailProperties
<1>3. Len(cache) \in Nat
  BY LenProperties DEF CacheOK
<1> QED
  BY <1>1, <1>2, <1>3, UploadAssumption DEF CacheInsert, CacheOK

\* RingCache::remove leaves a shorter ring of the same properties.
LEMMA CacheRemoveOK ==
    ASSUME NEW t, CacheOK, CacheRemove(t), UNCHANGED issued
    PROVE  CacheOK'
<1>1. PICK i \in 1..Len(cache) : cache' = RemoveAt(cache, i)
  BY DEF CacheRemove
<1>2. Len(cache) \in Nat /\ \A j \in 1..Len(cache) : cache[j] \in issued
  BY LenProperties, ElementOfSeq DEF CacheOK
<1> DEFINE front == SubSeq(cache, 1, i - 1)
           back  == SubSeq(cache, i + 1, Len(cache))
<1>3. front \in Seq(issued) /\ Len(front) = i - 1
  BY <1>2, SubSeqProperties
<1>4. back \in Seq(issued) /\ Len(back) = Len(cache) - i
  BY <1>2, SubSeqProperties
<1>5. front \o back \in Seq(issued) /\ Len(front \o back) = Len(front) + Len(back)
  BY <1>3, <1>4, ConcatProperties
<1>6. cache' = front \o back
  BY <1>1 DEF RemoveAt
<1> HIDE DEF front, back
<1>7. Len(front \o back) <= CacheSize
  BY <1>2, <1>3, <1>4, <1>5, UploadAssumption DEF CacheOK
<1> QED
  BY <1>5, <1>6, <1>7 DEF CacheOK

-----------------------------------------------------------------------------
(* Every step preserves the invariant.                                      *)

LEMMA InitInv ==
    ASSUME Init
    PROVE  Inv
<1>1. TypeOK
  <2>1. FilesOK
    BY UploadAssumption, GoneIsSize DEF Init, FilesOK
  <2>4. SweepOK
    BY GoneIsSize DEF Init, SweepOK
  <2>3. RequestsOK
    BY DEF Init, RequestsOK
  <2>2. CacheOK
    BY UploadAssumption, EmptySeq DEF Init, CacheOK
  <2> QED
    BY <2>1, <2>2, <2>3, <2>4 DEF TypeOK
<1>2. Placed /\ Private /\ MetOnce /\ OwnFileSurvives /\ KeptTokenUsable
  BY UploadAssumption DEF Init, Placed, Private, MetOnce, OwnFileSurvives, KeptTokenUsable
<1> QED
  BY <1>1, <1>2 DEF Inv

LEMMA StartWithTokenInv ==
    ASSUME Inv, NEW r \in Reqs, NEW what \in Jobs, NEW t \in Tokens, StartWithToken(r, what, t)
    PROVE  Inv'
<1>1. TypeOK'
  <2>1. FilesOK'
    BY UploadAssumption DEF Inv, TypeOK, FilesOK, RequestsOK, SweepOK, StartWithToken, Enter,
       Goto, dirVars, reqVars, sweepVars, Gone, Jobs, Exists
  <2>2. CacheOK'
    BY UploadAssumption, SeqMonotonic DEF Inv, TypeOK, FilesOK, CacheOK, StartWithToken, Enter,
       Goto, dirVars, reqVars, sweepVars, Gone, Jobs, Exists
  <2>3. RequestsOK'
    BY UploadAssumption DEF Inv, TypeOK, FilesOK, RequestsOK, StartWithToken, Enter, Goto,
       dirVars, reqVars, sweepVars, Gone, Jobs, Exists
  <2>4. SweepOK'
    BY UploadAssumption DEF Inv, TypeOK, FilesOK, RequestsOK, SweepOK, StartWithToken, Enter,
       Goto, dirVars, reqVars, sweepVars, Gone, Jobs, Exists
  <2> QED
    BY <2>1, <2>2, <2>3, <2>4 DEF TypeOK
<1>2. Placed'
  BY UploadAssumption DEF Inv, TypeOK, FilesOK, RequestsOK, SweepOK, Placed, StartWithToken,
     Enter, Goto, dirVars, reqVars, sweepVars, Gone, Jobs, Exists
<1>3. Private'
  BY UploadAssumption DEF Inv, TypeOK, FilesOK, RequestsOK, SweepOK, Placed, Private,
     StartWithToken, Enter, Goto, dirVars, reqVars, sweepVars, Gone, Jobs, Exists
<1>4. MetOnce'
  BY UploadAssumption DEF Inv, TypeOK, FilesOK, RequestsOK, SweepOK, Placed, Private, MetOnce,
     StartWithToken, Enter, Goto, dirVars, reqVars, sweepVars, Gone, Jobs, Exists
<1>5. OwnFileSurvives'
  BY UploadAssumption DEF Inv, TypeOK, FilesOK, RequestsOK, SweepOK, Placed, Private,
     OwnFileSurvives, StartWithToken, Enter, Goto, dirVars, reqVars, sweepVars, Gone, Jobs,
     Exists
<1>6. KeptTokenUsable'
  BY UploadAssumption DEF Inv, TypeOK, FilesOK, RequestsOK, SweepOK, Placed, OwnFileSurvives,
     KeptTokenUsable, StartWithToken, Enter, Goto, dirVars, reqVars, sweepVars, Gone, Jobs,
     Exists
<1> QED
  BY <1>1, <1>2, <1>3, <1>4, <1>5, <1>6 DEF Inv

LEMMA StartWithContentInv ==
    ASSUME Inv, NEW r \in Reqs, NEW what \in Jobs, NEW t \in Tokens, StartWithContent(r, what, t)
    PROVE  Inv'
<1>1. TypeOK'
  <2>1. FilesOK'
    BY UploadAssumption DEF Inv, TypeOK, FilesOK, RequestsOK, SweepOK, StartWithContent, Enter,
       Goto, NewFile, dirVars, reqVars, sweepVars, Gone, Jobs, Exists
  <2>2. CacheOK'
    BY UploadAssumption, SeqMonotonic DEF Inv, TypeOK, FilesOK, CacheOK, StartWithContent,
       Enter, Goto, NewFile, dirVars, reqVars, sweepVars, Gone, Jobs, Exists
  <2>3. RequestsOK'
    BY UploadAssumption DEF Inv, TypeOK, FilesOK, RequestsOK, StartWithContent, Enter, Goto,
       NewFile, dirVars, reqVars, sweepVars, Gone, Jobs, Exists
  <2>4. SweepOK'
    BY UploadAssumption DEF Inv, TypeOK, FilesOK, RequestsOK, SweepOK, StartWithContent, Enter,
       Goto, NewFile, dirVars, reqVars, sweepVars, Gone, Jobs, Exists
  <2> QED
    BY <2>1, <2>2, <2>3, <2>4 DEF TypeOK
<1>2. Placed'
  BY UploadAssumption DEF Inv, TypeOK, FilesOK, RequestsOK, SweepOK, Placed, StartWithContent,
     Enter, Goto, NewFile, dirVars, reqVars, sweepVars, Gone, Jobs, Exists
<1>3. Private'
  BY UploadAssumption DEF Inv, TypeOK, FilesOK, RequestsOK, SweepOK, Placed, Private,
     StartWithContent, Enter, Goto, NewFile, dirVars, reqVars, sweepVars, Gone, Jobs, Exists
<1>4. MetOnce'
  BY UploadAssumption DEF Inv, TypeOK, FilesOK, RequestsOK, SweepOK, Placed, Private, MetOnce,
     StartWithContent, Enter, Goto, NewFile, dirVars, reqVars, sweepVars, Gone, Jobs, Exists
<1>5. OwnFileSurvives'
  BY UploadAssumption DEF Inv, TypeOK, FilesOK, RequestsOK, SweepOK, Placed, Private,
     OwnFileSurvives, StartWithContent, Enter, Goto, NewFile, dirVars, reqVars, sweepVars, Gone,
     Jobs, Exists
<1>6. KeptTokenUsable'
  BY UploadAssumption DEF Inv, TypeOK, FilesOK, RequestsOK, SweepOK, Placed, OwnFileSurvives,
     KeptTokenUsable, StartWithContent, Enter, Goto, NewFile, dirVars, reqVars, sweepVars, Gone,
     Jobs, Exists
<1> QED
  BY <1>1, <1>2, <1>3, <1>4, <1>5, <1>6 DEF Inv

LEMMA WriteChunkInv ==
    ASSUME Inv, NEW r \in Reqs, WriteChunk(r)
    PROVE  Inv'
<1>1. TypeOK'
  <2>1. FilesOK'
    BY UploadAssumption DEF Inv, TypeOK, FilesOK, RequestsOK, SweepOK, WriteChunk, dirVars,
       reqVars, sweepVars, Gone, Jobs, Exists
  <2>2. CacheOK'
    BY UploadAssumption, SeqMonotonic DEF Inv, TypeOK, FilesOK, CacheOK, WriteChunk, dirVars,
       reqVars, sweepVars, Gone, Jobs, Exists
  <2>3. RequestsOK'
    BY UploadAssumption DEF Inv, TypeOK, FilesOK, RequestsOK, WriteChunk, dirVars, reqVars,
       sweepVars, Gone, Jobs, Exists
  <2>4. SweepOK'
    BY UploadAssumption DEF Inv, TypeOK, FilesOK, RequestsOK, SweepOK, WriteChunk, dirVars,
       reqVars, sweepVars, Gone, Jobs, Exists
  <2> QED
    BY <2>1, <2>2, <2>3, <2>4 DEF TypeOK
<1>2. Placed'
  BY UploadAssumption DEF Inv, TypeOK, FilesOK, RequestsOK, SweepOK, Placed, WriteChunk,
     dirVars, reqVars, sweepVars, Gone, Jobs, Exists
<1>3. Private'
  BY UploadAssumption DEF Inv, TypeOK, FilesOK, RequestsOK, SweepOK, Placed, Private,
     WriteChunk, dirVars, reqVars, sweepVars, Gone, Jobs, Exists
<1>4. MetOnce'
  BY UploadAssumption DEF Inv, TypeOK, FilesOK, RequestsOK, SweepOK, Placed, Private, MetOnce,
     WriteChunk, dirVars, reqVars, sweepVars, Gone, Jobs, Exists
<1>5. OwnFileSurvives'
  BY UploadAssumption DEF Inv, TypeOK, FilesOK, RequestsOK, SweepOK, Placed, Private,
     OwnFileSurvives, WriteChunk, dirVars, reqVars, sweepVars, Gone, Jobs, Exists
<1>6. KeptTokenUsable'
  BY UploadAssumption DEF Inv, TypeOK, FilesOK, RequestsOK, SweepOK, Placed, OwnFileSurvives,
     KeptTokenUsable, WriteChunk, dirVars, reqVars, sweepVars, Gone, Jobs, Exists
<1> QED
  BY <1>1, <1>2, <1>3, <1>4, <1>5, <1>6 DEF Inv

LEMMA CloseFileInv ==
    ASSUME Inv, NEW r \in Reqs, CloseFile(r)
    PROVE  Inv'
<1>1. TypeOK'
  <2>1. FilesOK'
    BY UploadAssumption DEF Inv, TypeOK, FilesOK, RequestsOK, SweepOK, CloseFile, Leave, Goto,
       dirVars, reqVars, sweepVars, Gone, Jobs, Exists
  <2>2. CacheOK'
    BY UploadAssumption, SeqMonotonic DEF Inv, TypeOK, FilesOK, CacheOK, CloseFile, Leave, Goto,
       dirVars, reqVars, sweepVars, Gone, Jobs, Exists
  <2>3. RequestsOK'
    BY UploadAssumption DEF Inv, TypeOK, FilesOK, RequestsOK, CloseFile, Leave, Goto, dirVars,
       reqVars, sweepVars, Gone, Jobs, Exists
  <2>4. SweepOK'
    BY UploadAssumption DEF Inv, TypeOK, FilesOK, RequestsOK, SweepOK, CloseFile, Leave, Goto,
       dirVars, reqVars, sweepVars, Gone, Jobs, Exists
  <2> QED
    BY <2>1, <2>2, <2>3, <2>4 DEF TypeOK
<1>2. Placed'
  BY UploadAssumption DEF Inv, TypeOK, FilesOK, RequestsOK, SweepOK, Placed, CloseFile, Leave,
     Goto, dirVars, reqVars, sweepVars, Gone, Jobs, Exists
<1>3. Private'
  BY UploadAssumption DEF Inv, TypeOK, FilesOK, RequestsOK, SweepOK, Placed, Private, CloseFile,
     Leave, Goto, dirVars, reqVars, sweepVars, Gone, Jobs, Exists
<1>4. MetOnce'
  BY UploadAssumption DEF Inv, TypeOK, FilesOK, RequestsOK, SweepOK, Placed, Private, MetOnce,
     CloseFile, Leave, Goto, dirVars, reqVars, sweepVars, Gone, Jobs, Exists
<1>5. OwnFileSurvives'
  BY UploadAssumption DEF Inv, TypeOK, FilesOK, RequestsOK, SweepOK, Placed, Private,
     OwnFileSurvives, CloseFile, Leave, Goto, dirVars, reqVars, sweepVars, Gone, Jobs, Exists
<1>6. KeptTokenUsable'
  BY UploadAssumption DEF Inv, TypeOK, FilesOK, RequestsOK, SweepOK, Placed, OwnFileSurvives,
     KeptTokenUsable, CloseFile, Leave, Goto, dirVars, reqVars, sweepVars, Gone, Jobs, Exists
<1> QED
  BY <1>1, <1>2, <1>3, <1>4, <1>5, <1>6 DEF Inv

LEMMA PropertiesInv ==
    ASSUME Inv, NEW r \in Reqs, Properties(r)
    PROVE  Inv'
<1>1. TypeOK'
  <2>1. FilesOK'
    BY UploadAssumption DEF Inv, TypeOK, FilesOK, RequestsOK, SweepOK, Properties, CacheRemove,
       Goto, dirVars, reqVars, sweepVars, Gone, Jobs, Exists
  <2>2. CacheOK'
    BY CacheRemoveOK DEF Inv, TypeOK, CacheOK, Properties, dirVars
  <2>3. RequestsOK'
    BY UploadAssumption DEF Inv, TypeOK, FilesOK, RequestsOK, Properties, CacheRemove, Goto,
       dirVars, reqVars, sweepVars, Gone, Jobs, Exists
  <2>4. SweepOK'
    BY UploadAssumption DEF Inv, TypeOK, FilesOK, RequestsOK, SweepOK, Properties, CacheRemove,
       Goto, dirVars, reqVars, sweepVars, Gone, Jobs, Exists
  <2> QED
    BY <2>1, <2>2, <2>3, <2>4 DEF TypeOK
<1>2. Placed'
  BY UploadAssumption DEF Inv, TypeOK, FilesOK, RequestsOK, SweepOK, Placed, Properties,
     CacheRemove, Goto, dirVars, reqVars, sweepVars, Gone, Jobs, Exists
<1>3. Private'
  BY UploadAssumption DEF Inv, TypeOK, FilesOK, RequestsOK, SweepOK, Placed, Private,
     Properties, CacheRemove, Goto, dirVars, reqVars, sweepVars, Gone, Jobs, Exists
<1>4. MetOnce'
  BY UploadAssumption DEF Inv, TypeOK, FilesOK, RequestsOK, SweepOK, Placed, Private, MetOnce,
     Properties, CacheRemove, Goto, dirVars, reqVars, sweepVars, Gone, Jobs, Exists
<1>5. OwnFileSurvives'
  BY UploadAssumption DEF Inv, TypeOK, FilesOK, RequestsOK, SweepOK, Placed, Private,
     OwnFileSurvives, Properties, CacheRemove, Goto, dirVars, reqVars, sweepVars, Gone, Jobs,
     Exists
<1>6. KeptTokenUsable'
  BY UploadAssumption DEF Inv, TypeOK, FilesOK, RequestsOK, SweepOK, Placed, OwnFileSurvives,
     KeptTokenUsable, Properties, CacheRemove, Goto, dirVars, reqVars, sweepVars, Gone, Jobs,
     Exists
<1> QED
  BY <1>1, <1>2, <1>3, <1>4, <1>5, <1>6 DEF Inv

LEMMA ComputeInv ==
    ASSUME Inv, NEW r \in Reqs, Compute(r)
    PROVE  Inv'
<1>1. TypeOK'
  <2>1. FilesOK'
    BY UploadAssumption DEF Inv, TypeOK, FilesOK, RequestsOK, SweepOK, Compute, Computed, Goto,
       NewFile, dirVars, reqVars, sweepVars, Gone, Jobs, Exists
  <2>2. CacheOK'
    BY UploadAssumption, SeqMonotonic DEF Inv, TypeOK, FilesOK, CacheOK, Compute, Computed,
       Goto, NewFile, dirVars, reqVars, sweepVars, Gone, Jobs, Exists
  <2>3. RequestsOK'
    BY UploadAssumption DEF Inv, TypeOK, FilesOK, RequestsOK, Compute, Computed, Goto, NewFile,
       dirVars, reqVars, sweepVars, Gone, Jobs, Exists
  <2>4. SweepOK'
    BY UploadAssumption DEF Inv, TypeOK, FilesOK, RequestsOK, SweepOK, Compute, Computed, Goto,
       NewFile, dirVars, reqVars, sweepVars, Gone, Jobs, Exists
  <2> QED
    BY <2>1, <2>2, <2>3, <2>4 DEF TypeOK
<1>2. Placed'
  BY UploadAssumption DEF Inv, TypeOK, FilesOK, RequestsOK, SweepOK, Placed, Compute, Computed,
     Goto, NewFile, dirVars, reqVars, sweepVars, Gone, Jobs, Exists
<1>3. Private'
  BY UploadAssumption DEF Inv, TypeOK, FilesOK, RequestsOK, SweepOK, Placed, Private, Compute,
     Computed, Goto, NewFile, dirVars, reqVars, sweepVars, Gone, Jobs, Exists
<1>4. MetOnce'
  BY UploadAssumption DEF Inv, TypeOK, FilesOK, RequestsOK, SweepOK, Placed, Private, MetOnce,
     Compute, Computed, Goto, NewFile, dirVars, reqVars, sweepVars, Gone, Jobs, Exists
<1>5. OwnFileSurvives'
  BY UploadAssumption DEF Inv, TypeOK, FilesOK, RequestsOK, SweepOK, Placed, Private,
     OwnFileSurvives, Compute, Computed, Goto, NewFile, dirVars, reqVars, sweepVars, Gone, Jobs,
     Exists
<1>6. KeptTokenUsable'
  BY UploadAssumption DEF Inv, TypeOK, FilesOK, RequestsOK, SweepOK, Placed, OwnFileSurvives,
     KeptTokenUsable, Compute, Computed, Goto, NewFile, dirVars, reqVars, sweepVars, Gone, Jobs,
     Exists
<1> QED
  BY <1>1, <1>2, <1>3, <1>4, <1>5, <1>6 DEF Inv

LEMMA RemoveOriginalInv ==
    ASSUME Inv, NEW r \in Reqs, RemoveOriginal(r)
    PROVE  Inv'
<1>1. TypeOK'
  <2>1. FilesOK'
    BY GoneIsSize, UploadAssumption DEF Inv, TypeOK, FilesOK, RequestsOK, SweepOK,
       RemoveOriginal, Computed, UsedUp, Goto, dirVars, reqVars, sweepVars, Gone, Jobs, Exists
  <2>2. CacheOK'
    BY UploadAssumption, SeqMonotonic DEF Inv, TypeOK, FilesOK, CacheOK, RemoveOriginal,
       Computed, UsedUp, Goto, dirVars, reqVars, sweepVars, Gone, Jobs, Exists
  <2>3. RequestsOK'
    BY UploadAssumption DEF Inv, TypeOK, FilesOK, RequestsOK, RemoveOriginal, Computed, UsedUp,
       Goto, dirVars, reqVars, sweepVars, Gone, Jobs, Exists
  <2>4. SweepOK'
    BY UploadAssumption DEF Inv, TypeOK, FilesOK, RequestsOK, SweepOK, RemoveOriginal, Computed,
       UsedUp, Goto, dirVars, reqVars, sweepVars, Gone, Jobs, Exists
  <2> QED
    BY <2>1, <2>2, <2>3, <2>4 DEF TypeOK
<1>2. Placed'
  BY UploadAssumption DEF Inv, TypeOK, FilesOK, RequestsOK, SweepOK, Placed, RemoveOriginal,
     Computed, UsedUp, Goto, dirVars, reqVars, sweepVars, Gone, Jobs, Exists
<1>3. Private'
  BY UploadAssumption DEF Inv, TypeOK, FilesOK, RequestsOK, SweepOK, Placed, Private,
     RemoveOriginal, Computed, UsedUp, Goto, dirVars, reqVars, sweepVars, Gone, Jobs, Exists
<1>4. MetOnce'
  BY UploadAssumption DEF Inv, TypeOK, FilesOK, RequestsOK, SweepOK, Placed, Private, MetOnce,
     RemoveOriginal, Computed, UsedUp, Goto, dirVars, reqVars, sweepVars, Gone, Jobs, Exists
<1>5. OwnFileSurvives'
  BY UploadAssumption DEF Inv, TypeOK, FilesOK, RequestsOK, SweepOK, Placed, Private,
     OwnFileSurvives, RemoveOriginal, Computed, UsedUp, Goto, dirVars, reqVars, sweepVars, Gone,
     Jobs, Exists
<1>6. KeptTokenUsable'
  BY UploadAssumption DEF Inv, TypeOK, FilesOK, RequestsOK, SweepOK, Placed, OwnFileSurvives,
     KeptTokenUsable, RemoveOriginal, Computed, UsedUp, Goto, dirVars, reqVars, sweepVars, Gone,
     Jobs, Exists
<1> QED
  BY <1>1, <1>2, <1>3, <1>4, <1>5, <1>6 DEF Inv

LEMMA FinishSearchInv ==
    ASSUME Inv, NEW r \in Reqs, FinishSearch(r)
    PROVE  Inv'
<1>1. TypeOK'
  <2>1. FilesOK'
    BY UploadAssumption DEF Inv, TypeOK, FilesOK, RequestsOK, SweepOK, FinishSearch,
       CacheInsert, Leave, Goto, dirVars, reqVars, sweepVars, Gone, Jobs, Exists
  <2>2. CacheOK'
    BY CacheInsertOK DEF Inv, TypeOK, RequestsOK, FinishSearch, dirVars
  <2>3. RequestsOK'
    BY UploadAssumption DEF Inv, TypeOK, FilesOK, RequestsOK, FinishSearch, CacheInsert, Leave,
       Goto, dirVars, reqVars, sweepVars, Gone, Jobs, Exists
  <2>4. SweepOK'
    BY UploadAssumption DEF Inv, TypeOK, FilesOK, RequestsOK, SweepOK, FinishSearch,
       CacheInsert, Leave, Goto, dirVars, reqVars, sweepVars, Gone, Jobs, Exists
  <2> QED
    BY <2>1, <2>2, <2>3, <2>4 DEF TypeOK
<1>2. Placed'
  BY UploadAssumption DEF Inv, TypeOK, FilesOK, RequestsOK, SweepOK, Placed, FinishSearch,
     CacheInsert, Leave, Goto, dirVars, reqVars, sweepVars, Gone, Jobs, Exists
<1>3. Private'
  BY UploadAssumption DEF Inv, TypeOK, FilesOK, RequestsOK, SweepOK, Placed, Private,
     FinishSearch, CacheInsert, Leave, Goto, dirVars, reqVars, sweepVars, Gone, Jobs, Exists
<1>4. MetOnce'
  BY UploadAssumption DEF Inv, TypeOK, FilesOK, RequestsOK, SweepOK, Placed, Private, MetOnce,
     FinishSearch, CacheInsert, Leave, Goto, dirVars, reqVars, sweepVars, Gone, Jobs, Exists
<1>5. OwnFileSurvives'
  BY UploadAssumption DEF Inv, TypeOK, FilesOK, RequestsOK, SweepOK, Placed, Private,
     OwnFileSurvives, FinishSearch, CacheInsert, Leave, Goto, dirVars, reqVars, sweepVars, Gone,
     Jobs, Exists
<1>6. KeptTokenUsable'
  BY UploadAssumption DEF Inv, TypeOK, FilesOK, RequestsOK, SweepOK, Placed, OwnFileSurvives,
     KeptTokenUsable, FinishSearch, CacheInsert, Leave, Goto, dirVars, reqVars, sweepVars, Gone,
     Jobs, Exists
<1> QED
  BY <1>1, <1>2, <1>3, <1>4, <1>5, <1>6 DEF Inv

LEMMA MoveInv ==
    ASSUME Inv, NEW r \in Reqs, Move(r)
    PROVE  Inv'
<1>1. TypeOK'
  <2>1. FilesOK'
    BY UploadAssumption DEF Inv, TypeOK, FilesOK, RequestsOK, SweepOK, Move, UsedUp, Leave,
       Goto, dirVars, reqVars, sweepVars, Gone, Jobs, Exists
  <2>2. CacheOK'
    BY UploadAssumption, SeqMonotonic DEF Inv, TypeOK, FilesOK, CacheOK, Move, UsedUp, Leave,
       Goto, dirVars, reqVars, sweepVars, Gone, Jobs, Exists
  <2>3. RequestsOK'
    BY UploadAssumption DEF Inv, TypeOK, FilesOK, RequestsOK, Move, UsedUp, Leave, Goto,
       dirVars, reqVars, sweepVars, Gone, Jobs, Exists
  <2>4. SweepOK'
    BY UploadAssumption DEF Inv, TypeOK, FilesOK, RequestsOK, SweepOK, Move, UsedUp, Leave,
       Goto, dirVars, reqVars, sweepVars, Gone, Jobs, Exists
  <2> QED
    BY <2>1, <2>2, <2>3, <2>4 DEF TypeOK
<1>2. Placed'
  BY UploadAssumption DEF Inv, TypeOK, FilesOK, RequestsOK, SweepOK, Placed, Move, UsedUp,
     Leave, Goto, dirVars, reqVars, sweepVars, Gone, Jobs, Exists
<1>3. Private'
  BY UploadAssumption DEF Inv, TypeOK, FilesOK, RequestsOK, SweepOK, Placed, Private, Move,
     UsedUp, Leave, Goto, dirVars, reqVars, sweepVars, Gone, Jobs, Exists
<1>4. MetOnce'
  BY UploadAssumption DEF Inv, TypeOK, FilesOK, RequestsOK, SweepOK, Placed, Private, MetOnce,
     Move, UsedUp, Leave, Goto, dirVars, reqVars, sweepVars, Gone, Jobs, Exists
<1>5. OwnFileSurvives'
  BY UploadAssumption DEF Inv, TypeOK, FilesOK, RequestsOK, SweepOK, Placed, Private,
     OwnFileSurvives, Move, UsedUp, Leave, Goto, dirVars, reqVars, sweepVars, Gone, Jobs, Exists
<1>6. KeptTokenUsable'
  BY UploadAssumption DEF Inv, TypeOK, FilesOK, RequestsOK, SweepOK, Placed, OwnFileSurvives,
     KeptTokenUsable, Move, UsedUp, Leave, Goto, dirVars, reqVars, sweepVars, Gone, Jobs, Exists
<1> QED
  BY <1>1, <1>2, <1>3, <1>4, <1>5, <1>6 DEF Inv

LEMMA FailInv ==
    ASSUME Inv, NEW r \in Reqs, Fail(r)
    PROVE  Inv'
<1>1. TypeOK'
  <2>1. FilesOK'
    BY UploadAssumption DEF Inv, TypeOK, FilesOK, RequestsOK, SweepOK, Fail, Leave, Goto,
       dirVars, reqVars, sweepVars, Gone, Jobs, Exists
  <2>2. CacheOK'
    BY UploadAssumption, SeqMonotonic DEF Inv, TypeOK, FilesOK, CacheOK, Fail, Leave, Goto,
       dirVars, reqVars, sweepVars, Gone, Jobs, Exists
  <2>3. RequestsOK'
    BY UploadAssumption DEF Inv, TypeOK, FilesOK, RequestsOK, Fail, Leave, Goto, dirVars,
       reqVars, sweepVars, Gone, Jobs, Exists
  <2>4. SweepOK'
    BY UploadAssumption DEF Inv, TypeOK, FilesOK, RequestsOK, SweepOK, Fail, Leave, Goto,
       dirVars, reqVars, sweepVars, Gone, Jobs, Exists
  <2> QED
    BY <2>1, <2>2, <2>3, <2>4 DEF TypeOK
<1>2. Placed'
  BY UploadAssumption DEF Inv, TypeOK, FilesOK, RequestsOK, SweepOK, Placed, Fail, Leave, Goto,
     dirVars, reqVars, sweepVars, Gone, Jobs, Exists
<1>3. Private'
  BY UploadAssumption DEF Inv, TypeOK, FilesOK, RequestsOK, SweepOK, Placed, Private, Fail,
     Leave, Goto, dirVars, reqVars, sweepVars, Gone, Jobs, Exists
<1>4. MetOnce'
  BY UploadAssumption DEF Inv, TypeOK, FilesOK, RequestsOK, SweepOK, Placed, Private, MetOnce,
     Fail, Leave, Goto, dirVars, reqVars, sweepVars, Gone, Jobs, Exists
<1>5. OwnFileSurvives'
  BY UploadAssumption DEF Inv, TypeOK, FilesOK, RequestsOK, SweepOK, Placed, Private,
     OwnFileSurvives, Fail, Leave, Goto, dirVars, reqVars, sweepVars, Gone, Jobs, Exists
<1>6. KeptTokenUsable'
  BY UploadAssumption DEF Inv, TypeOK, FilesOK, RequestsOK, SweepOK, Placed, OwnFileSurvives,
     KeptTokenUsable, Fail, Leave, Goto, dirVars, reqVars, sweepVars, Gone, Jobs, Exists
<1> QED
  BY <1>1, <1>2, <1>3, <1>4, <1>5, <1>6 DEF Inv

LEMMA StartSweepInv ==
    ASSUME Inv, StartSweep
    PROVE  Inv'
<1>1. TypeOK'
  <2>1. FilesOK'
    BY UploadAssumption DEF Inv, TypeOK, FilesOK, RequestsOK, SweepOK, StartSweep, dirVars,
       reqVars, sweepVars, Gone, Jobs, Exists
  <2>2. CacheOK'
    BY UploadAssumption, SeqMonotonic DEF Inv, TypeOK, FilesOK, CacheOK, StartSweep, dirVars,
       reqVars, sweepVars, Gone, Jobs, Exists
  <2>3. RequestsOK'
    BY UploadAssumption DEF Inv, TypeOK, FilesOK, RequestsOK, StartSweep, dirVars, reqVars,
       sweepVars, Gone, Jobs, Exists
  <2>4. SweepOK'
    BY UploadAssumption DEF Inv, TypeOK, FilesOK, RequestsOK, SweepOK, StartSweep, dirVars,
       reqVars, sweepVars, Gone, Jobs, Exists
  <2> QED
    BY <2>1, <2>2, <2>3, <2>4 DEF TypeOK
<1>2. Placed'
  BY UploadAssumption DEF Inv, TypeOK, FilesOK, RequestsOK, SweepOK, Placed, StartSweep,
     dirVars, reqVars, sweepVars, Gone, Jobs, Exists
<1>3. Private'
  BY UploadAssumption DEF Inv, TypeOK, FilesOK, RequestsOK, SweepOK, Placed, Private,
     StartSweep, dirVars, reqVars, sweepVars, Gone, Jobs, Exists
<1>4. MetOnce'
  BY UploadAssumption DEF Inv, TypeOK, FilesOK, RequestsOK, SweepOK, Placed, Private, MetOnce,
     StartSweep, dirVars, reqVars, sweepVars, Gone, Jobs, Exists
<1>5. OwnFileSurvives'
  BY UploadAssumption DEF Inv, TypeOK, FilesOK, RequestsOK, SweepOK, Placed, Private,
     OwnFileSurvives, StartSweep, dirVars, reqVars, sweepVars, Gone, Jobs, Exists
<1>6. KeptTokenUsable'
  BY UploadAssumption DEF Inv, TypeOK, FilesOK, RequestsOK, SweepOK, Placed, OwnFileSurvives,
     KeptTokenUsable, StartSweep, dirVars, reqVars, sweepVars, Gone, Jobs, Exists
<1> QED
  BY <1>1, <1>2, <1>3, <1>4, <1>5, <1>6 DEF Inv

LEMMA VisitInv ==
    ASSUME Inv, NEW t \in Tokens, Visit(t)
    PROVE  Inv'
<1>1. TypeOK'
  <2>1. FilesOK'
    BY UploadAssumption DEF Inv, TypeOK, FilesOK, RequestsOK, SweepOK, Visit, dirVars, reqVars,
       sweepVars, Gone, Jobs, Exists
  <2>2. CacheOK'
    BY UploadAssumption, SeqMonotonic DEF Inv, TypeOK, FilesOK, CacheOK, Visit, dirVars,
       reqVars, sweepVars, Gone, Jobs, Exists
  <2>3. RequestsOK'
    BY UploadAssumption DEF Inv, TypeOK, FilesOK, RequestsOK, Visit, dirVars, reqVars,
       sweepVars, Gone, Jobs, Exists
  <2>4. SweepOK'
    BY UploadAssumption DEF Inv, TypeOK, FilesOK, RequestsOK, SweepOK, Visit, dirVars, reqVars,
       sweepVars, Gone, Jobs, Exists
  <2> QED
    BY <2>1, <2>2, <2>3, <2>4 DEF TypeOK
<1>2. Placed'
  BY UploadAssumption DEF Inv, TypeOK, FilesOK, RequestsOK, SweepOK, Placed, Visit, dirVars,
     reqVars, sweepVars, Gone, Jobs, Exists
<1>3. Private'
  BY UploadAssumption DEF Inv, TypeOK, FilesOK, RequestsOK, SweepOK, Placed, Private, MetOnce,
     Visit, dirVars, reqVars, sweepVars, Gone, Jobs, Exists
<1>4. MetOnce'
  BY UploadAssumption DEF Inv, TypeOK, FilesOK, RequestsOK, SweepOK, Placed, Private, MetOnce,
     Visit, dirVars, reqVars, sweepVars, Gone, Jobs, Exists
<1>5. OwnFileSurvives'
  BY UploadAssumption DEF Inv, TypeOK, FilesOK, RequestsOK, SweepOK, Placed, Private,
     OwnFileSurvives, Visit, dirVars, reqVars, sweepVars, Gone, Jobs, Exists
<1>6. KeptTokenUsable'
  BY UploadAssumption DEF Inv, TypeOK, FilesOK, RequestsOK, SweepOK, Placed, OwnFileSurvives,
     KeptTokenUsable, Visit, dirVars, reqVars, sweepVars, Gone, Jobs, Exists
<1> QED
  BY <1>1, <1>2, <1>3, <1>4, <1>5, <1>6 DEF Inv

LEMMA RemoveStaleInv ==
    ASSUME Inv, RemoveStale
    PROVE  Inv'
<1>1. TypeOK'
  <2>1. FilesOK'
    BY UploadAssumption DEF Inv, TypeOK, FilesOK, RequestsOK, SweepOK, RemoveStale, UsedUp,
       dirVars, reqVars, sweepVars, Gone, Jobs, Exists
  <2>2. CacheOK'
    BY UploadAssumption, SeqMonotonic DEF Inv, TypeOK, FilesOK, CacheOK, RemoveStale, UsedUp,
       dirVars, reqVars, sweepVars, Gone, Jobs, Exists
  <2>3. RequestsOK'
    BY UploadAssumption DEF Inv, TypeOK, FilesOK, RequestsOK, RemoveStale, UsedUp, dirVars,
       reqVars, sweepVars, Gone, Jobs, Exists
  <2>4. SweepOK'
    BY UploadAssumption DEF Inv, TypeOK, FilesOK, RequestsOK, SweepOK, RemoveStale, UsedUp,
       dirVars, reqVars, sweepVars, Gone, Jobs, Exists
  <2> QED
    BY <2>1, <2>2, <2>3, <2>4 DEF TypeOK
<1>2. Placed'
  BY UploadAssumption DEF Inv, TypeOK, FilesOK, RequestsOK, SweepOK, Placed, RemoveStale,
     UsedUp, dirVars, reqVars, sweepVars, Gone, Jobs, Exists
<1>3. Private'
  BY UploadAssumption DEF Inv, TypeOK, FilesOK, RequestsOK, SweepOK, Placed, Private,
     RemoveStale, UsedUp, dirVars, reqVars, sweepVars, Gone, Jobs, Exists
<1>4. MetOnce'
  BY UploadAssumption DEF Inv, TypeOK, FilesOK, RequestsOK, SweepOK, Placed, Private, MetOnce,
     RemoveStale, UsedUp, dirVars, reqVars, sweepVars, Gone, Jobs, Exists
<1>5. OwnFileSurvives'
  BY UploadAssumption DEF Inv, TypeOK, FilesOK, RequestsOK, SweepOK, Placed, Private,
     OwnFileSurvives, RemoveStale, UsedUp, dirVars, reqVars, sweepVars, Gone, Jobs, Exists
<1>6. KeptTokenUsable'
  BY UploadAssumption DEF Inv, TypeOK, FilesOK, RequestsOK, SweepOK, Placed, OwnFileSurvives,
     KeptTokenUsable, RemoveStale, UsedUp, dirVars, reqVars, sweepVars, Gone, Jobs, Exists
<1> QED
  BY <1>1, <1>2, <1>3, <1>4, <1>5, <1>6 DEF Inv

LEMMA EndSweepInv ==
    ASSUME Inv, EndSweep
    PROVE  Inv'
<1>1. TypeOK'
  <2>1. FilesOK'
    BY UploadAssumption DEF Inv, TypeOK, FilesOK, RequestsOK, SweepOK, EndSweep, dirVars,
       reqVars, sweepVars, Gone, Jobs, Exists
  <2>2. CacheOK'
    BY UploadAssumption, SeqMonotonic DEF Inv, TypeOK, FilesOK, CacheOK, EndSweep, dirVars,
       reqVars, sweepVars, Gone, Jobs, Exists
  <2>3. RequestsOK'
    BY UploadAssumption DEF Inv, TypeOK, FilesOK, RequestsOK, EndSweep, dirVars, reqVars,
       sweepVars, Gone, Jobs, Exists
  <2>4. SweepOK'
    BY GoneIsSize DEF Inv, TypeOK, FilesOK, RequestsOK, SweepOK, EndSweep, dirVars, reqVars,
       sweepVars, Gone, Jobs, Exists
  <2> QED
    BY <2>1, <2>2, <2>3, <2>4 DEF TypeOK
<1>2. Placed'
  BY UploadAssumption DEF Inv, TypeOK, FilesOK, RequestsOK, SweepOK, Placed, EndSweep, dirVars,
     reqVars, sweepVars, Gone, Jobs, Exists
<1>3. Private'
  BY UploadAssumption DEF Inv, TypeOK, FilesOK, RequestsOK, SweepOK, Placed, Private, EndSweep,
     dirVars, reqVars, sweepVars, Gone, Jobs, Exists
<1>4. MetOnce'
  BY UploadAssumption DEF Inv, TypeOK, FilesOK, RequestsOK, SweepOK, Placed, Private, MetOnce,
     EndSweep, dirVars, reqVars, sweepVars, Gone, Jobs, Exists
<1>5. OwnFileSurvives'
  BY UploadAssumption DEF Inv, TypeOK, FilesOK, RequestsOK, SweepOK, Placed, Private,
     OwnFileSurvives, EndSweep, dirVars, reqVars, sweepVars, Gone, Jobs, Exists
<1>6. KeptTokenUsable'
  BY UploadAssumption DEF Inv, TypeOK, FilesOK, RequestsOK, SweepOK, Placed, OwnFileSurvives,
     KeptTokenUsable, EndSweep, dirVars, reqVars, sweepVars, Gone, Jobs, Exists
<1> QED
  BY <1>1, <1>2, <1>3, <1>4, <1>5, <1>6 DEF Inv

LEMMA RestartInv ==
    ASSUME Inv, Restart
    PROVE  Inv'
<1>1. TypeOK'
  <2>1. FilesOK'
    BY UploadAssumption DEF Inv, TypeOK, FilesOK, RequestsOK, SweepOK, Restart, dirVars,
       reqVars, sweepVars, Gone, Jobs, Exists
  <2>2. CacheOK'
    BY UploadAssumption, SeqMonotonic DEF Inv, TypeOK, FilesOK, CacheOK, Restart, dirVars,
       reqVars, sweepVars, Gone, Jobs, Exists
  <2>3. RequestsOK'
    BY UploadAssumption DEF Inv, TypeOK, FilesOK, RequestsOK, Restart, dirVars, reqVars,
       sweepVars, Gone, Jobs, Exists
  <2>4. SweepOK'
    BY GoneIsSize, UploadAssumption DEF Inv, TypeOK, FilesOK, RequestsOK, SweepOK, Restart,
       dirVars, reqVars, sweepVars, Gone, Jobs, Exists
  <2> QED
    BY <2>1, <2>2, <2>3, <2>4 DEF TypeOK
<1>2. Placed'
  BY UploadAssumption DEF Inv, TypeOK, FilesOK, RequestsOK, SweepOK, Placed, Restart, dirVars,
     reqVars, sweepVars, Gone, Jobs, Exists
<1>3. Private'
  BY UploadAssumption DEF Inv, TypeOK, FilesOK, RequestsOK, SweepOK, Placed, Private, Restart,
     dirVars, reqVars, sweepVars, Gone, Jobs, Exists
<1>4. MetOnce'
  BY UploadAssumption DEF Inv, TypeOK, FilesOK, RequestsOK, SweepOK, Placed, Private, MetOnce,
     Restart, dirVars, reqVars, sweepVars, Gone, Jobs, Exists
<1>5. OwnFileSurvives'
  BY UploadAssumption DEF Inv, TypeOK, FilesOK, RequestsOK, SweepOK, Placed, Private,
     OwnFileSurvives, Restart, dirVars, reqVars, sweepVars, Gone, Jobs, Exists
<1>6. KeptTokenUsable'
  BY UploadAssumption DEF Inv, TypeOK, FilesOK, RequestsOK, SweepOK, Placed, OwnFileSurvives,
     KeptTokenUsable, Restart, dirVars, reqVars, sweepVars, Gone, Jobs, Exists
<1> QED
  BY <1>1, <1>2, <1>3, <1>4, <1>5, <1>6 DEF Inv

-----------------------------------------------------------------------------
(* The theorems.                                                            *)

\* The invariant holds in every reachable state.
THEOREM Invariance == Spec => []Inv
<1>1. Inv /\ [Next]_vars => Inv'
  <2> SUFFICES ASSUME Inv, [Next]_vars PROVE Inv'
    OBVIOUS
  <2>1. ASSUME NEW r \in Reqs, Work(r) PROVE Inv'
    BY <2>1, WriteChunkInv, CloseFileInv, PropertiesInv, ComputeInv, RemoveOriginalInv,
       FinishSearchInv, MoveInv, FailInv DEF Work
  <2>2. ASSUME NEW r \in Reqs, NEW what \in Jobs, NEW t \in Tokens,
               StartWithContent(r, what, t) \/ StartWithToken(r, what, t)
        PROVE  Inv'
    BY <2>2, StartWithContentInv, StartWithTokenInv
  <2>3. CASE StartSweep \/ Sweep
    BY <2>3, StartSweepInv, VisitInv, RemoveStaleInv, EndSweepInv DEF Sweep
  <2>4. CASE Restart
    BY <2>4, RestartInv
  <2>5. CASE UNCHANGED vars
    BY <2>5 DEF vars, dirVars, reqVars, sweepVars, Inv, TypeOK, FilesOK, CacheOK, RequestsOK,
       SweepOK, Placed, Private, MetOnce, OwnFileSurvives, KeptTokenUsable, Exists
  <2> QED
    BY <2>1, <2>2, <2>3, <2>4, <2>5 DEF Next
<1> QED
  BY InitInv, <1>1, PTL DEF Spec

\* Every variable keeps its type, and the ring cache its size (RingCache::insert).
THEOREM TypeCorrect == Spec => []TypeOK
<1>1. Inv => TypeOK
  BY DEF Inv
<1> QED
  BY <1>1, Invariance, PTL

\* No sweep removes a file that the request that wrote it still works on, because a sweep
\* spares what no earlier one has met (remove_stale_uploads).
THEOREM SweepSparesRequests == Spec => []OwnFileSurvives
<1>1. Inv => OwnFileSurvives
  BY DEF Inv
<1> QED
  BY <1>1, Invariance, PTL

\* The token of an upload that transcoding leaves alone works until it is used up or
\* swept (remove_or_compute_properties, compute_properties).
THEOREM TokensKeep == Spec => []KeptTokenUsable
<1>1. Inv => KeptTokenUsable
  BY DEF Inv
<1> QED
  BY <1>1, Invariance, PTL

=============================================================================
