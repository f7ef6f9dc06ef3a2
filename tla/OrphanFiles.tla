---------------------------- MODULE OrphanFiles ----------------------------
(***************************************************************************)
(* The administrator's task that removes content files no post uses        *)
(* (find_orphan_files in admin/database.rs), beside the requests of        *)
(* PostContent: it runs in a process of its own, and the server goes on.   *)
(* It reads which encoding each post has, lists the files that are not a   *)
(* post's own, asks which kinds to delete, reads the encodings again, and  *)
(* looks at each file once more before it removes it.                      *)
(*                                                                         *)
(* Only content files are modelled: thumbnails have one expected path      *)
(* each, and a file whose name has no post ID belongs to no post here.     *)
(*                                                                         *)
(* Time appears as one assumption: a request does not take an hour from    *)
(* its first change of a file to its end.                                  *)
(***************************************************************************)
EXTENDS PostContent

ASSUME UnsetAssumption == Unset \notin Mimes

VARIABLES
    at,        \* where the task is
    types,     \* encodings of the posts, as it has read them
    unlisted,  \* posts whose directory it has yet to list
    orphans,   \* files it has found, with the kind of each
    target,    \* the one it is looking at
    young,     \* files modified within MIN_ORPHAN_AGE, an hour
    exposed    \* history: posts the second look does not protect; torn if it fails them

cleanerVars == <<at, types, unlisted, orphans, target>>
orphanVars  == <<cleanerVars, young, exposed>>

Files == Posts \X Mimes

Exists(f) == file[f[1]][f[2]] # NoFile

MimeTypes == [p \in Posts |-> IF row[p] = NoRow THEN Unset ELSE row[p].mime]

InitOrphans ==
    /\ at = "idle"
    /\ types = Nothing
    /\ unlisted = {} /\ orphans = {} /\ target = Unset
    /\ young = {} /\ exposed = {}

-----------------------------------------------------------------------------
(* The task.                                                                *)

Stop ==
    /\ at' = "idle"
    /\ types' = Nothing
    /\ unlisted' = {} /\ orphans' = {} /\ target' = Unset

\* load_post_mime_types.  What earlier runs and requests may have exposed is safe
\* again if it is served and nobody is changing its files.
StartScan ==
    /\ at = "idle"
    /\ at' = "scan"
    /\ types' = MimeTypes
    /\ unlisted' = Posts
    /\ exposed' = {p \in exposed : ~Served(p) \/ \E r \in Reqs : p \in dirty[r]}
    /\ UNCHANGED <<orphans, target, young>>

Kind(f) == IF types[f[1]] = Unset THEN "no-post" ELSE "stale"

\* find_orphan_files_impl: every file of a directory is compared with the path its
\* post's file is expected at.  (Two posts are in two directories.)
ListDirectory(p) ==
    /\ at = "scan" /\ p \in unlisted
    /\ unlisted' = unlisted \ {p}
    /\ orphans' = orphans \cup
          {[file |-> f, kind |-> Kind(f)] :
              f \in {f \in {p} \X Mimes : Exists(f) /\ types[p] # f[2]}}
    /\ UNCHANGED <<at, types, target, young, exposed>>

\* The operator picks kinds and confirms; delete_orphans reads the encodings again.
Confirm(kinds) ==
    LET selected == {o \in orphans : o.kind \in kinds} IN
    /\ at = "scan" /\ unlisted = {}
    /\ selected # {}
    /\ at' = "delete"
    /\ orphans' = selected
    /\ types' = [p \in Posts |->
          IF \E o \in selected : o.file[1] = p THEN MimeTypes[p] ELSE Unset]
    /\ UNCHANGED <<unlisted, target, young, exposed>>

Keep(o) ==
    /\ orphans' = orphans \ {o}
    /\ target' = Unset
    /\ at' = "delete"

\* Mutant: the modification time is not looked at.
CheckExistenceOnly(o) ==
    /\ at = "delete" /\ o \in orphans
    /\ IF ~Exists(o.file)
       THEN Keep(o)
       ELSE target' = o /\ at' = "look" /\ UNCHANGED orphans
    /\ UNCHANGED <<types, unlisted, young, exposed>>

\* The files are gone through in the order of the scan; any order here.
\* reason_to_keep: the file is gone, or was modified within the last hour ...
CheckAge(o) ==
    /\ at = "delete" /\ o \in orphans
    /\ IF ~Exists(o.file) \/ o.file \in young
       THEN Keep(o)
       ELSE target' = o /\ at' = "look" /\ UNCHANGED orphans
    /\ UNCHANGED <<types, unlisted, young, exposed>>

\* Mutant: the post's own file is not looked for.
StillOrphanUnlooked(o) ==
    IF o.kind = "no-post" THEN types[o.file[1]] = Unset
                          ELSE types[o.file[1]] \notin {Unset, o.file[2]}

\* ... or its post came, went, uses it now, or has no other file.
StillOrphan(o) ==
    LET p == o.file[1] IN
    IF o.kind = "no-post"
    THEN types[p] = Unset
    ELSE types[p] \notin {Unset, o.file[2]} /\ Exists(<<p, types[p]>>)

LookAtPost ==
    /\ at = "look"
    /\ IF StillOrphan(target)
       THEN at' = "remove" /\ UNCHANGED <<orphans, target>>
       ELSE Keep(target)
    /\ UNCHANGED <<types, unlisted, young, exposed>>

RemoveOrphan ==
    LET f == target.file IN
    /\ at = "remove"
    /\ file' = [file EXCEPT ![f[1]][f[2]] = NoFile]
    /\ Keep(target)
    /\ young' = young \ {f}
    /\ torn' = torn \cup ({f[1]} \cap exposed)
    /\ UNCHANGED <<types, unlisted, exposed>>

\* The operator declines or interrupts the task, or there is nothing left to do.
Quit ==
    /\ at # "idle"
    /\ Stop
    /\ UNCHANGED <<young, exposed>>

Clean ==
    \/ RemoveOrphan /\ UNCHANGED <<dbVars, temp, reqVars, dirty, stale>>
    \/ /\ \/ StartScan
          \/ \E p \in Posts : ListDirectory(p)
          \/ \E kinds \in SUBSET {"no-post", "stale"} : Confirm(kinds)
          \/ \E o \in orphans : CheckAge(o)
          \/ LookAtPost
          \/ Quit
       /\ UNCHANGED vars

-----------------------------------------------------------------------------
(* The server beside it.                                                    *)

\* Files a step of r moves into place.  A rename keeps the modification time, which
\* for an upload may be more than an hour ago.
Moved(r) ==
    LET own == seen[r][Post(r)].mime  other == seen[r][From(r)].mime
    IN  CASE pc'[r] = "idle" -> {}
          [] pc[r] = "fill" -> {<<Post(r), Upload(r).mime>>}
          [] pc[r] = "swap2" -> {<<From(r), own>>}
          [] pc[r] = "swap3" \/ (pc[r] = "swap1" /\ own # other) -> {<<Post(r), other>>}
          [] OTHER -> {}

Encoded(r) == IF pc[r] = "encode" /\ pc'[r] = "row" THEN {<<Post(r), Jxl>>} ELSE {}

Changed(r) ==
    {p \in Posts : file'[p] # file[p] \/ \E m \in Mimes : <<p, m>> \in Moved(r) \cup Encoded(r)}

\* The second look protects no file that is already old when it comes to a new post,
\* and none that changes between the look and the removal.
ServerStep(r) ==
    /\ Step(r)
    /\ \E old \in SUBSET Moved(r) :
          /\ young' = {f \in ((young \ old) \cup (Moved(r) \ old) \cup Encoded(r)) :
                          file'[f[1]][f[2]] # NoFile}
          /\ exposed' = exposed
                \cup {f[1] : f \in old}
                \cup {p \in Changed(r) : at \in {"look", "remove"} /\ p = target.file[1]}
    /\ UNCHANGED cleanerVars

\* Files come of age while no request is in the middle of its own.  A task that has read
\* the encodings before no longer knows what came since.
HourPasses ==
    /\ young # {}
    /\ \A r \in Reqs : dirty[r] = {}
    /\ young' = {}
    /\ exposed' = exposed \cup
          IF at \in {"delete", "look", "remove"}
          THEN {p \in Posts : row[p] # NoRow /\ types[p] # row[p].mime}
          ELSE {}
    /\ UNCHANGED <<vars, cleanerVars>>

Serve ==
    \/ \E r \in Reqs : ServerStep(r)
    \/ /\ Crash \/ \E t \in Tokens : UploadFile(t) \/ ExpireUpload(t)
       /\ UNCHANGED orphanVars
    \/ HourPasses

CleanerSpec == Init /\ InitOrphans /\ [][Serve \/ Clean]_<<vars, orphanVars>>

-----------------------------------------------------------------------------
(* Properties.                                                              *)

\* "A stale file is only deleted when its post's own file exists.  Otherwise the stale
\* file may be the only copy": whatever requests did to the post and its files since the
\* task read its encoding, removing a stale file does not leave it without any.
LastCopyKept ==
    [][at = "remove" /\ at' = "delete" /\ target.kind = "stale" =>
          LET p == target.file[1] IN
          p \notin exposed => \E m \in Mimes : file'[p][m] # NoFile]_<<vars, orphanVars>>
=============================================================================
