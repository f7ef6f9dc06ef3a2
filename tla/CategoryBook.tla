--------------------------- MODULE CategoryBook ---------------------------
(***************************************************************************)
(* What the categories of tags or pools promise: a user knows a category   *)
(* by its name.  One is the default, every tag is in one, and a request    *)
(* changes the category it names and no other.                             *)
(***************************************************************************)
CONSTANTS Names, Tags, None

VARIABLES
    names,     \* the categories
    default,   \* the one for tags that name none
    of         \* the category of each tag, None if there is no such tag

bookVars == <<names, default, of>>

Create(n) ==
    /\ n \notin names
    /\ names' = names \cup {n}
    /\ UNCHANGED <<default, of>>

Rename(n, m) ==
    /\ n \in names /\ m \notin names
    /\ names' = (names \ {n}) \cup {m}
    /\ default' = IF default = n THEN m ELSE default
    /\ of' = [t \in Tags |-> IF of[t] = n THEN m ELSE of[t]]

\* No tag changes its category when another becomes the default.
SetDefault(n) ==
    /\ n \in names
    /\ default' = n
    /\ UNCHANGED <<names, of>>

Delete(n) ==
    /\ n \in names \ {default}
    /\ names' = names \ {n}
    /\ of' = [t \in Tags |-> IF of[t] = n THEN default ELSE of[t]]
    /\ UNCHANGED default

File(t, n) ==
    /\ n \in names
    /\ of' = [of EXCEPT ![t] = n]
    /\ UNCHANGED <<names, default>>

Next ==
    \/ \E n \in Names : Create(n) \/ SetDefault(n) \/ Delete(n)
    \/ \E n, m \in Names : Rename(n, m)
    \/ \E t \in Tags, n \in Names : File(t, n)
=============================================================================
