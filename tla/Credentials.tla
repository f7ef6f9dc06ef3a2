---------------------------- MODULE Credentials ----------------------------
(***************************************************************************)
(* Passwords, the links that reset them, and the tokens that stand for     *)
(* them (api/password_reset.rs, admin/user.rs, api/user_token.rs).  A link *)
(* carries a hash of the salt the password had when it was mailed; setting *)
(* a password draws a new salt, which is what makes older links useless.   *)
(*                                                                         *)
(* Every transaction reads, then writes once and commits; what it read may *)
(* be old by then.  A hash and a salt are numbers, fresh ones when drawn.  *)
(* Who may do what is in Users; names change there too, here in one step.  *)
(***************************************************************************)
EXTENDS Accounts, Naturals

CONSTANTS
    Holders,   \* IDs of users
    Uuids,     \* UUIDs of user tokens, drawn at random
    MaxAsks,   \* bound: the requests of a behaviour
    MaxDraw    \* bound: the salts and hashes a behaviour draws

\* A token expires when the clock goes from 0 to 1, or never.
AccountRows == [name : Names, hash : 1..MaxDraw, salt : 1..MaxDraw]
TokenRows   == [user : Holders, enabled : BOOLEAN, until : {0, 1}]

\* What a request asks for, and what it has read; None is not asked.
Ops ==
         [user : {None}]
    \cup [user : Holders, link : 1..MaxDraw \cup {None}]
    \cup [user : Holders, name : Names]
    \cup [user : Holders, enabled : BOOLEAN, until : {0, 1}]
    \cup [user : Holders, token : Uuids, row : TokenRows,
          asked : [enabled : BOOLEAN \cup {None}, until : {0, 1, None}]]

\* None is nothing else, and bounds are numbers.
Constants ==
    /\ MaxAsks \in Nat /\ MaxDraw \in Nat
    /\ None \notin AccountRows \cup TokenRows \cup Nat

VARIABLES
    accounts,  \* committed users
    tokens,    \* committed user tokens
    clock,     \* whether the expiration time has passed
    drawn,     \* hashes and salts drawn so far
    used,      \* IDs and UUIDs that have been drawn, never to be drawn again
    came,      \* requests that have come
    mailed,    \* salts of which links were mailed
    at,        \* what each request will write
    op,        \* what it asks for and has read
    late,      \* history: another request committed since it read
    outdated   \* history: salts of passwords that have been replaced

credVars == <<accounts, tokens, clock, drawn, used, came, mailed, at, op, late, outdated>>

NoOp == [user |-> None]

CredentialsTypeOK ==
    /\ accounts \in [Holders -> AccountRows \cup {None}]
    /\ tokens \in [Uuids -> TokenRows \cup {None}]
    /\ clock \in {0, 1} /\ drawn \in 0..MaxDraw /\ used \subseteq Holders \cup Uuids /\ came \in 0..MaxAsks
    /\ mailed \subseteq 1..drawn /\ outdated \subseteq 1..drawn
    /\ at \in [Reqs -> {"idle", "password", "named password", "new token", "token"}]
    /\ op \in [Reqs -> Ops]
    /\ late \in [Reqs -> BOOLEAN]
    /\ \A i, j \in Holders : accounts[i] # None /\ accounts[j] # None /\ i # j =>
                            accounts[i].name # accounts[j].name
    /\ \A t \in Uuids : tokens[t] # None => accounts[tokens[t].user] # None

\* Users and tokens there may be: no two salts are alike, as none is drawn twice.
Possible(first, issued) ==
    /\ first \in [Holders -> AccountRows \cup {None}]
    /\ issued \in [Uuids -> TokenRows \cup {None}]
    /\ \A i, j \in Holders : first[i] # None /\ first[j] # None /\ i # j =>
                            first[i].name # first[j].name /\ first[i].salt # first[j].salt
    /\ \A t \in Uuids : issued[t] # None => first[issued[t].user] # None

CredentialsStart(first, issued) ==
    /\ accounts = first
    /\ tokens = issued
    /\ clock = 0 /\ came = 0
    /\ used = {i \in Holders : accounts[i] # None} \cup {t \in Uuids : tokens[t] # None}
    /\ drawn \in 0..MaxDraw
    /\ \A n \in 1..MaxDraw : n <= drawn <=>
          \E i \in Holders : accounts[i] # None /\ n \in {accounts[i].hash, accounts[i].salt}
    /\ mailed = {} /\ outdated = {}
    /\ at = [r \in Reqs |-> "idle"]
    /\ op = [r \in Reqs |-> NoOp]
    /\ late = [r \in Reqs |-> FALSE]

-----------------------------------------------------------------------------

Begin(r, label, asked) ==
    /\ at[r] = "idle" /\ came < MaxAsks
    /\ came' = came + 1
    /\ at' = [at EXCEPT ![r] = label]
    /\ op' = [op EXCEPT ![r] = asked]
    /\ late' = [late EXCEPT ![r] = FALSE]
    /\ UNCHANGED <<accounts, tokens, clock, drawn, used, mailed, outdated>>

\* Something is committed; a password that is replaced outdates its salt.
Committed ==
    /\ late' = [s \in Reqs |-> at[s] # "idle"]
    /\ outdated' = outdated \cup
          {accounts[i].salt : i \in {j \in Holders :
              accounts[j] # None /\ (accounts'[j] = None \/ accounts'[j].hash # accounts[j].hash)}}
    /\ UNCHANGED <<clock, mailed>>

Finish(r) ==
    /\ at' = [at EXCEPT ![r] = "idle"]
    /\ op' = [op EXCEPT ![r] = NoOp]
    /\ UNCHANGED came

GiveUp(r) ==
    /\ at[r] # "idle"
    /\ Finish(r)
    /\ UNCHANGED <<accounts, tokens, clock, drawn, used, mailed, late, outdated>>

-----------------------------------------------------------------------------
(* Passwords.                                                               *)

\* request_reset: a link with the salt goes to the user's mailbox.
RequestReset(i) ==
    /\ accounts[i] # None
    /\ mailed' = mailed \cup {accounts[i].salt}
    /\ UNCHANGED <<accounts, tokens, clock, drawn, used, came, at, op, late, outdated>>

\* reset_password: the token must be that of the user's salt.
StartReset(r, i, salt) ==
    /\ accounts[i] # None /\ accounts[i].salt = salt
    /\ Begin(r, "password", [user |-> i, link |-> salt])

\* An edit of a user that gives a password.
StartChange(r, i) ==
    /\ accounts[i] # None
    /\ Begin(r, "password", [user |-> i, link |-> None])

\* The administrator has named a user that exists, and is asked for a password.
StartAdminReset(r, i) ==
    /\ accounts[i] # None
    /\ Begin(r, "named password", [user |-> i, name |-> accounts[i].name])

\* hash_password draws a salt.
Hashed(row) == [row EXCEPT !.hash = drawn + 1, !.salt = drawn + 1]

SetPassword(r, rows) ==
    /\ drawn < MaxDraw /\ drawn' = drawn + 1
    /\ accounts' = [i \in Holders |-> IF i \in rows THEN Hashed(accounts[i]) ELSE accounts[i]]
    /\ Committed
    /\ Finish(r)
    /\ UNCHANGED <<tokens, used>>

\* UPDATE by ID; a user that is gone is no error.
Save(r) ==
    /\ at[r] = "password"
    /\ SetPassword(r, {i \in Holders : i = op[r].user /\ accounts[i] # None})

\* UPDATE by name, of whoever has it now.
SaveNamed(r) ==
    /\ at[r] = "named password"
    /\ SetPassword(r, {i \in Holders : accounts[i] # None /\ accounts[i].name = op[r].name})

-----------------------------------------------------------------------------
(* Users come, change names and go.                                         *)

Taken(n) == \E i \in Holders : accounts[i] # None /\ accounts[i].name = n

Register(i, n) ==
    /\ i \notin used /\ ~Taken(n) /\ drawn < MaxDraw /\ drawn' = drawn + 1
    /\ accounts' = [accounts EXCEPT ![i] = [name |-> n, hash |-> drawn + 1, salt |-> drawn + 1]]
    /\ used' = used \cup {i}
    /\ Committed
    /\ UNCHANGED <<tokens, came, at, op>>

Rename(i, n) ==
    /\ accounts[i] # None /\ ~Taken(n)
    /\ accounts' = [accounts EXCEPT ![i].name = n]
    /\ Committed
    /\ UNCHANGED <<tokens, drawn, used, came, at, op>>

DeleteUser(i) ==
    /\ accounts[i] # None
    /\ accounts' = [accounts EXCEPT ![i] = None]
    /\ tokens' = [t \in Uuids |->
          IF tokens[t] # None /\ tokens[t].user = i THEN None ELSE tokens[t]]
    /\ Committed
    /\ UNCHANGED <<drawn, used, came, at, op>>

-----------------------------------------------------------------------------
(* User tokens.                                                             *)

Revoked(row) == ~row.enabled \/ row.until < clock

StartToken(r, i, enabled, until) ==
    /\ accounts[i] # None
    /\ Begin(r, "new token", [user |-> i, enabled |-> enabled, until |-> until])

\* create deletes what is expired or disabled, and inserts a row under a new UUID.
CreateToken(r, t) ==
    LET i == op[r].user IN
    /\ at[r] = "new token" /\ t \notin used
    /\ accounts[i] # None
    /\ tokens' = [u \in Uuids |->
          IF u = t THEN [user |-> i, enabled |-> op[r].enabled, until |-> op[r].until]
          ELSE IF tokens[u] # None /\ tokens[u].user = i /\ Revoked(tokens[u]) THEN None
          ELSE tokens[u]]
    /\ used' = used \cup {t}
    /\ UNCHANGED <<accounts, drawn>>
    /\ Committed
    /\ Finish(r)

\* Mutant: what is not asked is set to its default.
StartUpdateDefaults(r, t, enabled, until) ==
    /\ tokens[t] # None
    /\ Begin(r, "token",
             [user |-> tokens[t].user, token |-> t,
              asked |-> [enabled |-> enabled, until |-> until],
              row |-> [tokens[t] EXCEPT !.enabled = enabled # FALSE,
                                        !.until = IF until = None THEN @ ELSE until]])

\* update reads the row and puts in what is asked; None is not asked.
StartUpdate(r, t, enabled, until) ==
    /\ tokens[t] # None
    /\ Begin(r, "token",
             [user |-> tokens[t].user, token |-> t,
              asked |-> [enabled |-> enabled, until |-> until],
              row |-> [tokens[t] EXCEPT !.enabled = IF enabled = None THEN @ ELSE enabled,
                                        !.until = IF until = None THEN @ ELSE until]])

\* save_changes writes all columns; it fails if the row is gone.
UpdateToken(r) ==
    /\ at[r] = "token" /\ tokens[op[r].token] # None
    /\ tokens' = [tokens EXCEPT ![op[r].token] = op[r].row]
    /\ UNCHANGED <<accounts, drawn, used>>
    /\ Committed
    /\ Finish(r)

DeleteToken(t) ==
    /\ tokens[t] # None
    /\ tokens' = [tokens EXCEPT ![t] = None]
    /\ UNCHANGED <<accounts, drawn, used, came, at, op>>
    /\ Committed

Expire ==
    /\ clock' = 1
    /\ UNCHANGED <<accounts, tokens, drawn, used, came, mailed, at, op, late, outdated>>

CredentialsNext ==
    \/ \E r \in Reqs :
          \/ \E i \in Holders :
                \/ \E salt \in mailed : StartReset(r, i, salt)
                \/ StartChange(r, i)
                \/ StartAdminReset(r, i)
                \/ \E enabled \in BOOLEAN, until \in {0, 1} : StartToken(r, i, enabled, until)
          \/ \E t \in Uuids :
                \/ CreateToken(r, t)
                \/ \E enabled \in BOOLEAN \cup {None}, until \in {0, 1, None} :
                      StartUpdate(r, t, enabled, until)
          \/ Save(r)
          \/ SaveNamed(r)
          \/ UpdateToken(r)
          \/ GiveUp(r)
    \/ \E i \in Holders :
          \/ RequestReset(i)
          \/ \E n \in Names : Register(i, n) \/ Rename(i, n)
          \/ DeleteUser(i)
    \/ \E t \in Uuids : DeleteToken(t)
    \/ Expire

CredentialsSpec(first, issued) == CredentialsStart(first, issued) /\ [][CredentialsNext]_credVars

-----------------------------------------------------------------------------
(* Properties.                                                              *)

\* A reset link is good for the password it was mailed for and no later one,
\* however that password is replaced, unless another request commits between
\* the reset's reading of the salt and its writing of a new one.
ResetOnce ==
    [][\A r \in Reqs :
          at[r] = "password" /\ at'[r] = "idle" /\ accounts' # accounts /\ ~late[r] =>
             op[r].link \notin outdated]_credVars

\* A token that is disabled or expired is good again only by a request that
\* asks for it, or by one that read the token before another request committed.
TokenStaysRevoked ==
    [][\A t \in Uuids :
          /\ tokens[t] # None /\ Revoked(tokens[t])
          /\ tokens'[t] # None /\ ~Revoked(tokens'[t])
          => \E r \in Reqs :
                /\ at[r] = "token" /\ at'[r] = "idle" /\ op[r].token = t
                /\ late[r] \/ op[r].asked.enabled = TRUE \/ op[r].asked.until = 1]_credVars

\* What was revoked stays revoked: the password a used reset link replaced, and a
\* token that was disabled or has expired.
RevocationHolds == ResetOnce /\ TokenStaysRevoked
=============================================================================
