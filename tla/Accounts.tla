------------------------------ MODULE Accounts ------------------------------
(* What Users and Credentials speak of: requests to the server, and the     *)
(* names of users.  The two share no state; a proof or a run has both.      *)
CONSTANTS
    Reqs,      \* concurrent requests, or an administrator's prompt
    Names,     \* user names, in lower case
    None       \* no row, no user, no name, no picture, no rank
=============================================================================
