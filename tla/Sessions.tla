------------------------------- MODULE Sessions -------------------------------
(***************************************************************************)
(* What refresh tokens are to the staff who hold them: a login is a        *)
(* session, a session that is open is worth exactly one token, a refresh   *)
(* exchanges that token for a new one, and a session that was closed stays *)
(* closed.  Each of these is one step; a refresh that finds a reuse closes *)
(* whatever its user has open.                                             *)
(***************************************************************************)
EXTENDS Tables

CONSTANTS Users, Tokens

VARIABLES
    owner,   \* whose each token is that was ever issued
    holder   \* the token each open session is worth; a session is named for its first token

Init == owner = EmptyTable /\ holder = EmptyTable

Open(u, t) ==
    /\ t \notin DOMAIN owner
    /\ owner' = Put(owner, t, u)
    /\ holder' = Put(holder, t, t)

Exchange(s, t) ==
    /\ s \in DOMAIN holder
    /\ t \notin DOMAIN owner
    /\ owner' = Put(owner, t, owner[holder[s]])
    /\ holder' = [holder EXCEPT ![s] = t]

Close(s) ==
    /\ s \in DOMAIN holder
    /\ holder' = Without(holder, s)
    /\ UNCHANGED owner

CloseAll(u) ==
    /\ holder' = Restrict(holder, {s \in DOMAIN holder : owner[holder[s]] # u})
    /\ UNCHANGED owner

Next ==
    \/ \E u \in Users : CloseAll(u) \/ \E t \in Tokens : Open(u, t)
    \/ \E s \in Tokens : Close(s) \/ \E t \in Tokens : Exchange(s, t)

Spec == Init /\ [][Next]_<<owner, holder>>

===============================================================================
