---------------------------- MODULE RefreshTokens ----------------------------
(***************************************************************************)
(* Staff sessions: a login issues a refresh token, every refresh spends    *)
(* the token presented and issues its successor, and a spent token that is *)
(* presented again revokes whatever its user holds (auth/service.go).      *)
(*                                                                         *)
(* Refresh reads the token without a lock and acts on that reading later,  *)
(* in a transaction that first locks the user's row.  What a transaction   *)
(* wrote is seen by others when it commits; until then the rows it changed *)
(* are locked.  A login and a logout are one statement each.               *)
(*                                                                         *)
(* A token stands for its plaintext, its hash and its row.  Whoever knows  *)
(* a token may present it at any time, several times at once.  A refusal   *)
(* that comes before anything is written (wrong password, inactive user,   *)
(* expired token, archived tenant) changes nothing and has no action.      *)
(***************************************************************************)
EXTENDS Tables

CONSTANTS Users, Tokens, Calls

VARIABLES
    token,    \* refresh_token
    call,     \* the refreshes in flight
    detected  \* the tokens whose reuse a transaction found and committed

vars == <<token, call, detected>>

\* chain is the token the login issued, which no column stores: it ties the
\* successors of one login together for the properties.
TokenRow == [user: Users, used: BOOLEAN, revoked: BOOLEAN, chain: Tokens]

\* used is used_at as read before the lock; targets are the rows the
\* revocation changed, uncommitted.
CallRow ==
    [pc: {"read", "locked", "marked", "reuse"}, token: Tokens, used: BOOLEAN]
    \cup
    [pc: {"revoking"}, token: Tokens, used: BOOLEAN, targets: SUBSET Tokens]

InTransaction == {c \in DOMAIN call : call[c].pc # "read"}

UserOf(c) == token[call[c].token].user

TypeOK ==
    /\ IsTable(token, Tokens, TokenRow)
    /\ IsTable(call, Calls, CallRow)
    /\ \A c \in DOMAIN call : call[c].token \in DOMAIN token
    /\ \A c, d \in InTransaction : UserOf(c) = UserOf(d) => c = d
    /\ detected \subseteq DOMAIN token

Init ==
    /\ token = [t \in {} |-> t]
    /\ call = [c \in {} |-> c]
    /\ detected = {}

-----------------------------------------------------------------------------

At(c, pc) == c \in DOMAIN call /\ call[c].pc = pc

\* Mutant: rotation and revocation take no lock.
NeverLocked(u) == FALSE

\* LockUser: some transaction holds the user's row FOR UPDATE.
UserLocked(u) == \E c \in InTransaction : UserOf(c) = u

\* The token's row was changed by a transaction that has not committed.
RowLocked(t) ==
    \E c \in DOMAIN call :
        \/ call[c].pc = "marked" /\ call[c].token = t
        \/ call[c].pc = "revoking" /\ t \in call[c].targets

-----------------------------------------------------------------------------
(***************************************************************************)
(* POST /auth/login                                                        *)
(***************************************************************************)

\* One INSERT.  Its foreign key check wants the user's row FOR KEY SHARE,
\* which waits for whoever holds it FOR UPDATE.
Login(u, t) ==
    /\ t \notin DOMAIN token
    /\ ~UserLocked(u)
    /\ token' = Put(token, t, [user |-> u, used |-> FALSE, revoked |-> FALSE, chain |-> t])
    /\ UNCHANGED <<call, detected>>

(***************************************************************************)
(* POST /auth/refresh                                                      *)
(***************************************************************************)

\* A revoked token is refused at once, spent or not.
Presentable(t) == t \in DOMAIN token /\ ~token[t].revoked

GetRefreshToken(c, t) ==
    /\ c \notin DOMAIN call
    /\ Presentable(t)
    /\ call' = Put(call, c, [pc |-> "read", token |-> t, used |-> token[t].used])
    /\ UNCHANGED <<token, detected>>

LockUser(c) ==
    /\ At(c, "read")
    /\ ~UserLocked(UserOf(c))
    /\ call' = [call EXCEPT ![c].pc = "locked"]
    /\ UNCHANGED <<token, detected>>

\* Mutant: the mark trusts the reading from before the lock.
UnspentAsRead(t) == TRUE

\* Mutant: the mark looks at used_at only.
UnspentThoughRevoked(t) == ~token[t].used

\* WHERE used_at IS NULL AND revoked_at IS NULL.
Unspent(t) == ~token[t].used /\ ~token[t].revoked

MarkRefreshTokenUsed(c) ==
    /\ At(c, "locked")
    /\ ~call[c].used
    /\ ~RowLocked(call[c].token)
    /\ Unspent(call[c].token)
    /\ call' = [call EXCEPT ![c].pc = "marked"]
    /\ UNCHANGED <<token, detected>>

\* The token was spent when it was read, or the mark affects no row.
FindReuse(c) ==
    /\ At(c, "locked")
    /\ call[c].used \/ (~RowLocked(call[c].token) /\ ~Unspent(call[c].token))
    /\ call' = [call EXCEPT ![c].pc = "reuse"]
    /\ UNCHANGED <<token, detected>>

\* Mutant: only the token presented is revoked.
TokenAlone(c) == {call[c].token}

\* WHERE user_id AND revoked_at IS NULL, as of the statement's snapshot.
TokensOfUser(c) ==
    {t \in DOMAIN token : token[t].user = UserOf(c) /\ ~token[t].revoked}

RevokeUserRefreshTokens(c) ==
    /\ At(c, "reuse")
    /\ call' = [call EXCEPT ![c] = [pc |-> "revoking", token |-> @.token, used |-> @.used,
                                    targets |-> TokensOfUser(c)]]
    /\ UNCHANGED <<token, detected>>

\* The UPDATE has waited for the rows that others had changed.
CommitRevocation(c) ==
    /\ At(c, "revoking")
    /\ \A d \in DOMAIN call \ {c} :
        At(d, "marked") => call[d].token \notin call[c].targets
    /\ token' = [t \in DOMAIN token |->
                    IF t \in call[c].targets THEN [token[t] EXCEPT !.revoked = TRUE]
                    ELSE token[t]]
    /\ detected' = detected \cup {call[c].token}
    /\ call' = Without(call, c)

Successor(t) ==
    [user |-> token[t].user, used |-> FALSE, revoked |-> FALSE, chain |-> token[t].chain]

\* InsertRefreshToken and the commit that makes both writes visible.
CommitRotation(c, successor) ==
    LET t == call[c].token
    IN  /\ At(c, "marked")
        /\ successor \notin DOMAIN token
        /\ token' = Put([token EXCEPT ![t].used = TRUE], successor, Successor(t))
        /\ call' = Without(call, c)
        /\ UNCHANGED detected

\* A database error, a cancelled request or a crash: the transaction rolls back.
Rollback(c) ==
    /\ c \in DOMAIN call
    /\ call' = Without(call, c)
    /\ UNCHANGED <<token, detected>>

(***************************************************************************)
(* POST /auth/logout: one UPDATE, without the user's lock.                 *)
(***************************************************************************)

Logout(t) ==
    /\ Presentable(t)
    /\ ~RowLocked(t)
    /\ token' = [token EXCEPT ![t].revoked = TRUE]
    /\ UNCHANGED <<call, detected>>

-----------------------------------------------------------------------------

RefreshStep ==
    \E c \in Calls :
        \/ \E t \in Tokens : GetRefreshToken(c, t) \/ CommitRotation(c, t)
        \/ LockUser(c)
        \/ MarkRefreshTokenUsed(c)
        \/ FindReuse(c)
        \/ RevokeUserRefreshTokens(c)
        \/ CommitRevocation(c)
        \/ Rollback(c)

SessionStep == \E t \in Tokens : Logout(t) \/ \E u \in Users : Login(u, t)

Next == RefreshStep \/ SessionStep

Spec == Init /\ [][Next]_vars

-----------------------------------------------------------------------------
(***************************************************************************)
(* Properties                                                              *)
(***************************************************************************)

Live(t) == ~token[t].used /\ ~token[t].revoked

LiveOf(chain) == {t \in DOMAIN token : token[t].chain = chain /\ Live(t)}

\* A login is worth one live token at any time: however many refreshes of the
\* same token run at once, one of them gets the successor (service.go:153-167).
OneLivePerChain ==
    \A t, u \in DOMAIN token :
        Live(t) /\ Live(u) /\ token[t].chain = token[u].chain => t = u

\* Once the reuse of a token was found, nothing of its chain is or comes alive
\* again, not even a successor that a rotation was inserting at that moment
\* (the race LockUser closes, service.go:133-140).  A consequence of
\* RevocationIsTotal and KeepsSessions.
ReuseEndsChain == \A t \in detected : LiveOf(token[t].chain) = {}

\* A chain that has no live token left, by logout or by revocation, is never
\* revived by a refresh that read its token before (auth.sql:27-30); KeepsSessions
\* says so of the session.
DeadChainsStayDead ==
    [][\A t \in DOMAIN token :
        LiveOf(token[t].chain) = {} => LiveOf(token[t].chain)' = {}]_vars

\* A reuse costs the user everything: right after it is found, no session of
\* that user is alive, whatever logins and rotations ran beside it.
RevocationIsTotal ==
    [][\A t \in detected' \ detected :
        \A u \in DOMAIN token' :
            token'[u].user = token'[t].user => token'[u].revoked]_vars

\* Whose each token is, and the live token of each chain that has one.
OwnerOf == [t \in DOMAIN token |-> token[t].user]
HolderOf ==
    [k \in {token[t].chain : t \in {u \in DOMAIN token : Live(u)}} |->
        CHOOSE t \in LiveOf(k) : TRUE]

Session == INSTANCE Sessions WITH owner <- OwnerOf, holder <- HolderOf

\* A refresh acts at one instant: between the read of a token and the commit of
\* its successor lie a lock and four statements, among logins, logouts, reuses
\* and other refreshes of the same token; to whoever holds tokens it exchanges
\* the one token an open session is worth, or closes all the user has, or does
\* nothing.
KeepsSessions == Session!Spec

==============================================================================
