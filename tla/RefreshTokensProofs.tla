------------------------- MODULE RefreshTokensProofs -------------------------
(***************************************************************************)
(* Proofs about RefreshTokens, for any users, tokens and number of calls.  *)
(* Everything rests on one inductive invariant: what a transaction found   *)
(* under the user's lock stays true until it commits.                      *)
(***************************************************************************)
EXTENDS RefreshTokens, TLAPS

\* A chain belongs to one user and is named after a token that exists.
ChainsAreWellFormed ==
    /\ \A t \in DOMAIN token : token[t].chain \in DOMAIN token
    /\ \A t, u \in DOMAIN token :
        token[t].chain = token[u].chain => token[t].user = token[u].user

\* The token a rotation is about to spend is still live.
MarkedIsLive == \A c \in DOMAIN call : call[c].pc = "marked" => Live(call[c].token)

\* No token of the user escapes a revocation that is about to commit.
RevokingCovers ==
    \A c \in DOMAIN call : call[c].pc = "revoking" =>
        \A t \in DOMAIN token :
            token[t].user = UserOf(c) /\ ~token[t].revoked => t \in call[c].targets

IInv ==
    /\ TypeOK
    /\ ChainsAreWellFormed
    /\ MarkedIsLive
    /\ RevokingCovers
    /\ OneLivePerChain
    /\ ReuseEndsChain

LEMMA IInvInit == Init => IInv
    BY DEF Init, IInv, TypeOK, IsTable, InTransaction, ChainsAreWellFormed, MarkedIsLive,
        RevokingCovers, OneLivePerChain, ReuseEndsChain, LiveOf

-----------------------------------------------------------------------------
(***************************************************************************)
(* What the steps do to the two tables                                     *)
(***************************************************************************)

LEMMA CallRows ==
    ASSUME TypeOK, NEW c \in DOMAIN call
    PROVE  /\ c \in Calls
           /\ call[c].pc \in {"read", "locked", "marked", "reuse", "revoking"}
           /\ call[c].token \in DOMAIN token /\ call[c].token \in Tokens
           /\ call[c].used \in BOOLEAN
           /\ call[c].pc = "revoking" => call[c].targets \subseteq Tokens
    BY DEF TypeOK, IsTable, CallRow

LEMMA TokenRows ==
    ASSUME TypeOK, NEW t \in DOMAIN token
    PROVE  /\ t \in Tokens
           /\ token[t] \in TokenRow
           /\ token[t].user \in Users /\ token[t].chain \in Tokens
           /\ token[t].used \in BOOLEAN /\ token[t].revoked \in BOOLEAN
    BY DEF TypeOK, IsTable, TokenRow

\* The end of a call, with whatever outcome, leaves the other calls alone.
LEMMA EndedCall ==
    ASSUME NEW c, call' = Without(call, c)
    PROVE  /\ DOMAIN call' = DOMAIN call \ {c}
           /\ \A d \in DOMAIN call' : call'[d] = call[d]
    BY DEF Without, Restrict

\* A step of a call that stays in flight.
LEMMA MovedCall ==
    ASSUME TypeOK, NEW c \in DOMAIN call, NEW pc, call' = [call EXCEPT ![c].pc = pc]
    PROVE  /\ DOMAIN call' = DOMAIN call
           /\ \A d \in DOMAIN call : d # c => call'[d] = call[d]
           /\ call'[c] = [call[c] EXCEPT !.pc = pc]
    BY DEF TypeOK, IsTable

\* A call that moves before it revokes anything keeps what it holds.
LEMMA MovedRow ==
    ASSUME TypeOK, NEW c \in DOMAIN call, call[c].pc # "revoking",
           NEW pc \in {"locked", "marked", "reuse"},
           NEW row, row = [call[c] EXCEPT !.pc = pc]
    PROVE  row \in CallRow /\ row.pc = pc /\ row.token = call[c].token
<1>1. call[c] \in [pc: {"read", "locked", "marked", "reuse"}, token: Tokens, used: BOOLEAN]
    BY DEF TypeOK, IsTable, CallRow
<1> QED
    BY <1>1 DEF CallRow

LEMMA NewToken ==
    ASSUME NEW t, NEW row, token' = Put(token, t, row), t \notin DOMAIN token
    PROVE  /\ DOMAIN token' = DOMAIN token \cup {t}
           /\ token'[t] = row
           /\ \A u \in DOMAIN token : token'[u] = token[u]
    BY DEF Put

LEMMA RotatedTokens ==
    ASSUME TypeOK, NEW c \in Calls, NEW s \in Tokens, CommitRotation(c, s)
    PROVE  LET t == call[c].token
           IN  /\ c \in DOMAIN call /\ call[c].pc = "marked"
               /\ t \in DOMAIN token /\ s \notin DOMAIN token
               /\ DOMAIN token' = DOMAIN token \cup {s}
               /\ token'[s] = [user |-> token[t].user, used |-> FALSE, revoked |-> FALSE,
                               chain |-> token[t].chain]
               /\ token'[t] = [user |-> token[t].user, used |-> TRUE,
                               revoked |-> token[t].revoked, chain |-> token[t].chain]
               /\ \A u \in DOMAIN token : u # t => token'[u] = token[u]
<1> DEFINE t == call[c].token
<1>1. c \in DOMAIN call /\ call[c].pc = "marked" /\ s \notin DOMAIN token
    BY DEF CommitRotation, At
<1>2. t \in DOMAIN token /\ token[t] \in TokenRow
    BY <1>1, CallRows, TokenRows
<1>3. token' = Put([token EXCEPT ![t].used = TRUE], s, Successor(t))
    BY DEF CommitRotation
<1>4. /\ DOMAIN token' = DOMAIN token \cup {s}
      /\ token'[s] = Successor(t)
      /\ \A u \in DOMAIN token : token'[u] = [token EXCEPT ![t].used = TRUE][u]
    BY <1>1, <1>3 DEF Put
<1>5. token'[t] = [token[t] EXCEPT !.used = TRUE]
    BY <1>2, <1>4
<1>6. Successor(t) = [user |-> token[t].user, used |-> FALSE, revoked |-> FALSE,
                      chain |-> token[t].chain]
    BY DEF Successor
<1>7. token'[t] = [user |-> token[t].user, used |-> TRUE,
                   revoked |-> token[t].revoked, chain |-> token[t].chain]
    BY <1>2, <1>5 DEF TokenRow
<1> QED
    BY <1>1, <1>2, <1>4, <1>6, <1>7

\* A step that only revokes: a logout or the commit of a revocation.
RevokesOnly(rows) ==
    /\ DOMAIN token' = DOMAIN token
    /\ token' \in [DOMAIN token -> TokenRow]
    /\ \A t \in DOMAIN token :
        /\ token'[t].user = token[t].user
        /\ token'[t].chain = token[t].chain
        /\ token'[t].used = token[t].used
        /\ token'[t].revoked = (token[t].revoked \/ t \in rows)

LEMMA LogoutRevokes ==
    ASSUME TypeOK, NEW t \in Tokens, Logout(t)
    PROVE  RevokesOnly({t}) /\ t \in DOMAIN token /\ ~RowLocked(t)
<1>1. t \in DOMAIN token /\ token' = [token EXCEPT ![t].revoked = TRUE] /\ ~RowLocked(t)
    BY DEF Logout, Presentable
<1>2. ASSUME NEW u \in DOMAIN token
      PROVE  /\ token'[u] \in TokenRow
             /\ token'[u].user = token[u].user
             /\ token'[u].chain = token[u].chain
             /\ token'[u].used = token[u].used
             /\ token'[u].revoked = (token[u].revoked \/ u \in {t})
    <2>1. token[u] \in TokenRow
        BY TokenRows
    <2> QED
        BY <1>1, <2>1 DEF TokenRow
<1>3. DOMAIN token' = DOMAIN token /\ token' \in [DOMAIN token -> TokenRow]
    BY <1>1, <1>2
<1> QED
    BY <1>1, <1>2, <1>3 DEF RevokesOnly

LEMMA RevocationRevokes ==
    ASSUME TypeOK, NEW c \in Calls, CommitRevocation(c)
    PROVE  c \in DOMAIN call /\ call[c].pc = "revoking" /\ RevokesOnly(call[c].targets)
<1>1. ASSUME NEW t \in DOMAIN token
      PROVE  /\ token'[t] \in TokenRow
             /\ token'[t].user = token[t].user
             /\ token'[t].chain = token[t].chain
             /\ token'[t].used = token[t].used
             /\ token'[t].revoked = (token[t].revoked \/ t \in call[c].targets)
    <2>1. token[t] \in TokenRow
        BY TokenRows
    <2>2. token'[t] = IF t \in call[c].targets THEN [token[t] EXCEPT !.revoked = TRUE]
                      ELSE token[t]
        BY DEF CommitRevocation
    <2> QED
        BY <2>1, <2>2 DEF TokenRow
<1>2. DOMAIN token' = DOMAIN token /\ token' \in [DOMAIN token -> TokenRow]
    BY <1>1 DEF CommitRevocation
<1> QED
    BY <1>1, <1>2 DEF CommitRevocation, RevokesOnly, At

-----------------------------------------------------------------------------
(***************************************************************************)
(* The steps, in three kinds: those that write no token, those that only   *)
(* revoke, and the two that insert one.                                    *)
(***************************************************************************)

\* A step that keeps every token's user keeps the user of every call.
LEMMA UsersStay ==
    ASSUME TypeOK,
           \A t \in DOMAIN token : t \in DOMAIN token' /\ token'[t].user = token[t].user,
           NEW c \in DOMAIN call, c \in DOMAIN call', call'[c] = call[c]
    PROVE  UserOf(c)' = UserOf(c)
    BY CallRows DEF UserOf

LEMMA BeginKeepsIInv ==
    ASSUME IInv, NEW c \in Calls, NEW t \in Tokens, GetRefreshToken(c, t)
    PROVE  IInv'
<1> DEFINE row == [pc |-> "read", token |-> t, used |-> token[t].used]
<1>1. /\ c \notin DOMAIN call /\ t \in DOMAIN token
      /\ UNCHANGED <<token, detected>>
      /\ DOMAIN call' = DOMAIN call \cup {c}
      /\ call'[c] = row
      /\ \A d \in DOMAIN call : call'[d] = call[d]
    BY DEF GetRefreshToken, Presentable, Put
<1>2. TypeOK
    BY DEF IInv
<1>3. row \in CallRow
    BY <1>1, <1>2, TokenRows DEF CallRow
<1>4. InTransaction' = InTransaction
    BY <1>1 DEF InTransaction
<1>5. \A d \in DOMAIN call : UserOf(d)' = UserOf(d)
    BY <1>1 DEF UserOf
<1>6. TypeOK'
    <2>1. IsTable(call, Calls, CallRow)'
        BY <1>1, <1>2, <1>3 DEF TypeOK, IsTable, GetRefreshToken, Put
    <2>2. (\A d \in DOMAIN call : call[d].token \in DOMAIN token)'
        BY <1>1, <1>2 DEF TypeOK
    <2>3. (\A d, e \in InTransaction : UserOf(d) = UserOf(e) => d = e)'
        BY <1>2, <1>4, <1>5 DEF TypeOK, InTransaction
    <2> QED
        BY <1>1, <1>2, <2>1, <2>2, <2>3 DEF TypeOK, IsTable
<1>7. MarkedIsLive'
    BY <1>1 DEF IInv, MarkedIsLive, Live
<1>8. RevokingCovers'
    BY <1>1, <1>5 DEF IInv, RevokingCovers
<1>9. ChainsAreWellFormed' /\ OneLivePerChain' /\ ReuseEndsChain'
    BY <1>1 DEF IInv, ChainsAreWellFormed, OneLivePerChain, ReuseEndsChain, LiveOf, Live
<1> QED
    BY <1>6, <1>7, <1>8, <1>9 DEF IInv

\* The steps of a call that change nothing but its own row, which may not be
\* "revoking" before.
LEMMA MoveKeepsIInv ==
    ASSUME IInv, NEW c \in DOMAIN call, UNCHANGED <<token, detected>>,
           DOMAIN call' = DOMAIN call,
           \A d \in DOMAIN call : d # c => call'[d] = call[d],
           call' \in [DOMAIN call' -> CallRow],
           call'[c].token = call[c].token,
           call'[c].pc # "read" => c \in InTransaction \/ ~UserLocked(UserOf(c)),
           call'[c].pc = "marked" => Live(call[c].token),
           call'[c].pc = "revoking" => call'[c].targets = TokensOfUser(c)
    PROVE  IInv'
<1>1. TypeOK /\ c \in Calls
    BY CallRows DEF IInv
<1>2. \A d \in DOMAIN call : UserOf(d)' = UserOf(d)
    BY DEF UserOf
<1>3. TypeOK'
    <2>1. IsTable(call, Calls, CallRow)'
        BY <1>1 DEF TypeOK, IsTable
    <2>2. (\A d \in DOMAIN call : call[d].token \in DOMAIN token)'
        BY <1>1 DEF TypeOK
    <2>3. (\A d, e \in InTransaction : UserOf(d) = UserOf(e) => d = e)'
        <3>1. InTransaction' \subseteq InTransaction \cup {c}
            BY DEF InTransaction
        <3>2. c \in InTransaction' =>
                \A d \in InTransaction : d # c => UserOf(d) # UserOf(c)
            BY <1>1 DEF TypeOK, InTransaction, UserLocked
        <3> QED
            BY <1>1, <1>2, <3>1, <3>2 DEF TypeOK, InTransaction
    <2> QED
        BY <1>1, <2>1, <2>2, <2>3 DEF TypeOK, IsTable
<1>4. MarkedIsLive'
    BY DEF IInv, MarkedIsLive, Live
<1>5. RevokingCovers'
    BY <1>2 DEF IInv, RevokingCovers, TokensOfUser
<1>6. ChainsAreWellFormed' /\ OneLivePerChain' /\ ReuseEndsChain'
    BY DEF IInv, ChainsAreWellFormed, OneLivePerChain, ReuseEndsChain, LiveOf, Live
<1> QED
    BY <1>3, <1>4, <1>5, <1>6 DEF IInv

LEMMA TransactionKeepsIInv ==
    ASSUME IInv, NEW c \in Calls,
           \/ LockUser(c) \/ MarkRefreshTokenUsed(c)
           \/ FindReuse(c) \/ RevokeUserRefreshTokens(c)
    PROVE  IInv'
<1>1. TypeOK
    BY DEF IInv
<1>2. c \in DOMAIN call /\ UNCHANGED <<token, detected>>
    BY DEF LockUser, MarkRefreshTokenUsed, FindReuse, RevokeUserRefreshTokens, At
<1>3. ASSUME NEW pc \in {"locked", "marked", "reuse"},
             call[c].pc # "revoking",
             call' = [call EXCEPT ![c].pc = pc],
             c \in InTransaction \/ ~UserLocked(UserOf(c)),
             pc = "marked" => Live(call[c].token)
      PROVE  IInv'
    <2>1. /\ DOMAIN call' = DOMAIN call
          /\ \A d \in DOMAIN call : d # c => call'[d] = call[d]
          /\ call'[c] = [call[c] EXCEPT !.pc = pc]
        BY <1>1, <1>2, <1>3, MovedCall
    <2>2. call'[c] \in CallRow /\ call'[c].pc = pc /\ call'[c].token = call[c].token
        BY <1>1, <1>2, <1>3, <2>1, MovedRow
    <2>3. call' \in [DOMAIN call' -> CallRow]
        BY <1>1, <1>3, <2>1, <2>2 DEF TypeOK, IsTable
    <2> QED
        BY <1>2, <1>3, <2>1, <2>2, <2>3, MoveKeepsIInv
<1>4. CASE LockUser(c)
    BY <1>3, <1>4 DEF LockUser, At
<1>5. CASE MarkRefreshTokenUsed(c)
    BY <1>2, <1>3, <1>5 DEF MarkRefreshTokenUsed, At, InTransaction, Unspent, Live
<1>6. CASE FindReuse(c)
    BY <1>2, <1>3, <1>6 DEF FindReuse, At, InTransaction
<1>7. CASE RevokeUserRefreshTokens(c)
    <2> DEFINE row == [pc |-> "revoking", token |-> call[c].token, used |-> call[c].used,
                       targets |-> TokensOfUser(c)]
    <2>1. call[c].pc = "reuse" /\ call' = [call EXCEPT ![c] = row]
        BY <1>7 DEF RevokeUserRefreshTokens, At
    <2>2. TokensOfUser(c) \subseteq Tokens
        BY <1>1 DEF TokensOfUser, TypeOK, IsTable
    <2>3. row \in CallRow
        BY <1>1, <1>2, <2>2, CallRows DEF CallRow
    <2>4. /\ DOMAIN call' = DOMAIN call
          /\ \A d \in DOMAIN call : d # c => call'[d] = call[d]
          /\ call'[c] = row
          /\ call' \in [DOMAIN call' -> CallRow]
        BY <1>1, <1>2, <2>1, <2>3 DEF TypeOK, IsTable
    <2>5. c \in InTransaction
        BY <1>2, <2>1 DEF InTransaction
    <2> QED
        BY <1>2, <2>4, <2>5, MoveKeepsIInv
<1> QED
    BY <1>4, <1>5, <1>6, <1>7

\* Calls may end, and tokens may be revoked, as long as no token of a call that
\* is still "marked" is: liveness only shrinks.
LEMMA RevokeKeepsIInv ==
    ASSUME IInv, NEW rows, RevokesOnly(rows),
           DOMAIN call' \subseteq DOMAIN call,
           call' \in [DOMAIN call' -> CallRow],
           \A d \in DOMAIN call' : call'[d] = call[d],
           \A d \in DOMAIN call' : call[d].pc = "marked" => call[d].token \notin rows,
           detected' \subseteq DOMAIN token,
           \A t \in detected' \ detected : LiveOf(token[t].chain)' = {}
    PROVE  IInv'
<1>1. TypeOK
    BY DEF IInv
<1>2. \A d \in DOMAIN call' : UserOf(d)' = UserOf(d)
    BY <1>1, CallRows DEF UserOf, RevokesOnly
<1>3. TypeOK'
    <2>1. IsTable(token, Tokens, TokenRow)'
        BY <1>1 DEF RevokesOnly, TypeOK, IsTable
    <2>2. IsTable(call, Calls, CallRow)'
        BY <1>1 DEF TypeOK, IsTable
    <2>3. (\A d \in DOMAIN call : call[d].token \in DOMAIN token)'
        BY <1>1 DEF TypeOK, RevokesOnly
    <2>4. (\A d, e \in InTransaction : UserOf(d) = UserOf(e) => d = e)'
        BY <1>1, <1>2 DEF TypeOK, InTransaction
    <2> QED
        BY <2>1, <2>2, <2>3, <2>4 DEF TypeOK, RevokesOnly
<1>4. \A t \in DOMAIN token : Live(t)' => Live(t)
    BY <1>1, TokenRows DEF Live, RevokesOnly
<1>5. MarkedIsLive'
    <2> SUFFICES ASSUME NEW d \in DOMAIN call', call'[d].pc = "marked"
                 PROVE  Live(call[d].token)'
        BY DEF MarkedIsLive
    <2>1. call'[d] = call[d] /\ call[d].token \in DOMAIN token /\ call[d].token \notin rows
        BY <1>1, CallRows
    <2>2. Live(call[d].token)
        BY <2>1 DEF IInv, MarkedIsLive
    <2> QED
        BY <2>1, <2>2 DEF Live, RevokesOnly
<1>6. RevokingCovers'
    BY <1>1, <1>2, TokenRows DEF IInv, RevokingCovers, RevokesOnly
<1>7. ChainsAreWellFormed'
    BY DEF IInv, ChainsAreWellFormed, RevokesOnly
<1>8. OneLivePerChain'
    BY <1>4 DEF IInv, OneLivePerChain, RevokesOnly
<1>9. ReuseEndsChain'
    <2> SUFFICES ASSUME NEW t \in detected PROVE LiveOf(token[t].chain)' = {}
        BY DEF ReuseEndsChain
    <2>1. t \in DOMAIN token /\ LiveOf(token[t].chain) = {}
        BY <1>1 DEF TypeOK, IInv, ReuseEndsChain
    <2> QED
        BY <1>4, <2>1 DEF LiveOf, RevokesOnly
<1> QED
    BY <1>3, <1>5, <1>6, <1>7, <1>8, <1>9 DEF IInv

LEMMA LoginKeepsIInv ==
    ASSUME IInv, NEW u \in Users, NEW t \in Tokens, Login(u, t)
    PROVE  IInv'
<1> DEFINE row == [user |-> u, used |-> FALSE, revoked |-> FALSE, chain |-> t]
<1>1. TypeOK
    BY DEF IInv
<1>2. /\ t \notin DOMAIN token /\ ~UserLocked(u) /\ UNCHANGED <<call, detected>>
      /\ token' = Put(token, t, row)
    BY DEF Login
<1>3. /\ DOMAIN token' = DOMAIN token \cup {t}
      /\ token'[t] = row
      /\ \A v \in DOMAIN token : token'[v] = token[v]
    BY <1>2, NewToken
<1>4. \A d \in DOMAIN call : call[d].token \in DOMAIN token /\ UserOf(d)' = UserOf(d)
    BY <1>1, <1>2, <1>3, CallRows DEF UserOf
<1>5. TypeOK'
    <2>1. IsTable(token, Tokens, TokenRow)'
        BY <1>1, <1>2, <1>3 DEF TypeOK, IsTable, TokenRow, Put
    <2>2. (\A d, e \in InTransaction : UserOf(d) = UserOf(e) => d = e)'
        BY <1>1, <1>2, <1>4 DEF TypeOK, InTransaction
    <2> QED
        BY <1>1, <1>2, <1>3, <1>4, <2>1, <2>2 DEF TypeOK, IsTable
<1>6. MarkedIsLive'
    BY <1>2, <1>3, <1>4 DEF IInv, MarkedIsLive, Live
<1>7. RevokingCovers'
    <2>1. \A d \in DOMAIN call : call[d].pc = "revoking" => UserOf(d) # u
        BY <1>2 DEF UserLocked, InTransaction
    <2> SUFFICES ASSUME NEW d \in DOMAIN call', call'[d].pc = "revoking",
                        NEW v \in DOMAIN token', token'[v].user = UserOf(d)',
                        ~token'[v].revoked
                 PROVE  v \in call'[d].targets
        BY DEF RevokingCovers
    <2>2. d \in DOMAIN call /\ call'[d] = call[d] /\ UserOf(d)' = UserOf(d)
        BY <1>2, <1>4
    <2>3. v # t
        BY <1>3, <2>1, <2>2
    <2> QED
        BY <1>3, <2>2, <2>3 DEF IInv, RevokingCovers
<1>8. \A v \in DOMAIN token : token[v].chain \in DOMAIN token /\ token[v].chain # t
    BY <1>2 DEF IInv, ChainsAreWellFormed
<1>9. ChainsAreWellFormed'
    BY <1>3, <1>8 DEF IInv, ChainsAreWellFormed
<1>10. OneLivePerChain'
    BY <1>3, <1>8 DEF IInv, OneLivePerChain, Live
<1>11. ReuseEndsChain'
    <2> SUFFICES ASSUME NEW v \in detected,
                        NEW w \in DOMAIN token', token'[w].chain = token'[v].chain, Live(w)'
                 PROVE  FALSE
        BY <1>2 DEF ReuseEndsChain, LiveOf
    <2>1. v \in DOMAIN token /\ LiveOf(token[v].chain) = {}
        BY <1>1 DEF TypeOK, IInv, ReuseEndsChain
    <2> QED
        BY <1>3, <1>8, <2>1 DEF LiveOf, Live
<1> QED
    BY <1>5, <1>6, <1>7, <1>9, <1>10, <1>11 DEF IInv

\* A rotation moves the life of a chain from the token spent to its successor.
LEMMA RotationMovesLife ==
    ASSUME IInv, NEW c \in Calls, NEW s \in Tokens, CommitRotation(c, s)
    PROVE  LET t == call[c].token
           IN  /\ t \in DOMAIN token /\ Live(t)
               /\ \A v \in DOMAIN token : token'[v].chain = token[v].chain
               /\ \A v \in DOMAIN token' : Live(v)' =>
                    \/ v = s /\ token'[v].chain = token[t].chain
                    \/ v \in DOMAIN token /\ v # t /\ Live(v)
<1>1. TypeOK
    BY DEF IInv
<1> DEFINE t == call[c].token
<1>6. /\ t \in DOMAIN token /\ s \notin DOMAIN token
      /\ DOMAIN token' = DOMAIN token \cup {s}
      /\ token'[s] = [user |-> token[t].user, used |-> FALSE, revoked |-> FALSE,
                      chain |-> token[t].chain]
      /\ token'[t] = [user |-> token[t].user, used |-> TRUE,
                      revoked |-> token[t].revoked, chain |-> token[t].chain]
      /\ \A u \in DOMAIN token : u # t => token'[u] = token[u]
    BY <1>1, RotatedTokens
<1>2. /\ token'[s].chain = token[t].chain
      /\ token'[t].chain = token[t].chain /\ token'[t].used = TRUE
    BY <1>6
<1>3. Live(t)
    BY <1>1, RotatedTokens DEF IInv, MarkedIsLive
<1>4. \A v \in DOMAIN token : token'[v].chain = token[v].chain
    BY <1>2, <1>6
<1>5. ASSUME NEW v \in DOMAIN token', Live(v)'
      PROVE  \/ v = s /\ token'[v].chain = token[t].chain
             \/ v \in DOMAIN token /\ v # t /\ Live(v)
    BY <1>2, <1>5, <1>6 DEF Live
<1> QED
    BY <1>3, <1>4, <1>5, <1>6

LEMMA RotationKeepsIInv ==
    ASSUME IInv, NEW c \in Calls, NEW s \in Tokens, CommitRotation(c, s)
    PROVE  IInv'
<1> DEFINE t == call[c].token
<1>1. TypeOK
    BY DEF IInv
<1>2. /\ c \in DOMAIN call /\ call[c].pc = "marked"
      /\ t \in DOMAIN token /\ s \notin DOMAIN token
      /\ DOMAIN token' = DOMAIN token \cup {s}
      /\ token'[s] = [user |-> token[t].user, used |-> FALSE, revoked |-> FALSE,
                      chain |-> token[t].chain]
      /\ token'[t] = [user |-> token[t].user, used |-> TRUE,
                      revoked |-> token[t].revoked, chain |-> token[t].chain]
      /\ \A u \in DOMAIN token : u # t => token'[u] = token[u]
    BY <1>1, RotatedTokens
<1>3. /\ DOMAIN call' = DOMAIN call \ {c}
      /\ \A d \in DOMAIN call' : call'[d] = call[d]
      /\ call' = Without(call, c) /\ UNCHANGED detected
    BY EndedCall DEF CommitRotation
<1>4. \A u \in DOMAIN token : /\ u \in DOMAIN token'
                              /\ token'[u].user = token[u].user
                              /\ token'[u].chain = token[u].chain
                              /\ token'[u].revoked = token[u].revoked
    BY <1>2
<1>5. \A d \in DOMAIN call' : /\ call[d].token \in DOMAIN token
                              /\ UserOf(d)' = UserOf(d)
    BY <1>1, <1>3, <1>4, CallRows DEF UserOf
<1>6. \A d \in DOMAIN call' : d \in InTransaction => UserOf(d) # token[t].user
    BY <1>1, <1>2, <1>3 DEF TypeOK, InTransaction, UserOf
<1>7. TypeOK'
    <2>1. IsTable(token, Tokens, TokenRow)'
        <3>1. token'[s] \in TokenRow /\ token'[t] \in TokenRow
            BY <1>1, <1>2, TokenRows DEF TokenRow
        <3>2. \A u \in DOMAIN token' : token'[u] \in TokenRow
            BY <1>1, <1>2, <3>1, TokenRows
        <3>3. token' = [u \in DOMAIN token' |-> token'[u]]
            BY DEF CommitRotation, Put
        <3> QED
            BY <1>1, <1>2, <3>2, <3>3 DEF TypeOK, IsTable
    <2>2. IsTable(call, Calls, CallRow)'
        <3>1. call' = [d \in DOMAIN call' |-> call[d]]
            BY <1>3 DEF Without, Restrict
        <3> QED
            BY <1>1, <1>3, <3>1 DEF TypeOK, IsTable
    <2>3. (\A d \in DOMAIN call : call[d].token \in DOMAIN token)'
        BY <1>3, <1>4, <1>5
    <2>4. (\A d, e \in InTransaction : UserOf(d) = UserOf(e) => d = e)'
        BY <1>1, <1>3, <1>5 DEF TypeOK, InTransaction
    <2> QED
        BY <1>1, <1>2, <1>3, <2>1, <2>2, <2>3, <2>4 DEF TypeOK
<1>8. MarkedIsLive'
    <2> SUFFICES ASSUME NEW d \in DOMAIN call', call'[d].pc = "marked"
                 PROVE  Live(call[d].token)'
        BY DEF MarkedIsLive
    <2>1. call'[d] = call[d] /\ d \in DOMAIN call /\ call[d].token \in DOMAIN token
        BY <1>3, <1>5
    <2>2. call[d].token # t
        BY <1>6, <2>1 DEF InTransaction, UserOf
    <2>3. Live(call[d].token)
        BY <2>1 DEF IInv, MarkedIsLive
    <2> QED
        BY <1>2, <2>1, <2>2, <2>3 DEF Live
<1>9. RevokingCovers'
    <2> SUFFICES ASSUME NEW d \in DOMAIN call', call'[d].pc = "revoking",
                        NEW v \in DOMAIN token', token'[v].user = UserOf(d)',
                        ~token'[v].revoked
                 PROVE  v \in call'[d].targets
        BY DEF RevokingCovers
    <2>1. call'[d] = call[d] /\ d \in DOMAIN call /\ UserOf(d)' = UserOf(d)
        BY <1>3, <1>5
    <2>2. UserOf(d) # token[t].user
        BY <1>6, <2>1 DEF InTransaction
    <2>3. v # s
        BY <1>2, <2>1, <2>2
    <2> QED
        BY <1>2, <1>4, <2>1, <2>3 DEF IInv, RevokingCovers
<1>10. ChainsAreWellFormed'
    BY <1>2, <1>4 DEF IInv, ChainsAreWellFormed
<1>11. OneLivePerChain'
    <2> SUFFICES ASSUME NEW v \in DOMAIN token', NEW w \in DOMAIN token',
                        Live(v)', Live(w)', token'[v].chain = token'[w].chain
                 PROVE  v = w
        BY DEF OneLivePerChain
    <2> QED
        BY <1>2, RotationMovesLife DEF IInv, OneLivePerChain
<1>12. ReuseEndsChain'
    <2> SUFFICES ASSUME NEW v \in detected,
                        NEW w \in DOMAIN token', token'[w].chain = token'[v].chain, Live(w)'
                 PROVE  FALSE
        BY <1>3 DEF ReuseEndsChain, LiveOf
    <2>1. v \in DOMAIN token /\ LiveOf(token[v].chain) = {}
        BY <1>1 DEF TypeOK, IInv, ReuseEndsChain
    <2> QED
        BY <1>2, <2>1, RotationMovesLife DEF LiveOf
<1> QED
    BY <1>7, <1>8, <1>9, <1>10, <1>11, <1>12 DEF IInv

\* A call that just ends, or ends with a revocation, is an instance of
\* RevokeKeepsIInv.
LEMMA EndKeepsIInv ==
    ASSUME IInv, NEW c \in Calls, Rollback(c) \/ CommitRevocation(c)
    PROVE  IInv'
<1>1. TypeOK
    BY DEF IInv
<1>2. /\ DOMAIN call' \subseteq DOMAIN call /\ c \notin DOMAIN call'
      /\ \A d \in DOMAIN call' : call'[d] = call[d]
      /\ call' = Without(call, c)
    BY EndedCall DEF Rollback, CommitRevocation
<1>3. call' \in [DOMAIN call' -> CallRow]
    <2>1. call' = [d \in DOMAIN call' |-> call[d]]
        BY <1>2 DEF Without, Restrict
    <2> QED
        BY <1>1, <1>2, <2>1 DEF TypeOK, IsTable
<1>4. CASE Rollback(c)
    <2>1. UNCHANGED <<token, detected>>
        BY <1>4 DEF Rollback
    <2>2. RevokesOnly({})
        BY <1>1, <2>1, TokenRows DEF RevokesOnly, TypeOK, IsTable
    <2>3. detected' \subseteq DOMAIN token
        BY <1>1, <2>1 DEF TypeOK
    <2> QED
        BY <1>2, <1>3, <2>1, <2>2, <2>3, RevokeKeepsIInv
<1>5. CASE CommitRevocation(c)
    <2> DEFINE rows == call[c].targets
    <2>1. c \in DOMAIN call /\ call[c].pc = "revoking" /\ RevokesOnly(rows)
        BY <1>1, <1>5, RevocationRevokes
    <2>2. \A d \in DOMAIN call' : call[d].pc = "marked" => call[d].token \notin rows
        BY <1>2, <1>5 DEF CommitRevocation, At
    <2>3. call[c].token \in DOMAIN token /\ detected' = detected \cup {call[c].token}
        BY <1>1, <1>5, <2>1, CallRows DEF CommitRevocation
    <2>4. detected' \subseteq DOMAIN token
        BY <1>1, <2>3 DEF TypeOK
    <2>5. \A v \in DOMAIN token : token[v].user = UserOf(c) => token'[v].revoked
        BY <1>1, <2>1, TokenRows DEF IInv, RevokingCovers, RevokesOnly
    <2>6. ASSUME NEW t \in detected' \ detected
          PROVE  LiveOf(token[t].chain)' = {}
        <3> SUFFICES ASSUME NEW w \in DOMAIN token', token'[w].chain = token'[t].chain, Live(w)'
                     PROVE  FALSE
            BY DEF LiveOf
        <3>1. t = call[c].token
            BY <2>3
        <3>2. token[w].user = UserOf(c)
            BY <2>1, <2>3, <3>1 DEF IInv, ChainsAreWellFormed, RevokesOnly, UserOf
        <3> QED
            BY <2>1, <2>5, <3>2 DEF RevokesOnly, Live
    <2> QED
        BY <1>2, <1>3, <2>1, <2>2, <2>4, <2>6, RevokeKeepsIInv
<1> QED
    BY <1>4, <1>5

LEMMA LogoutKeepsIInv ==
    ASSUME IInv, NEW t \in Tokens, Logout(t)
    PROVE  IInv'
<1>1. TypeOK
    BY DEF IInv
<1>2. UNCHANGED <<call, detected>> /\ RevokesOnly({t}) /\ ~RowLocked(t)
    BY <1>1, LogoutRevokes DEF Logout
<1>3. \A d \in DOMAIN call : call[d].pc = "marked" => call[d].token \notin {t}
    BY <1>2 DEF RowLocked
<1>4. call' \in [DOMAIN call' -> CallRow] /\ detected' \subseteq DOMAIN token
    BY <1>1, <1>2 DEF TypeOK, IsTable
<1> QED
    BY <1>2, <1>3, <1>4, RevokeKeepsIInv

LEMMA IInvStep == IInv /\ [Next]_vars => IInv'
<1> SUFFICES ASSUME IInv, [Next]_vars PROVE IInv'
    OBVIOUS
<1>1. CASE UNCHANGED vars
    BY <1>1 DEF vars, IInv, TypeOK, InTransaction, UserOf, ChainsAreWellFormed, MarkedIsLive,
        RevokingCovers, OneLivePerChain, ReuseEndsChain, LiveOf, Live
<1>2. ASSUME NEW c \in Calls, NEW t \in Tokens, GetRefreshToken(c, t) PROVE IInv'
    BY <1>2, BeginKeepsIInv
<1>3. ASSUME NEW c \in Calls, NEW t \in Tokens, CommitRotation(c, t) PROVE IInv'
    BY <1>3, RotationKeepsIInv
<1>4. ASSUME NEW c \in Calls,
             \/ LockUser(c) \/ MarkRefreshTokenUsed(c)
             \/ FindReuse(c) \/ RevokeUserRefreshTokens(c)
      PROVE  IInv'
    BY <1>4, TransactionKeepsIInv
<1>5. ASSUME NEW c \in Calls, Rollback(c) \/ CommitRevocation(c) PROVE IInv'
    BY <1>5, EndKeepsIInv
<1>6. ASSUME NEW t \in Tokens, Logout(t) PROVE IInv'
    BY <1>6, LogoutKeepsIInv
<1>7. ASSUME NEW u \in Users, NEW t \in Tokens, Login(u, t) PROVE IInv'
    BY <1>7, LoginKeepsIInv
<1> QED
    BY <1>1, <1>2, <1>3, <1>4, <1>5, <1>6, <1>7 DEF Next, RefreshStep, SessionStep

LEMMA Inductive == Spec => []IInv
    BY IInvInit, IInvStep, PTL DEF Spec

-----------------------------------------------------------------------------

\* The tables keep their shape, and a user's row is locked by one transaction.
THEOREM TypeCorrect == Spec => []TypeOK
<1>1. IInv => TypeOK
    BY DEF IInv
<1> QED
    BY <1>1, Inductive, PTL

\* A login is worth at most one live token, however many refreshes run.
THEOREM ChainsHaveOneLive == Spec => []OneLivePerChain
<1>1. IInv => OneLivePerChain
    BY DEF IInv
<1> QED
    BY <1>1, Inductive, PTL

\* A chain whose token was found reused is dead for good.
THEOREM ReuseIsFinal == Spec => []ReuseEndsChain
<1>1. IInv => ReuseEndsChain
    BY DEF IInv
<1> QED
    BY <1>1, Inductive, PTL

\* The steps by what they may bring to life.
LEMMA StepKinds ==
    ASSUME IInv, [Next]_vars
    PROVE  \/ UNCHANGED token
           \/ \E rows : RevokesOnly(rows)
           \/ \E c \in Calls, s \in Tokens : CommitRotation(c, s)
           \/ \E u \in Users, t \in Tokens : Login(u, t)
<1>1. TypeOK
    BY DEF IInv
<1>2. ASSUME NEW t \in Tokens, Logout(t) PROVE \E rows : RevokesOnly(rows)
    BY <1>1, <1>2, LogoutRevokes
<1>3. ASSUME NEW c \in Calls, CommitRevocation(c) PROVE \E rows : RevokesOnly(rows)
    BY <1>1, <1>3, RevocationRevokes
<1> QED
    BY <1>2, <1>3 DEF Next, RefreshStep, SessionStep, GetRefreshToken, LockUser,
        MarkRefreshTokenUsed, FindReuse, RevokeUserRefreshTokens, Rollback, vars

\* No refresh revives a chain that a logout or a revocation has ended.
THEOREM DeadIsFinal == Spec => DeadChainsStayDead
<1> DEFINE Dead ==
        \A t \in DOMAIN token :
            LiveOf(token[t].chain) = {} => LiveOf(token[t].chain)' = {}
<1>1. IInv /\ [Next]_vars => Dead
    <2> SUFFICES ASSUME IInv, [Next]_vars,
                        NEW t \in DOMAIN token, LiveOf(token[t].chain) = {},
                        NEW w \in DOMAIN token', token'[w].chain = token'[t].chain, Live(w)'
                 PROVE  FALSE
        BY DEF LiveOf
    <2>1. TypeOK
        BY DEF IInv
    <2>2. CASE UNCHANGED token
        BY <2>2 DEF LiveOf, Live
    <2>3. ASSUME NEW rows, RevokesOnly(rows) PROVE FALSE
        BY <2>1, <2>3, TokenRows DEF RevokesOnly, LiveOf, Live
    <2>4. ASSUME NEW c \in Calls, NEW s \in Tokens, CommitRotation(c, s) PROVE FALSE
        <3>1. call[c].token \in LiveOf(token[call[c].token].chain)
            BY <2>4, RotationMovesLife DEF LiveOf
        <3>2. token[t].chain # token[call[c].token].chain
            BY <3>1
        <3> QED
            BY <2>4, <3>2, RotationMovesLife DEF LiveOf
    <2>5. ASSUME NEW u \in Users, NEW s \in Tokens, Login(u, s) PROVE FALSE
        <3>1. /\ s \notin DOMAIN token
              /\ DOMAIN token' = DOMAIN token \cup {s}
              /\ token'[s].chain = s
              /\ \A v \in DOMAIN token : token'[v] = token[v]
            BY <2>5 DEF Login, Put
        <3>2. token[t].chain \in DOMAIN token
            BY DEF IInv, ChainsAreWellFormed
        <3> QED
            BY <3>1, <3>2 DEF LiveOf, Live
    <2> QED
        BY <2>2, <2>3, <2>4, <2>5, StepKinds
<1> QED
    BY <1>1, Inductive, PTL DEF Spec, DeadChainsStayDead

\* Whatever runs beside it, a revocation leaves its user without a live token.
THEOREM NothingEscapes == Spec => RevocationIsTotal
<1> DEFINE Total ==
        \A t \in detected' \ detected :
            \A u \in DOMAIN token' : token'[u].user = token'[t].user => token'[u].revoked
<1>1. IInv /\ [Next]_vars => Total
    <2> SUFFICES ASSUME IInv, [Next]_vars,
                        NEW t \in detected' \ detected,
                        NEW u \in DOMAIN token', token'[u].user = token'[t].user
                 PROVE  token'[u].revoked
        OBVIOUS
    <2>1. TypeOK
        BY DEF IInv
    <2>2. PICK c \in Calls : CommitRevocation(c)
        BY DEF Next, RefreshStep, SessionStep, GetRefreshToken, LockUser, CommitRotation,
            MarkRefreshTokenUsed, FindReuse, RevokeUserRefreshTokens, Rollback, Logout,
            Login, vars
    <2>3. /\ c \in DOMAIN call /\ call[c].pc = "revoking" /\ t = call[c].token
          /\ RevokesOnly(call[c].targets)
        BY <2>1, <2>2, RevocationRevokes DEF CommitRevocation
    <2>4. t \in DOMAIN token /\ u \in DOMAIN token /\ token[u].user = UserOf(c)
        BY <2>1, <2>3, CallRows DEF RevokesOnly, UserOf
    <2> QED
        BY <2>1, <2>3, <2>4, TokenRows DEF IInv, RevokingCovers, RevokesOnly
<1> QED
    BY <1>1, Inductive, PTL DEF Spec, RevocationIsTotal

-----------------------------------------------------------------------------
(***************************************************************************)
(* Refresh tokens implement Sessions                                       *)
(***************************************************************************)

\* A revocation takes rows of its own user only.
TargetsAreOwn ==
    \A c \in DOMAIN call : call[c].pc = "revoking" =>
        \A t \in call[c].targets : t \in DOMAIN token /\ token[t].user = UserOf(c)

\* What HolderOf holds, without the CHOOSE: the live tokens, one of a chain.
HolderIsLive ==
    /\ HolderOf = [k \in DOMAIN HolderOf |-> HolderOf[k]]
    /\ \A k \in DOMAIN HolderOf :
        /\ HolderOf[k] \in DOMAIN token /\ Live(HolderOf[k])
        /\ token[HolderOf[k]].chain = k
    /\ \A t \in DOMAIN token : Live(t) =>
        token[t].chain \in DOMAIN HolderOf /\ HolderOf[token[t].chain] = t

LEMMA HoldersLive == IInv => HolderIsLive
<1> SUFFICES ASSUME IInv PROVE HolderIsLive
    OBVIOUS
<1> DEFINE chains == {token[t].chain : t \in {u \in DOMAIN token : Live(u)}}
<1>1. HolderOf = [k \in chains |-> CHOOSE t \in LiveOf(k) : TRUE]
    BY DEF HolderOf
<1>2. \A k \in chains : HolderOf[k] = CHOOSE t \in LiveOf(k) : TRUE
    BY <1>1, Zenon
<1>3. DOMAIN HolderOf = chains /\ HolderOf = [k \in DOMAIN HolderOf |-> HolderOf[k]]
    <2>1. DOMAIN HolderOf = chains
        BY <1>1, Zenon
    <2>2. [k \in chains |-> HolderOf[k]] = [k \in chains |-> CHOOSE t \in LiveOf(k) : TRUE]
        BY <1>2, Zenon
    <2>3. HolderOf = [k \in chains |-> HolderOf[k]]
        BY <1>1, <2>2, Zenon
    <2> QED
        BY <2>1, <2>3, Zenon
<1>4. ASSUME NEW k \in chains
      PROVE  HolderOf[k] \in LiveOf(k)
    <2>1. \E t : t \in LiveOf(k)
        BY <1>4 DEF LiveOf
    <2> QED
        BY <1>2, <2>1, Zenon
<1>5. ASSUME NEW t \in DOMAIN token, Live(t)
      PROVE  token[t].chain \in chains /\ HolderOf[token[t].chain] = t
    <2>1. token[t].chain \in chains
        BY <1>5
    <2>2. HolderOf[token[t].chain] \in LiveOf(token[t].chain)
        BY <1>4, <2>1
    <2> QED
        BY <1>5, <2>1, <2>2 DEF LiveOf, IInv, OneLivePerChain
<1> HIDE DEF chains
<1> QED
    BY <1>3, <1>4, <1>5 DEF HolderIsLive, LiveOf

\* A rotation as this section uses it.
LEMMA RotationAdds ==
    ASSUME TypeOK, NEW c \in Calls, NEW s \in Tokens, CommitRotation(c, s)
    PROVE  LET t == call[c].token
           IN  /\ t \in DOMAIN token /\ s \notin DOMAIN token
               /\ DOMAIN token' = DOMAIN token \cup {s}
               /\ token'[s].user = token[t].user /\ token'[s].chain = token[t].chain
               /\ ~token'[s].used /\ ~token'[s].revoked
               /\ \A u \in DOMAIN token : token'[u].user = token[u].user
               /\ \A u \in DOMAIN token : u # t => token'[u] = token[u]
<1> DEFINE t == call[c].token
<1>1. /\ c \in DOMAIN call /\ call[c].pc = "marked"
      /\ t \in DOMAIN token /\ s \notin DOMAIN token
      /\ DOMAIN token' = DOMAIN token \cup {s}
      /\ token'[s] = [user |-> token[t].user, used |-> FALSE, revoked |-> FALSE,
                      chain |-> token[t].chain]
      /\ token'[t] = [user |-> token[t].user, used |-> TRUE,
                      revoked |-> token[t].revoked, chain |-> token[t].chain]
      /\ \A u \in DOMAIN token : u # t => token'[u] = token[u]
    BY RotatedTokens
<1> HIDE DEF t
<1>2. \A u \in DOMAIN token : token'[u].user = token[u].user
    BY <1>1
<1> QED
    BY <1>1, <1>2 DEF t

LEMMA TargetsStep ==
    ASSUME IInv, TargetsAreOwn, [Next]_vars
    PROVE  TargetsAreOwn'
<1>1. TypeOK
    BY DEF IInv
<1>2. \A t \in DOMAIN token : t \in DOMAIN token' /\ token'[t].user = token[t].user
    <2>1. ASSUME NEW c \in Calls, NEW s \in Tokens, CommitRotation(c, s), NEW t \in DOMAIN token
          PROVE  t \in DOMAIN token' /\ token'[t].user = token[t].user
        BY <1>1, <2>1, RotationAdds
    <2>2. ASSUME NEW u \in Users, NEW s \in Tokens, Login(u, s), NEW t \in DOMAIN token
          PROVE  t \in DOMAIN token' /\ token'[t] = token[t]
        BY <2>2 DEF Login, Put
    <2> QED
        BY <2>1, <2>2, StepKinds DEF RevokesOnly
<1>3. ASSUME NEW c \in DOMAIN call', call'[c].pc = "revoking"
      PROVE  \/ c \in DOMAIN call /\ call'[c] = call[c]
             \/ RevokeUserRefreshTokens(c)
    <2>1. ASSUME NEW d \in Calls, NEW t \in Tokens, GetRefreshToken(d, t)
          PROVE  c \in DOMAIN call /\ call'[c] = call[c]
        BY <1>3, <2>1 DEF GetRefreshToken, Put
    <2>2. ASSUME NEW d \in Calls, NEW pc \in {"locked", "marked", "reuse"},
                 d \in DOMAIN call, call' = [call EXCEPT ![d].pc = pc]
          PROVE  c \in DOMAIN call /\ call'[c] = call[c]
        <3>1. /\ DOMAIN call' = DOMAIN call
              /\ \A e \in DOMAIN call : e # d => call'[e] = call[e]
              /\ call'[d] = [call[d] EXCEPT !.pc = pc]
            BY <1>1, <2>2, MovedCall
        <3>2. call'[d].pc = pc
            <4>1. call[d] \in CallRow
                BY <1>1, <2>2 DEF TypeOK, IsTable
            <4> QED
                BY <3>1, <4>1 DEF CallRow
        <3> QED
            BY <1>3, <3>1, <3>2
    <2>3. ASSUME NEW d \in Calls, RevokeUserRefreshTokens(d)
          PROVE  c \in DOMAIN call /\ (c # d => call'[c] = call[c])
        BY <2>3 DEF RevokeUserRefreshTokens, At
    <2>4. ASSUME NEW d \in Calls, call' = Without(call, d)
          PROVE  c \in DOMAIN call /\ call'[c] = call[c]
        BY <2>4, EndedCall
    <2>5. CASE UNCHANGED call
        BY <2>5
    <2> QED
        BY <2>1, <2>2, <2>3, <2>4, <2>5
           DEF Next, RefreshStep, SessionStep, LockUser, MarkRefreshTokenUsed, FindReuse, At,
            CommitRevocation, CommitRotation, Rollback, Logout, Login, vars
<1>4. ASSUME NEW c \in DOMAIN call', call'[c].pc = "revoking", NEW t \in call'[c].targets
      PROVE  t \in DOMAIN token' /\ token'[t].user = UserOf(c)'
    <2>1. CASE c \in DOMAIN call /\ call'[c] = call[c]
        <3>1. /\ t \in DOMAIN token /\ token[t].user = token[call[c].token].user
              /\ call[c].token \in DOMAIN token
            BY <1>1, <1>4, <2>1, CallRows DEF TargetsAreOwn, UserOf
        <3> QED
            BY <1>2, <2>1, <3>1 DEF UserOf
    <2>2. CASE RevokeUserRefreshTokens(c)
        <3>1. /\ UNCHANGED token
              /\ call'[c].token = call[c].token /\ call'[c].targets = TokensOfUser(c)
            BY <2>2 DEF RevokeUserRefreshTokens, At
        <3> QED
            BY <1>4, <3>1 DEF TokensOfUser, UserOf
    <2> QED
        BY <1>3, <1>4, <2>1, <2>2
<1> QED
    BY <1>4 DEF TargetsAreOwn

\* What a step that only revokes closes: the sessions whose token it takes.
LEMMA RevokingCloses ==
    ASSUME IInv, IInv', HolderIsLive', NEW rows, RevokesOnly(rows)
    PROVE  /\ UNCHANGED OwnerOf
           /\ DOMAIN HolderOf' = {k \in DOMAIN HolderOf : HolderOf[k] \notin rows}
           /\ \A k \in DOMAIN HolderOf' : HolderOf'[k] = HolderOf[k]
           /\ HolderOf' = [k \in DOMAIN HolderOf' |-> HolderOf'[k]]
<1>1. HolderIsLive /\ TypeOK
    BY HoldersLive DEF IInv
<1>2. \A t \in DOMAIN token : Live(t)' <=> Live(t) /\ t \notin rows
    BY <1>1, TokenRows DEF RevokesOnly, Live
<1>3. UNCHANGED OwnerOf
    BY DEF RevokesOnly, OwnerOf
<1>4. ASSUME NEW k \in DOMAIN HolderOf'
      PROVE  k \in DOMAIN HolderOf /\ HolderOf[k] = HolderOf'[k] /\ HolderOf[k] \notin rows
    <2>0. PICK t : t = HolderOf'[k]
        OBVIOUS
    <2>1. t \in DOMAIN token /\ Live(t)' /\ token'[t].chain = k
        BY <2>0, <1>4 DEF HolderIsLive, RevokesOnly
    <2>2. Live(t) /\ t \notin rows /\ token[t].chain = k
        BY <2>0, <1>2, <2>1 DEF RevokesOnly
    <2> QED
        BY <2>0, <1>1, <2>1, <2>2 DEF HolderIsLive, Live
<1>5. ASSUME NEW k \in DOMAIN HolderOf, HolderOf[k] \notin rows
      PROVE  k \in DOMAIN HolderOf'
    <2>0. PICK t : t = HolderOf[k]
        OBVIOUS
    <2>1. t \in DOMAIN token /\ Live(t) /\ token[t].chain = k
        BY <2>0, <1>1 DEF HolderIsLive, Live
    <2>2. t \in DOMAIN token' /\ Live(t)' /\ token'[t].chain = k
        BY <2>0, <1>2, <1>5, <2>1 DEF RevokesOnly
    <2> QED
        BY <2>0, <2>2 DEF HolderIsLive, Live
<1>6. HolderOf' = [k \in DOMAIN HolderOf' |-> HolderOf'[k]]
    BY DEF HolderIsLive
<1> QED
    BY <1>3, <1>4, <1>5, <1>6

LEMMA LogoutCloses ==
    ASSUME IInv, IInv', HolderIsLive', NEW t \in Tokens, Logout(t)
    PROVE  UNCHANGED <<OwnerOf, HolderOf>> \/ \E s \in Tokens : Session!Close(s)
<1>1. HolderIsLive /\ TypeOK
    BY HoldersLive DEF IInv
<1>2. RevokesOnly({t}) /\ t \in DOMAIN token
    BY <1>1, LogoutRevokes
<1>3. /\ UNCHANGED OwnerOf
      /\ DOMAIN HolderOf' = {k \in DOMAIN HolderOf : HolderOf[k] # t}
      /\ \A k \in DOMAIN HolderOf' : HolderOf'[k] = HolderOf[k]
      /\ HolderOf' = [k \in DOMAIN HolderOf' |-> HolderOf'[k]]
    <2> DEFINE rows == {t}
    <2>1. RevokesOnly(rows)
        BY <1>2
    <2>2. \A k : HolderOf[k] \notin rows <=> HolderOf[k] # t
        OBVIOUS
    <2> HIDE DEF rows
    <2> QED
        BY <2>1, <2>2, RevokingCloses
<1> DEFINE s == token[t].chain
<1>4. CASE Live(t)
    <2>1. s \in DOMAIN HolderOf /\ s \in Tokens
        BY <1>1, <1>2, <1>4, TokenRows DEF HolderIsLive
    <2>2. DOMAIN HolderOf' = DOMAIN HolderOf \ {s}
        BY <1>1, <1>2, <1>3, <1>4 DEF HolderIsLive
    <2>3. HolderOf' = Session!Without(HolderOf, s)
        BY <1>3, <2>2 DEF Session!Without, Session!Restrict
    <2> QED
        BY <1>3, <2>1, <2>3 DEF Session!Close
<1>5. CASE ~Live(t)
    <2>1. DOMAIN HolderOf' = DOMAIN HolderOf
        BY <1>1, <1>3, <1>5 DEF HolderIsLive
    <2>2. HolderOf = [k \in DOMAIN HolderOf |-> HolderOf[k]]
        BY <1>1 DEF HolderIsLive
    <2> QED
        BY <1>3, <2>1, <2>2
<1> QED
    BY <1>4, <1>5

\* The sessions a revocation closes are all of its user's, and only those.
LEMMA RevocationClosesAll ==
    ASSUME IInv, IInv', HolderIsLive', TargetsAreOwn, NEW c \in Calls, CommitRevocation(c)
    PROVE  \E u \in Users : Session!CloseAll(u)
<1>1. HolderIsLive /\ TypeOK
    BY HoldersLive DEF IInv
<1>2. c \in DOMAIN call /\ call[c].pc = "revoking" /\ RevokesOnly(call[c].targets)
    BY <1>1, RevocationRevokes
<1> DEFINE u == UserOf(c)
<1>3. u \in Users
    BY <1>1, <1>2, CallRows, TokenRows DEF UserOf
<1>4. /\ UNCHANGED OwnerOf
      /\ DOMAIN HolderOf' = {k \in DOMAIN HolderOf : HolderOf[k] \notin call[c].targets}
      /\ \A k \in DOMAIN HolderOf' : HolderOf'[k] = HolderOf[k]
      /\ HolderOf' = [k \in DOMAIN HolderOf' |-> HolderOf'[k]]
    BY <1>2, RevokingCloses
<1>5. ASSUME NEW k \in DOMAIN HolderOf
      PROVE  HolderOf[k] \in call[c].targets <=> OwnerOf[HolderOf[k]] = u
    <2>1. HolderOf[k] \in DOMAIN token /\ ~token[HolderOf[k]].revoked
        BY <1>1 DEF HolderIsLive, Live
    <2>2. OwnerOf[HolderOf[k]] = token[HolderOf[k]].user
        BY <2>1 DEF OwnerOf
    <2> QED
        BY <1>2, <2>1, <2>2 DEF IInv, RevokingCovers, TargetsAreOwn
<1>6. DOMAIN HolderOf' = {k \in DOMAIN HolderOf : OwnerOf[HolderOf[k]] # u}
    BY <1>4, <1>5
<1>7. HolderOf' = Session!Restrict(HolderOf, {k \in DOMAIN HolderOf : OwnerOf[HolderOf[k]] # u})
    BY <1>4, <1>6 DEF Session!Restrict
<1> QED
    BY <1>3, <1>4, <1>7 DEF Session!CloseAll

\* A rotation hands the session on from the token that was spent.
LEMMA RotationExchanges ==
    ASSUME IInv, IInv', HolderIsLive', NEW c \in Calls, NEW t \in Tokens, CommitRotation(c, t)
    PROVE  \E s \in Tokens : Session!Exchange(s, t)
<1> DEFINE old == call[c].token
           s == token[old].chain
<1>1. HolderIsLive /\ TypeOK
    BY HoldersLive DEF IInv
<1>2. /\ old \in DOMAIN token /\ t \notin DOMAIN token
      /\ DOMAIN token' = DOMAIN token \cup {t}
      /\ token'[t].user = token[old].user /\ token'[t].chain = s /\ Live(t)'
      /\ \A v \in DOMAIN token : token'[v].user = token[v].user
      /\ \A v \in DOMAIN token : v # old => token'[v] = token[v]
    BY <1>1, RotationAdds DEF Live
<1>3. /\ Live(old)
      /\ \A v \in DOMAIN token' : Live(v)' =>
            v = t \/ (v \in DOMAIN token /\ v # old /\ Live(v))
    BY RotationMovesLife
<1>4. s \in Tokens /\ s \in DOMAIN HolderOf /\ HolderOf[s] = old
    BY <1>1, <1>2, <1>3, TokenRows DEF HolderIsLive
<1>5. t \notin DOMAIN OwnerOf /\ OwnerOf[HolderOf[s]] = token[old].user
    BY <1>2, <1>4 DEF OwnerOf
<1>6. OwnerOf' = Session!Put(OwnerOf, t, token[old].user)
    BY <1>2 DEF OwnerOf, Session!Put
<1>7. s \in DOMAIN HolderOf' /\ HolderOf'[s] = t
    BY <1>2 DEF HolderIsLive
<1>8. ASSUME NEW k \in DOMAIN HolderOf, k # s
      PROVE  k \in DOMAIN HolderOf' /\ HolderOf'[k] = HolderOf[k]
    <2>0. PICK v : v = HolderOf[k]
        OBVIOUS
    <2>1. v \in DOMAIN token /\ Live(v) /\ token[v].chain = k /\ v # old
        BY <2>0, <1>1, <1>8 DEF HolderIsLive, Live
    <2>2. v \in DOMAIN token' /\ token'[v] = token[v]
        BY <2>0, <1>2, <2>1
    <2>3. Live(v)' /\ token'[v].chain = k
        BY <2>0, <2>1, <2>2 DEF Live
    <2> QED
        BY <2>0, <2>2, <2>3 DEF HolderIsLive, Live
<1>9. ASSUME NEW k \in DOMAIN HolderOf', k # s PROVE k \in DOMAIN HolderOf
    <2>0. PICK v : v = HolderOf'[k]
        OBVIOUS
    <2>1. v \in DOMAIN token' /\ Live(v)' /\ token'[v].chain = k
        BY <2>0 DEF HolderIsLive, Live
    <2>2. v # t
        BY <2>0, <1>2, <1>9, <2>1
    <2>3. v \in DOMAIN token /\ v # old /\ Live(v)
        BY <2>0, <1>3, <2>1, <2>2
    <2>4. token[v].chain = k
        BY <2>0, <1>2, <2>1, <2>3
    <2> QED
        BY <2>0, <1>1, <2>3, <2>4 DEF HolderIsLive, Live
<1>10. HolderOf' = [HolderOf EXCEPT ![s] = t]
    <2>1. DOMAIN HolderOf' = DOMAIN HolderOf
        BY <1>4, <1>7, <1>8, <1>9
    <2>2. HolderOf' = [k \in DOMAIN HolderOf |-> HolderOf'[k]]
        BY <2>1 DEF HolderIsLive
    <2> QED
        BY <1>4, <1>7, <1>8, <2>2
<1> QED
    BY <1>4, <1>5, <1>6, <1>10 DEF Session!Exchange

LEMMA LoginOpens ==
    ASSUME IInv, IInv', HolderIsLive', NEW u \in Users, NEW t \in Tokens, Login(u, t)
    PROVE  Session!Open(u, t)
<1>1. HolderIsLive
    BY HoldersLive
<1>2. /\ t \notin DOMAIN token /\ DOMAIN token' = DOMAIN token \cup {t}
      /\ token'[t].user = u /\ token'[t].chain = t /\ Live(t)'
      /\ \A v \in DOMAIN token : token'[v] = token[v]
    BY DEF Login, Put, Live
<1>3. OwnerOf' = Session!Put(OwnerOf, t, u) /\ t \notin DOMAIN OwnerOf
    BY <1>2 DEF OwnerOf, Session!Put
<1>4. t \in DOMAIN HolderOf' /\ HolderOf'[t] = t
    BY <1>2 DEF HolderIsLive
<1>5. \A k \in DOMAIN HolderOf : k # t
    BY <1>1, <1>2 DEF HolderIsLive, IInv, ChainsAreWellFormed
<1>6. ASSUME NEW k \in DOMAIN HolderOf
      PROVE  k \in DOMAIN HolderOf' /\ HolderOf'[k] = HolderOf[k]
    <2>0. PICK v : v = HolderOf[k]
        OBVIOUS
    <2>1. v \in DOMAIN token /\ Live(v) /\ token[v].chain = k
        BY <2>0, <1>1 DEF HolderIsLive, Live
    <2>2. v \in DOMAIN token' /\ Live(v)' /\ token'[v].chain = k
        BY <2>0, <1>2, <2>1 DEF Live
    <2> QED
        BY <2>0, <2>2 DEF HolderIsLive, Live
<1>7. ASSUME NEW k \in DOMAIN HolderOf', k # t PROVE k \in DOMAIN HolderOf
    <2>0. PICK v : v = HolderOf'[k]
        OBVIOUS
    <2>1. v \in DOMAIN token' /\ Live(v)' /\ token'[v].chain = k
        BY <2>0 DEF HolderIsLive, Live
    <2>2. v \in DOMAIN token /\ token'[v] = token[v]
        BY <2>0, <1>2, <1>7, <2>1
    <2>3. Live(v) /\ token[v].chain = k
        BY <2>0, <2>1, <2>2 DEF Live
    <2> QED
        BY <2>0, <1>1, <2>2, <2>3 DEF HolderIsLive, Live
<1>8. HolderOf' = Session!Put(HolderOf, t, t)
    <2>1. DOMAIN HolderOf' = DOMAIN HolderOf \cup {t}
        BY <1>4, <1>6, <1>7
    <2>2. HolderOf' = [k \in DOMAIN HolderOf \cup {t} |-> HolderOf'[k]]
        BY <2>1 DEF HolderIsLive
    <2> QED
        BY <1>4, <1>6, <2>2 DEF Session!Put
<1> QED
    BY <1>3, <1>8 DEF Session!Open

LEMMA SessionsStay ==
    ASSUME IInv, IInv', HolderIsLive', UNCHANGED token
    PROVE  UNCHANGED <<OwnerOf, HolderOf>>
<1>1. RevokesOnly({})
    BY TokenRows DEF IInv, TypeOK, IsTable, RevokesOnly
<1>2. /\ UNCHANGED OwnerOf
      /\ DOMAIN HolderOf' = DOMAIN HolderOf
      /\ \A k \in DOMAIN HolderOf' : HolderOf'[k] = HolderOf[k]
      /\ HolderOf' = [k \in DOMAIN HolderOf' |-> HolderOf'[k]]
    <2> DEFINE rows == {}
    <2>1. RevokesOnly(rows)
        BY <1>1
    <2>2. \A k : HolderOf[k] \notin rows
        OBVIOUS
    <2> HIDE DEF rows
    <2> QED
        BY <2>1, <2>2, RevokingCloses
<1>3. HolderOf = [k \in DOMAIN HolderOf |-> HolderOf[k]]
    BY HoldersLive DEF HolderIsLive
<1> QED
    BY <1>2, <1>3

LEMMA SessionsInit == Init => Session!Init
<1> SUFFICES ASSUME Init PROVE Session!Init
    OBVIOUS
<1>1. DOMAIN token = {}
    BY DEF Init
<1>2. HolderIsLive
    BY IInvInit, HoldersLive
<1>3. DOMAIN HolderOf = {}
    BY <1>1, <1>2 DEF HolderIsLive
<1>4. HolderOf = Session!EmptyTable
    BY <1>2, <1>3 DEF HolderIsLive, Session!EmptyTable
<1>5. OwnerOf = Session!EmptyTable
    BY <1>1 DEF OwnerOf, Session!EmptyTable
<1> QED
    BY <1>4, <1>5 DEF Session!Init

LEMMA SessionsStep ==
    IInv /\ IInv' /\ HolderIsLive' /\ TargetsAreOwn /\ [Next]_vars
        => [Session!Next]_<<OwnerOf, HolderOf>>
<1> SUFFICES ASSUME IInv, IInv', HolderIsLive', TargetsAreOwn, [Next]_vars
             PROVE  Session!Next \/ UNCHANGED <<OwnerOf, HolderOf>>
    OBVIOUS
<1>1. CASE \E t \in Tokens : Logout(t)
    BY <1>1, LogoutCloses DEF Session!Next
<1>2. CASE \E c \in Calls : CommitRevocation(c)
    BY <1>2, RevocationClosesAll DEF Session!Next
<1>3. CASE \E c \in Calls, t \in Tokens : CommitRotation(c, t)
    BY <1>3, RotationExchanges DEF Session!Next
<1>4. CASE \E u \in Users, t \in Tokens : Login(u, t)
    BY <1>4, LoginOpens DEF Session!Next
<1>5. CASE UNCHANGED token
    BY <1>5, SessionsStay
<1> QED
    BY <1>1, <1>2, <1>3, <1>4, <1>5 DEF Next, RefreshStep, SessionStep, GetRefreshToken,
        LockUser, MarkRefreshTokenUsed, FindReuse, RevokeUserRefreshTokens, Rollback, vars

\* Refreshes are atomic to whoever holds tokens: a session that is open is worth
\* one token, which a refresh exchanges in one step; a revocation closes all
\* that its user has open, and a closed session stays closed.
THEOREM RefreshesAreAtomic == Spec => KeepsSessions
<1>1. Init => TargetsAreOwn
    BY DEF Init, TargetsAreOwn
<1>2. IInv /\ TargetsAreOwn /\ [Next]_vars => TargetsAreOwn'
    BY TargetsStep
<1> QED
    BY <1>1, <1>2, HoldersLive, SessionsInit, SessionsStep, Inductive, PTL
       DEF Spec, KeepsSessions, Session!Spec

==============================================================================
