------------------------------ MODULE OAuthTokens ------------------------------
(***************************************************************************)
(* The OAuth provider's storage (pkg/oauth/storage.go), the consent page   *)
(* (internal/handlers/oauth.go) and the registry of clients                *)
(* (pkg/oauth/dcr_register.go).  A client opens an authorization request,  *)
(* a user consents, the callback saves a code, the code is exchanged for a *)
(* row of oauth_tokens, and the refresh token of a row for the next row.   *)
(*                                                                         *)
(* The protocol itself is the zitadel/oidc library's, which calls the      *)
(* storage one statement at a time: an exchange reads the client, then the *)
(* code or the token, inserts the new row, and only afterwards deletes the *)
(* request and marks its codes; a refresh revokes the old row first.       *)
(* Exchanges of one grant overlap, fail and stop between any two of these. *)
(*                                                                         *)
(* A grant is what one request leads to: the rows that descend from it.    *)
(***************************************************************************)
EXTENDS Naturals, FiniteSets

CONSTANTS
    Clients, Users,
    Requests,     \* rows of oauth_auth_requests there can be
    Codes,        \* rows of oauth_authcodes
    Tokens,       \* rows of oauth_tokens
    Exchanges,    \* calls of the token endpoint under way at once
    None

ASSUME NoneAssumption == None \notin Clients \cup Users \cup Requests \cup Codes \cup Tokens
ASSUME KindsAssumption == Codes \cap Tokens = {}

VARIABLES
    clients,    \* "absent", "new", "old" (past DCRClientTTL) or "purged"
    reqState, reqClient, reqUser,
    offline,    \* the request asks for a refresh token
    codeState, codeReq,
    rowState, rowReq, rowUser,
    fresh,      \* the row's access token has not expired
    refresh,    \* the row has a refresh token
    job,        \* code or row each exchange presents
    step,       \* what the exchange does next
    user,       \* user the exchange read
    raced,      \* ghost: requests whose grant two exchanges held at once, or one left half-made
    ended       \* ghost: requests whose grant was revoked while no exchange held it

requests == <<reqState, reqClient, reqUser, offline>>
codes == <<codeState, codeReq>>
tokens == <<rowState, rowReq, rowUser, fresh, refresh>>
exchanges == <<job, step, user>>
ghosts == <<raced, ended>>
vars == <<clients, requests, codes, tokens, exchanges, ghosts>>

Init ==
    /\ clients = [i \in Clients |-> "absent"]
    /\ reqState = [r \in Requests |-> "absent"]
    /\ reqClient = [r \in Requests |-> None]
    /\ reqUser = [r \in Requests |-> None]
    /\ offline = [r \in Requests |-> FALSE]
    /\ codeState = [c \in Codes |-> "absent"]
    /\ codeReq = [c \in Codes |-> None]
    /\ rowState = [t \in Tokens |-> "absent"]
    /\ rowReq = [t \in Tokens |-> None]
    /\ rowUser = [t \in Tokens |-> None]
    /\ fresh = [t \in Tokens |-> FALSE]
    /\ refresh = [t \in Tokens |-> FALSE]
    /\ job = [e \in Exchanges |-> None]
    /\ step = [e \in Exchanges |-> "idle"]
    /\ user = [e \in Exchanges |-> None]
    /\ raced = {}
    /\ ended = {}

Known(i) == clients[i] \in {"new", "old"}

Live(t) == rowState[t] = "live"

Valid(t) == Live(t) /\ fresh[t]

Refreshable(t) == Live(t) /\ refresh[t]

Of(r) == {t \in Tokens : rowReq[t] = r}

\* The request behind a code or a token.
Origin(x) == IF x \in Codes THEN codeReq[x] ELSE rowReq[x]

\* Exchanges that present something of r, and those among them that were let through.
Presenting(r) == {e \in Exchanges : step[e] # "idle" /\ Origin(job[e]) = r}

Holding(r) == {e \in Presenting(r) : step[e] \notin {"readCode", "readToken"}}

-----------------------------------------------------------------------------
(* Clients.                                                                *)

Register(i) ==
    /\ clients[i] = "absent"
    /\ clients' = [clients EXCEPT ![i] = "new"]
    /\ UNCHANGED <<requests, codes, tokens, exchanges, ghosts>>

Age(i) ==
    /\ clients[i] = "new"
    /\ clients' = [clients EXCEPT ![i] = "old"]
    /\ UNCHANGED <<requests, codes, tokens, exchanges, ghosts>>

\* Mutant: the tokens of a client do not keep it.
OldClients == {i \in Clients : clients[i] = "old"}

\* Past the TTL and without an active token.
Stale == {i \in Clients :
            clients[i] = "old" /\ ~ \E t \in Tokens : Valid(t) /\ reqClient[rowReq[t]] = i}

\* PurgeStaleClients, one DELETE, before each registration.
Purge ==
    /\ Stale # {}
    /\ clients' = [i \in Clients |-> IF i \in Stale THEN "purged" ELSE clients[i]]
    /\ raced' = raced \cup {r \in Requests : reqClient[r] \in Stale /\ Presenting(r) # {}}
    /\ UNCHANGED <<requests, codes, tokens, exchanges, ended>>

-----------------------------------------------------------------------------
(* Authorization.                                                          *)

\* The scopes ask for a refresh token, or not.
CreateAuthRequest(r, i) ==
    /\ reqState[r] = "absent"
    /\ Known(i)
    /\ reqState' = [reqState EXCEPT ![r] = "open"]
    /\ reqClient' = [reqClient EXCEPT ![r] = i]
    /\ \E asked \in BOOLEAN : offline' = [offline EXCEPT ![r] = asked]
    /\ UNCHANGED <<clients, reqUser, codes, tokens, exchanges, ghosts>>

\* An UPDATE by id, whoever consented before.
CompleteAuthRequest(r, u) ==
    /\ reqState[r] \in {"open", "done"}
    /\ reqState' = [reqState EXCEPT ![r] = "done"]
    /\ reqUser' = [reqUser EXCEPT ![r] = u]
    /\ UNCHANGED <<clients, reqClient, offline, codes, tokens, exchanges, ghosts>>

\* The callback reads the request ...
Callback(c, r) ==
    /\ codeState[c] = "absent"
    /\ reqState[r] = "done"
    /\ codeState' = [codeState EXCEPT ![c] = "saving"]
    /\ codeReq' = [codeReq EXCEPT ![c] = r]
    /\ UNCHANGED <<clients, requests, tokens, exchanges, ghosts>>

\* ... and SaveAuthCode inserts, by now perhaps behind DeleteAuthRequest.
SaveAuthCode(c) ==
    /\ codeState[c] = "saving"
    /\ codeState' = [codeState EXCEPT ![c] = "live"]
    /\ UNCHANGED <<clients, requests, codeReq, tokens, exchanges, ghosts>>

\* An expired code is refused as a used one is.
ExpireCode(c) ==
    /\ codeState[c] = "live"
    /\ codeState' = [codeState EXCEPT ![c] = "used"]
    /\ UNCHANGED <<clients, requests, codeReq, tokens, exchanges, ghosts>>

-----------------------------------------------------------------------------
(* Exchanges.                                                              *)

\* GetClientByClientID, of the client that presents x.
Present(e, x, next) ==
    /\ step[e] = "idle"
    /\ Known(reqClient[Origin(x)])
    /\ job' = [job EXCEPT ![e] = x]
    /\ step' = [step EXCEPT ![e] = next]
    /\ UNCHANGED <<clients, requests, codes, tokens, user, ghosts>>

PresentCode(e, c) ==
    /\ codeState[c] \in {"live", "used"}
    /\ Present(e, c, "readCode")

\* A client knows its token once the exchange that inserted it has answered.
PresentToken(e, t) ==
    /\ refresh[t]
    /\ \A f \in Holding(rowReq[t]) : step[f] \notin {"delete", "mark"}
    /\ Present(e, t, "readToken")

Stop(e) ==
    /\ job' = [job EXCEPT ![e] = None]
    /\ step' = [step EXCEPT ![e] = "idle"]
    /\ user' = [user EXCEPT ![e] = None]

\* e goes on with what it read, as user u.
Admit(e, u, next) ==
    /\ user' = [user EXCEPT ![e] = u]
    /\ step' = [step EXCEPT ![e] = next]
    /\ raced' = IF Holding(Origin(job[e])) = {} THEN raced ELSE raced \cup {Origin(job[e])}
    /\ UNCHANGED <<clients, requests, codes, tokens, job, ended>>

Refuse(e) ==
    /\ Stop(e)
    /\ UNCHANGED <<clients, requests, codes, tokens, ghosts>>

\* The code is unused and its request there: two SELECTs, the second of which finds
\* nothing if DeleteAuthRequest has begun.  The request is the guard that matters: a code
\* saved behind the deletion stays unused, and leads nowhere.
CodeIsGood(c) ==
    /\ codeState[c] = "live"
    /\ reqState[codeReq[c]] \in {"open", "done"}

AuthRequestByCode(e) ==
    /\ step[e] = "readCode"
    /\ IF CodeIsGood(job[e]) THEN Admit(e, reqUser[Origin(job[e])], "issue")
                             ELSE Refuse(e)

\* Mutant: a revoked token refreshes.
KnownToken(t) == refresh[t]

\* The row is not revoked; expires_at is the access token's and is not looked at.
TokenIsGood(t) == Refreshable(t)

TokenRequestByRefreshToken(e) ==
    /\ step[e] = "readToken"
    /\ IF TokenIsGood(job[e]) THEN Admit(e, rowUser[job[e]], "rotate")
                              ELSE Refuse(e)

Insert(e, t) ==
    /\ rowState[t] = "absent"
    /\ rowState' = [rowState EXCEPT ![t] = "live"]
    /\ rowReq' = [rowReq EXCEPT ![t] = Origin(job[e])]
    /\ rowUser' = [rowUser EXCEPT ![t] = user[e]]
    /\ fresh' = [fresh EXCEPT ![t] = TRUE]
    /\ refresh' = [refresh EXCEPT ![t] = offline[Origin(job[e])]]

\* CreateAccessToken, or CreateAccessAndRefreshTokens of a code.
Issue(e, t) ==
    /\ step[e] = "issue"
    /\ Insert(e, t)
    /\ step' = [step EXCEPT ![e] = "delete"]
    /\ UNCHANGED <<clients, requests, codes, job, user, ghosts>>

\* Mutant: a used request is left where it is.
DeleteNothing(e) ==
    /\ step[e] = "delete"
    /\ step' = [step EXCEPT ![e] = "mark"]
    /\ UNCHANGED <<clients, requests, codes, tokens, job, user, ghosts>>

\* DeleteAuthRequest, the request first ...
DeleteAuthRequest(e) ==
    /\ step[e] = "delete"
    /\ reqState' = [reqState EXCEPT ![Origin(job[e])] = "deleted"]
    /\ step' = [step EXCEPT ![e] = "mark"]
    /\ UNCHANGED <<clients, reqClient, reqUser, offline, codes, tokens, job, user, ghosts>>

\* ... and then the codes that are in the table.
MarkCodes(e) ==
    /\ step[e] = "mark"
    /\ codeState' = [c \in Codes |->
                        IF codeReq[c] = Origin(job[e]) /\ codeState[c] = "live"
                        THEN "used" ELSE codeState[c]]
    /\ Stop(e)
    /\ UNCHANGED <<clients, requests, codeReq, tokens, ghosts>>

\* Mutant: the old row is revoked only if its access token has expired.
RotateExpired(e) ==
    /\ step[e] = "rotate"
    /\ rowState' = [rowState EXCEPT ![job[e]] = IF fresh[job[e]] THEN @ ELSE "revoked"]
    /\ step' = [step EXCEPT ![e] = "insert"]
    /\ UNCHANGED <<clients, requests, codes, rowReq, rowUser, fresh, refresh, job, user, ghosts>>

\* CreateAccessAndRefreshTokens of a refresh token revokes the old row, not looking
\* whether it did ...
Rotate(e) ==
    /\ step[e] = "rotate"
    /\ rowState' = [rowState EXCEPT ![job[e]] = "revoked"]
    /\ step' = [step EXCEPT ![e] = "insert"]
    /\ UNCHANGED <<clients, requests, codes, rowReq, rowUser, fresh, refresh, job, user, ghosts>>

\* ... nor whether it could ...
RotateFails(e) ==
    /\ step[e] = "rotate"
    /\ step' = [step EXCEPT ![e] = "insert"]
    /\ raced' = raced \cup {Origin(job[e])}
    /\ UNCHANGED <<clients, requests, codes, tokens, job, user, ended>>

\* Mutant: the new refresh token is not stored.
ReissueAccess(e, t) ==
    /\ step[e] = "insert"
    /\ rowState[t] = "absent"
    /\ rowState' = [rowState EXCEPT ![t] = "live"]
    /\ rowReq' = [rowReq EXCEPT ![t] = Origin(job[e])]
    /\ rowUser' = [rowUser EXCEPT ![t] = user[e]]
    /\ fresh' = [fresh EXCEPT ![t] = TRUE]
    /\ UNCHANGED refresh
    /\ Stop(e)
    /\ UNCHANGED <<clients, requests, codes, ghosts>>

\* ... and inserts the next.
Reissue(e, t) ==
    /\ step[e] = "insert"
    /\ Insert(e, t)
    /\ Stop(e)
    /\ UNCHANGED <<clients, requests, codes, ghosts>>

\* A statement fails, or the caller goes away.  What it leaves half-made: a row whose
\* request still stands, or a revoked row with no successor.
Abort(e) ==
    /\ step[e] # "idle"
    /\ raced' = IF step[e] \in {"delete", "insert"} THEN raced \cup {Origin(job[e])} ELSE raced
    /\ Stop(e)
    /\ UNCHANGED <<clients, requests, codes, tokens, ended>>

-----------------------------------------------------------------------------
(* The life of a row.                                                      *)

ExpireAccess(t) ==
    /\ Valid(t)
    /\ fresh' = [fresh EXCEPT ![t] = FALSE]
    /\ UNCHANGED <<clients, requests, codes, rowState, rowReq, rowUser, refresh, exchanges, ghosts>>

\* The rows of set T are revoked.
RevokeAll(T) ==
    LET touched == {rowReq[t] : t \in T}
    IN  /\ T # {}
        /\ rowState' = [t \in Tokens |-> IF t \in T THEN "revoked" ELSE rowState[t]]
        /\ raced' = raced \cup {r \in touched : Holding(r) # {}}
        /\ ended' = ended \cup {r \in touched : Holding(r) = {}}
        /\ UNCHANGED <<clients, requests, codes, rowReq, rowUser, fresh, refresh, exchanges>>

\* By the access or by the refresh token of the row.
RevokeToken(t) ==
    /\ Known(reqClient[rowReq[t]])
    /\ RevokeAll({t} \cap {x \in Tokens : Live(x)})

TerminateSession(u, i) ==
    /\ Known(i)
    /\ RevokeAll({t \in Tokens : /\ Live(t)
                                 /\ rowUser[t] = u
                                 /\ reqClient[rowReq[t]] = i})

Next ==
    \/ \E i \in Clients : Register(i) \/ Age(i)
    \/ Purge
    \/ \E r \in Requests :
          \/ \E i \in Clients : CreateAuthRequest(r, i)
          \/ \E u \in Users : CompleteAuthRequest(r, u)
          \/ \E c \in Codes : Callback(c, r)
    \/ \E c \in Codes : SaveAuthCode(c) \/ ExpireCode(c)
    \/ \E e \in Exchanges :
          \/ \E c \in Codes : PresentCode(e, c)
          \/ AuthRequestByCode(e)
          \/ DeleteAuthRequest(e) \/ MarkCodes(e)
          \/ TokenRequestByRefreshToken(e)
          \/ Rotate(e) \/ RotateFails(e)
          \/ \E t \in Tokens : PresentToken(e, t) \/ Issue(e, t) \/ Reissue(e, t)
          \/ Abort(e)
    \/ \E t \in Tokens : ExpireAccess(t) \/ (Live(t) /\ RevokeToken(t))
    \/ \E u \in Users, i \in Clients : TerminateSession(u, i)

Spec == Init /\ [][Next]_vars

-----------------------------------------------------------------------------
(* Properties.                                                             *)

TypeOK ==
    /\ clients \in [Clients -> {"absent", "new", "old", "purged"}]
    /\ reqState \in [Requests -> {"absent", "open", "done", "deleted"}]
    /\ reqClient \in [Requests -> Clients \cup {None}]
    /\ reqUser \in [Requests -> Users \cup {None}]
    /\ offline \in [Requests -> BOOLEAN]
    /\ codeState \in [Codes -> {"absent", "saving", "live", "used"}]
    /\ codeReq \in [Codes -> Requests \cup {None}]
    /\ rowState \in [Tokens -> {"absent", "live", "revoked"}]
    /\ rowReq \in [Tokens -> Requests \cup {None}]
    /\ rowUser \in [Tokens -> Users \cup {None}]
    /\ fresh \in [Tokens -> BOOLEAN]
    /\ refresh \in [Tokens -> BOOLEAN]
    /\ job \in [Exchanges -> Codes \cup Tokens \cup {None}]
    /\ step \in [Exchanges -> {"idle", "readCode", "readToken", "issue", "delete", "mark",
                               "rotate", "insert"}]
    /\ user \in [Exchanges -> Users \cup {None}]
    /\ raced \subseteq Requests
    /\ ended \subseteq Requests

\* ErrCodeUsed and 'rotation': whatever codes the callback saved for it, a grant has one
\* live row at most, unless two exchanges held it at once or one stopped half-way.
OneLiveRow ==
    \A r \in Requests \ raced : \A s, t \in Of(r) :
        Live(s) /\ Live(t) => s = t

\* A grant with a refresh token keeps one until it is revoked, with the same exceptions:
\* rotation replaces what it takes.
GrantSurvives ==
    \A r \in Requests \ (raced \cup ended) :
        (\E t \in Of(r) : refresh[t])
        => Holding(r) # {} \/ \E t \in Of(r) : Refreshable(t)

\* RevokeToken, TerminateSession: what was revoked has no row any more that could be
\* used or refreshed, and gets none by an exchange that comes later.
RevokedIsOver ==
    \A r \in ended \ raced : \A t \in Of(r) : rowState[t] # "live"

\* No code, and so no row, comes of a request nobody consented to.
RowHasUser == \A t \in Tokens : rowState[t] # "absent" => rowUser[t] \in Users

\* PurgeStaleClients 'n'affecte JAMAIS' a client with a live token, unless the token was
\* on its way.
ClientOfLiveRow ==
    \A t \in Tokens :
        Valid(t) /\ rowReq[t] \notin raced => Known(reqClient[rowReq[t]])
=============================================================================
