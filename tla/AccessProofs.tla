----------------------------- MODULE AccessProofs -----------------------------
(***************************************************************************)
(* Proofs about what lets in without a password: about OAuthTokens, the    *)
(* tokens of programs, and about AccountLinks, the links of members.       *)
(*                                                                         *)
(* For any numbers of clients, users, requests, codes, rows and exchanges, *)
(* the invariant of OAuthTokens says what the grant of a request outside   *)
(* raced looks like: without an exchange, and at each step of the one that *)
(* may hold it.  For any numbers of accounts, links and clicks, the one of *)
(* AccountLinks follows a sign-in link through the click that uses it up,  *)
(* and the other links, outside contested, through the one click that may  *)
(* be on them.                                                             *)
(***************************************************************************)
EXTENDS OAuthTokens, AccountLinks, TLAPS

\* What rows refer to.
RowInv ==
    /\ \A r \in Requests : reqState[r] # "absent" => reqClient[r] \in Clients
    /\ \A c \in Codes : codeState[c] # "absent" =>
          /\ codeReq[c] \in Requests
          /\ reqState[codeReq[c]] # "absent"
    /\ \A t \in Tokens : rowState[t] # "absent" =>
          /\ rowReq[t] \in Requests
          /\ reqState[rowReq[t]] # "absent"
          /\ refresh[t] = offline[rowReq[t]]
    /\ \A t \in Tokens : rowState[t] = "absent" =>
          rowReq[t] = None /\ ~ refresh[t] /\ ~ fresh[t]

\* What an exchange presents, by its step.
JobInv ==
    \A e \in Exchanges :
        /\ step[e] \in {"readCode", "issue", "delete", "mark"} =>
              job[e] \in Codes /\ codeState[job[e]] # "absent"
        /\ step[e] \in {"readToken", "rotate", "insert"} =>
              job[e] \in Tokens /\ refresh[job[e]]

\* Whose request, code, row or exchange it is.
UserInv ==
    /\ \A r \in Requests : reqState[r] \in {"done", "deleted"} => reqUser[r] \in Users
    /\ \A c \in Codes : codeState[c] # "absent" => reqUser[codeReq[c]] \in Users
    /\ \A e \in Exchanges : step[e] \notin {"idle", "readCode", "readToken"} => user[e] \in Users
    /\ RowHasUser

\* The grant of r at step st of the exchange e that holds it.
HeldGrant(r, e) ==
    /\ step[e] = "issue" =>
          reqState[r] \in {"open", "done"} /\ \A t \in Tokens : rowReq[t] # r
    /\ step[e] = "delete" => reqState[r] \in {"open", "done"}
    /\ step[e] = "mark" => reqState[r] = "deleted"
    /\ step[e] \in {"delete", "mark"} => \E t \in Tokens : rowReq[t] = r /\ Live(t)
    /\ step[e] \in {"rotate", "insert"} => reqState[r] = "deleted"
    /\ step[e] = "rotate" => Live(job[e])
    /\ step[e] = "insert" => \A t \in Tokens : rowReq[t] = r => ~ Live(t)

\* The grant of r while no exchange holds it.
FreeGrant(r) ==
    /\ (\E t \in Tokens : rowReq[t] = r) => reqState[r] = "deleted"
    /\ r \notin ended => \A s \in Tokens : rowReq[s] = r =>
                            \E t \in Tokens : rowReq[t] = r /\ Live(t)

Grant(r) ==
    /\ \A e, f \in Holding(r) : e = f
    /\ \A e \in Holding(r) : HeldGrant(r, e)
    /\ Holding(r) = {} => FreeGrant(r)
    /\ \A s, t \in Tokens : rowReq[s] = r /\ rowReq[t] = r /\ Live(s) /\ Live(t) => s = t
    /\ r \in ended =>
          /\ Holding(r) = {}
          /\ reqState[r] = "deleted"
          /\ \A t \in Tokens : rowReq[t] = r => ~ Live(t)

GrantInv == \A r \in Requests \ raced : Grant(r)

\* The client of r is there while r has an active row or an exchange.
ClientInv ==
    \A r \in Requests \ raced :
        Presenting(r) # {} \/ (\E t \in Tokens : rowReq[t] = r /\ Valid(t))
            => Known(reqClient[r])

IInv ==
    /\ TypeOK
    /\ RowInv
    /\ JobInv
    /\ UserInv
    /\ GrantInv
    /\ ClientInv

\* Nothing is there yet.
LEMMA InitInv == Init => IInv
  BY NoneAssumption DEF Init, IInv, TypeOK, Known, RowHasUser, RowInv, JobInv, UserInv,
     GrantInv, Grant, HeldGrant, FreeGrant, Live, Holding, Presenting, ClientInv, Valid

\* The steps there are: both revocations revoke some live rows.
LEMMA NextCases ==
    ASSUME [Next]_vars
    PROVE  \/ \E i \in Clients : Register(i) \/ Age(i)
           \/ Purge
           \/ \E r \in Requests, i \in Clients : CreateAuthRequest(r, i)
           \/ \E r \in Requests, u \in Users : CompleteAuthRequest(r, u)
           \/ \E r \in Requests, c \in Codes : Callback(c, r)
           \/ \E c \in Codes : SaveAuthCode(c) \/ ExpireCode(c)
           \/ \E e \in Exchanges, c \in Codes : PresentCode(e, c)
           \/ \E e \in Exchanges : AuthRequestByCode(e)
           \/ \E e \in Exchanges, t \in Tokens : Issue(e, t)
           \/ \E e \in Exchanges : DeleteAuthRequest(e)
           \/ \E e \in Exchanges : MarkCodes(e)
           \/ \E e \in Exchanges, t \in Tokens : PresentToken(e, t)
           \/ \E e \in Exchanges : TokenRequestByRefreshToken(e)
           \/ \E e \in Exchanges : Rotate(e)
           \/ \E e \in Exchanges : RotateFails(e)
           \/ \E e \in Exchanges, t \in Tokens : Reissue(e, t)
           \/ \E e \in Exchanges : Abort(e)
           \/ \E t \in Tokens : ExpireAccess(t)
           \/ (\E T \in SUBSET Tokens : T \subseteq {t \in Tokens : Live(t)} /\ RevokeAll(T))
           \/ UNCHANGED vars
<1>1. ASSUME NEW t \in Tokens, Live(t) /\ RevokeToken(t)
      PROVE  \E T \in SUBSET Tokens :
                T \subseteq {x \in Tokens : Live(x)} /\ RevokeAll(T)
  BY <1>1 DEF RevokeToken
<1>2. ASSUME NEW u \in Users, NEW i \in Clients, TerminateSession(u, i)
      PROVE  \E T \in SUBSET Tokens :
                T \subseteq {x \in Tokens : Live(x)} /\ RevokeAll(T)
  <2> DEFINE S == {t \in Tokens : /\ Live(t)
                                  /\ rowUser[t] = u
                                  /\ reqClient[rowReq[t]] = i}
  <2>1. S \in SUBSET Tokens /\ S \subseteq {x \in Tokens : Live(x)}
    OBVIOUS
  <2>2. RevokeAll(S)
    BY <1>2 DEF TerminateSession
  <2> QED
    BY <2>1, <2>2
<1> QED
  BY <1>1, <1>2 DEF Next

\* The types, for every step.
LEMMA TypeStep == TypeOK /\ RowInv /\ JobInv /\ [Next]_vars => TypeOK'
<1> SUFFICES ASSUME TypeOK, RowInv, JobInv, [Next]_vars
             PROVE  TypeOK'
  OBVIOUS
<1> USE NoneAssumption, KindsAssumption DEF TypeOK, RowInv, JobInv, Origin, requests,
    codes, tokens, exchanges, ghosts
<1>1. CASE \E i \in Clients : Register(i) \/ Age(i)
  BY <1>1 DEF Register, Age
<1>2. CASE Purge
  BY <1>2 DEF Purge, Stale
<1>3. CASE \E r \in Requests, i \in Clients : CreateAuthRequest(r, i)
  BY <1>3 DEF CreateAuthRequest
<1>4. CASE \E r \in Requests, u \in Users : CompleteAuthRequest(r, u)
  BY <1>4 DEF CompleteAuthRequest
<1>5. CASE \E r \in Requests, c \in Codes : Callback(c, r)
  BY <1>5 DEF Callback
<1>6. CASE \E c \in Codes : SaveAuthCode(c) \/ ExpireCode(c)
  BY <1>6 DEF SaveAuthCode, ExpireCode
<1>7. CASE \E e \in Exchanges, c \in Codes : PresentCode(e, c)
  BY <1>7 DEF PresentCode, Present
<1>8. CASE \E e \in Exchanges : AuthRequestByCode(e)
  BY <1>8 DEF AuthRequestByCode, CodeIsGood, Admit, Refuse, Stop
<1>9. CASE \E e \in Exchanges, t \in Tokens : Issue(e, t)
  BY <1>9 DEF Issue, Insert
<1>10. CASE \E e \in Exchanges : DeleteAuthRequest(e)
  BY <1>10 DEF DeleteAuthRequest
<1>11. CASE \E e \in Exchanges : MarkCodes(e)
  BY <1>11 DEF MarkCodes, Stop
<1>12. CASE \E e \in Exchanges, t \in Tokens : PresentToken(e, t)
  BY <1>12 DEF PresentToken, Present
<1>13. CASE \E e \in Exchanges : TokenRequestByRefreshToken(e)
  BY <1>13 DEF TokenRequestByRefreshToken, TokenIsGood, Refreshable, Admit, Refuse, Stop
<1>14. CASE \E e \in Exchanges : Rotate(e)
  BY <1>14 DEF Rotate
<1>15. CASE \E e \in Exchanges : RotateFails(e)
  BY <1>15 DEF RotateFails
<1>16. CASE \E e \in Exchanges, t \in Tokens : Reissue(e, t)
  BY <1>16 DEF Reissue, Insert, Stop
<1>17. CASE \E e \in Exchanges : Abort(e)
  BY <1>17 DEF Abort, Stop
<1>18. CASE \E t \in Tokens : ExpireAccess(t)
  BY <1>18 DEF ExpireAccess
<1>19. CASE \E T \in SUBSET Tokens : T \subseteq {t \in Tokens : Live(t)} /\ RevokeAll(T)
  <2>1. PICK T \in SUBSET Tokens : T \subseteq {t \in Tokens : Live(t)} /\ RevokeAll(T)
    BY <1>19
  <2>2. rowState' \in [Tokens -> {"absent", "live", "revoked"}]
    BY <2>1 DEF RevokeAll
  <2>3. raced' \subseteq Requests /\ ended' \subseteq Requests
    <3> DEFINE touched == {rowReq[t] : t \in T}
    <3>1. touched \subseteq Requests
      BY <2>1 DEF Live
    <3>2. raced' \subseteq raced \cup touched /\ ended' \subseteq ended \cup touched
      BY <2>1 DEF RevokeAll
    <3> QED
      BY <3>1, <3>2
  <2> QED
    BY <2>1, <2>2, <2>3 DEF RevokeAll
<1>20. CASE UNCHANGED vars
  BY <1>20 DEF vars
<1> QED
  BY <1>1, <1>2, <1>3, <1>4, <1>5, <1>6, <1>7, <1>8, <1>9, <1>10, <1>11, <1>12, <1>13,
     <1>14, <1>15, <1>16, <1>17, <1>18, <1>19, <1>20, NextCases

\* Rows keep what they refer to.
LEMMA RowStep == TypeOK /\ RowInv /\ JobInv /\ TypeOK' /\ [Next]_vars => RowInv'
<1> SUFFICES ASSUME TypeOK, RowInv, JobInv, TypeOK', [Next]_vars
             PROVE  RowInv'
  OBVIOUS
<1> USE NoneAssumption, KindsAssumption DEF TypeOK, Origin, requests, codes, tokens,
    exchanges, ghosts, RowInv, JobInv
<1>1. CASE \E i \in Clients : Register(i) \/ Age(i)
  BY <1>1 DEF Register, Age
<1>2. CASE Purge
  BY <1>2 DEF Purge, Stale
<1>3. CASE \E r \in Requests, i \in Clients : CreateAuthRequest(r, i)
  BY <1>3 DEF CreateAuthRequest
<1>4. CASE \E r \in Requests, u \in Users : CompleteAuthRequest(r, u)
  BY <1>4 DEF CompleteAuthRequest
<1>5. CASE \E r \in Requests, c \in Codes : Callback(c, r)
  BY <1>5 DEF Callback
<1>6. CASE \E c \in Codes : SaveAuthCode(c) \/ ExpireCode(c)
  BY <1>6 DEF SaveAuthCode, ExpireCode
<1>7. CASE \E e \in Exchanges, c \in Codes : PresentCode(e, c)
  BY <1>7 DEF PresentCode, Present
<1>8. CASE \E e \in Exchanges : AuthRequestByCode(e)
  BY <1>8 DEF AuthRequestByCode, CodeIsGood, Admit, Refuse, Stop
<1>9. CASE \E e \in Exchanges, t \in Tokens : Issue(e, t)
  BY <1>9 DEF Issue, Insert
<1>10. CASE \E e \in Exchanges : DeleteAuthRequest(e)
  BY <1>10 DEF DeleteAuthRequest
<1>11. CASE \E e \in Exchanges : MarkCodes(e)
  BY <1>11 DEF MarkCodes, Stop
<1>12. CASE \E e \in Exchanges, t \in Tokens : PresentToken(e, t)
  BY <1>12 DEF PresentToken, Present
<1>13. CASE \E e \in Exchanges : TokenRequestByRefreshToken(e)
  BY <1>13 DEF TokenRequestByRefreshToken, TokenIsGood, Refreshable, Admit, Refuse, Stop
<1>14. CASE \E e \in Exchanges : Rotate(e)
  BY <1>14 DEF Rotate
<1>15. CASE \E e \in Exchanges : RotateFails(e)
  BY <1>15 DEF RotateFails
<1>16. CASE \E e \in Exchanges, t \in Tokens : Reissue(e, t)
  BY <1>16 DEF Reissue, Insert, Stop
<1>17. CASE \E e \in Exchanges : Abort(e)
  BY <1>17 DEF Abort, Stop
<1>18. CASE \E t \in Tokens : ExpireAccess(t)
  BY <1>18 DEF ExpireAccess
<1>19. CASE \E T \in SUBSET Tokens : T \subseteq {t \in Tokens : Live(t)} /\ RevokeAll(T)
  BY <1>19 DEF RevokeAll
<1>20. CASE UNCHANGED vars
  BY <1>20 DEF vars
<1> QED
  BY <1>1, <1>2, <1>3, <1>4, <1>5, <1>6, <1>7, <1>8, <1>9, <1>10, <1>11, <1>12, <1>13,
     <1>14, <1>15, <1>16, <1>17, <1>18, <1>19, <1>20, NextCases

\* Exchanges present codes and rows that are there.
LEMMA JobStep == TypeOK /\ RowInv /\ JobInv /\ TypeOK' /\ [Next]_vars => JobInv'
<1> SUFFICES ASSUME TypeOK, RowInv, JobInv, TypeOK', [Next]_vars
             PROVE  JobInv'
  OBVIOUS
<1> USE NoneAssumption, KindsAssumption DEF TypeOK, Origin, requests, codes, tokens,
    exchanges, ghosts, RowInv, JobInv, Refreshable, Live
<1>1. CASE \E i \in Clients : Register(i) \/ Age(i)
  BY <1>1 DEF Register, Age
<1>2. CASE Purge
  BY <1>2 DEF Purge, Stale
<1>3. CASE \E r \in Requests, i \in Clients : CreateAuthRequest(r, i)
  BY <1>3 DEF CreateAuthRequest
<1>4. CASE \E r \in Requests, u \in Users : CompleteAuthRequest(r, u)
  BY <1>4 DEF CompleteAuthRequest
<1>5. CASE \E r \in Requests, c \in Codes : Callback(c, r)
  BY <1>5 DEF Callback
<1>6. CASE \E c \in Codes : SaveAuthCode(c) \/ ExpireCode(c)
  BY <1>6 DEF SaveAuthCode, ExpireCode
<1>7. CASE \E e \in Exchanges, c \in Codes : PresentCode(e, c)
  BY <1>7 DEF PresentCode, Present
<1>8. CASE \E e \in Exchanges : AuthRequestByCode(e)
  BY <1>8 DEF AuthRequestByCode, CodeIsGood, Admit, Refuse, Stop
<1>9. CASE \E e \in Exchanges, t \in Tokens : Issue(e, t)
  BY <1>9 DEF Issue, Insert
<1>10. CASE \E e \in Exchanges : DeleteAuthRequest(e)
  BY <1>10 DEF DeleteAuthRequest
<1>11. CASE \E e \in Exchanges : MarkCodes(e)
  BY <1>11 DEF MarkCodes, Stop
<1>12. CASE \E e \in Exchanges, t \in Tokens : PresentToken(e, t)
  BY <1>12 DEF PresentToken, Present
<1>13. CASE \E e \in Exchanges : TokenRequestByRefreshToken(e)
  BY <1>13 DEF TokenRequestByRefreshToken, TokenIsGood, Refreshable, Admit, Refuse, Stop
<1>14. CASE \E e \in Exchanges : Rotate(e)
  BY <1>14 DEF Rotate
<1>15. CASE \E e \in Exchanges : RotateFails(e)
  BY <1>15 DEF RotateFails
<1>16. CASE \E e \in Exchanges, t \in Tokens : Reissue(e, t)
  BY <1>16 DEF Reissue, Insert, Stop
<1>17. CASE \E e \in Exchanges : Abort(e)
  BY <1>17 DEF Abort, Stop
<1>18. CASE \E t \in Tokens : ExpireAccess(t)
  BY <1>18 DEF ExpireAccess
<1>19. CASE \E T \in SUBSET Tokens : T \subseteq {t \in Tokens : Live(t)} /\ RevokeAll(T)
  BY <1>19 DEF RevokeAll
<1>20. CASE UNCHANGED vars
  BY <1>20 DEF vars
<1> QED
  BY <1>1, <1>2, <1>3, <1>4, <1>5, <1>6, <1>7, <1>8, <1>9, <1>10, <1>11, <1>12, <1>13,
     <1>14, <1>15, <1>16, <1>17, <1>18, <1>19, <1>20, NextCases

\* Whoever is read has consented.
LEMMA UserStep == TypeOK /\ RowInv /\ JobInv /\ UserInv /\ TypeOK' /\ [Next]_vars => UserInv'
<1> SUFFICES ASSUME TypeOK, RowInv, JobInv, UserInv, TypeOK', [Next]_vars
             PROVE  UserInv'
  OBVIOUS
<1> USE NoneAssumption, KindsAssumption DEF TypeOK, Origin, requests, codes, tokens,
    exchanges, ghosts, RowInv, JobInv, UserInv, RowHasUser
<1>1. CASE \E i \in Clients : Register(i) \/ Age(i)
  BY <1>1 DEF Register, Age
<1>2. CASE Purge
  BY <1>2 DEF Purge, Stale
<1>3. CASE \E r \in Requests, i \in Clients : CreateAuthRequest(r, i)
  BY <1>3 DEF CreateAuthRequest
<1>4. CASE \E r \in Requests, u \in Users : CompleteAuthRequest(r, u)
  BY <1>4 DEF CompleteAuthRequest
<1>5. CASE \E r \in Requests, c \in Codes : Callback(c, r)
  BY <1>5 DEF Callback
<1>6. CASE \E c \in Codes : SaveAuthCode(c) \/ ExpireCode(c)
  BY <1>6 DEF SaveAuthCode, ExpireCode
<1>7. CASE \E e \in Exchanges, c \in Codes : PresentCode(e, c)
  BY <1>7 DEF PresentCode, Present
<1>8. CASE \E e \in Exchanges : AuthRequestByCode(e)
  BY <1>8 DEF AuthRequestByCode, CodeIsGood, Admit, Refuse, Stop
<1>9. CASE \E e \in Exchanges, t \in Tokens : Issue(e, t)
  BY <1>9 DEF Issue, Insert
<1>10. CASE \E e \in Exchanges : DeleteAuthRequest(e)
  BY <1>10 DEF DeleteAuthRequest
<1>11. CASE \E e \in Exchanges : MarkCodes(e)
  BY <1>11 DEF MarkCodes, Stop
<1>12. CASE \E e \in Exchanges, t \in Tokens : PresentToken(e, t)
  BY <1>12 DEF PresentToken, Present
<1>13. CASE \E e \in Exchanges : TokenRequestByRefreshToken(e)
  BY <1>13 DEF TokenRequestByRefreshToken, TokenIsGood, Refreshable, Admit, Refuse, Stop
<1>14. CASE \E e \in Exchanges : Rotate(e)
  BY <1>14 DEF Rotate
<1>15. CASE \E e \in Exchanges : RotateFails(e)
  BY <1>15 DEF RotateFails
<1>16. CASE \E e \in Exchanges, t \in Tokens : Reissue(e, t)
  BY <1>16 DEF Reissue, Insert, Stop
<1>17. CASE \E e \in Exchanges : Abort(e)
  BY <1>17 DEF Abort, Stop
<1>18. CASE \E t \in Tokens : ExpireAccess(t)
  BY <1>18 DEF ExpireAccess
<1>19. CASE \E T \in SUBSET Tokens : T \subseteq {t \in Tokens : Live(t)} /\ RevokeAll(T)
  BY <1>19 DEF RevokeAll
<1>20. CASE UNCHANGED vars
  BY <1>20 DEF vars
<1> QED
  BY <1>1, <1>2, <1>3, <1>4, <1>5, <1>6, <1>7, <1>8, <1>9, <1>10, <1>11, <1>12, <1>13,
     <1>14, <1>15, <1>16, <1>17, <1>18, <1>19, <1>20, NextCases

\* A grant is as it was if its rows, its request and whoever holds it are.
LEMMA SameGrant ==
    ASSUME NEW r \in Requests, r \notin raced, GrantInv,
           UNCHANGED <<requests, tokens, ended>>, Holding(r)' = Holding(r),
           \A h \in Holding(r) : UNCHANGED <<step[h], job[h]>>
    PROVE  Grant(r)'
  BY DEF requests, tokens, GrantInv, Grant, HeldGrant, FreeGrant, Live

\* The grant of each request, for every step.
LEMMA GrantStep == TypeOK /\ RowInv /\ JobInv /\ GrantInv /\ TypeOK' /\ [Next]_vars => GrantInv'
<1> SUFFICES ASSUME TypeOK, RowInv, JobInv, GrantInv, TypeOK', [Next]_vars
             PROVE  GrantInv'
  OBVIOUS
<1> USE NoneAssumption, KindsAssumption DEF TypeOK, Origin, requests, codes, tokens,
    exchanges, ghosts, RowInv, JobInv, GrantInv, Grant, HeldGrant, FreeGrant, Live,
    Holding, Presenting
<1>1. CASE \E i \in Clients : Register(i) \/ Age(i)
  BY <1>1 DEF Register, Age
<1>2. CASE Purge
  BY <1>2 DEF Purge, Stale
<1>3. CASE \E r \in Requests, i \in Clients : CreateAuthRequest(r, i)
  BY <1>3 DEF CreateAuthRequest
<1>4. CASE \E r \in Requests, u \in Users : CompleteAuthRequest(r, u)
  BY <1>4 DEF CompleteAuthRequest
<1>5. CASE \E r \in Requests, c \in Codes : Callback(c, r)
  BY <1>5 DEF Callback
<1>6. CASE \E c \in Codes : SaveAuthCode(c) \/ ExpireCode(c)
  BY <1>6 DEF SaveAuthCode, ExpireCode
<1>7. CASE \E e \in Exchanges, c \in Codes : PresentCode(e, c)
  BY <1>7 DEF PresentCode, Present
<1>8. CASE \E e \in Exchanges : AuthRequestByCode(e)
  <2> SUFFICES ASSUME NEW e \in Exchanges, AuthRequestByCode(e), NEW r \in Requests \ raced'
               PROVE  Grant(r)'
    BY <1>8
  <2> USE DEF AuthRequestByCode
  <2>1. CASE ~ CodeIsGood(job[e])
    <3>1. r \notin raced /\ UNCHANGED <<requests, tokens, ended>>
      BY <2>1 DEF Refuse
    <3>2. Holding(r)' = Holding(r) /\ \A h \in Holding(r) : UNCHANGED <<step[h], job[h]>>
      BY <2>1 DEF Refuse, Stop
    <3> QED
      BY <3>1, <3>2, SameGrant
  <2>2. CASE CodeIsGood(job[e]) /\ Origin(job[e]) # r
    <3>1. r \notin raced /\ UNCHANGED <<requests, tokens, ended>>
      BY <2>2 DEF Admit
    <3>2. Holding(r)' = Holding(r) /\ \A h \in Holding(r) : UNCHANGED <<step[h], job[h]>>
      BY <2>2 DEF Admit
    <3> QED
      BY <3>1, <3>2, SameGrant
  <2>3. CASE CodeIsGood(job[e]) /\ Origin(job[e]) = r
    <3>1. Holding(r) = {} /\ r \notin raced
      BY <2>3 DEF Admit
    <3>2. Holding(r)' = {e}
      BY <2>3, <3>1 DEF Admit
    <3>3. r \notin ended /\ \A t \in Tokens : rowReq[t] # r
      BY <2>3, <3>1 DEF CodeIsGood
    <3>4. HeldGrant(r, e)'
      BY <2>3, <3>3 DEF Admit, CodeIsGood
    <3> QED
      BY <2>3, <3>1, <3>2, <3>3, <3>4 DEF Admit
  <2> QED
    BY <2>1, <2>2, <2>3
<1>9. CASE \E e \in Exchanges, t \in Tokens : Issue(e, t)
  BY <1>9 DEF Issue, Insert
<1>10. CASE \E e \in Exchanges : DeleteAuthRequest(e)
  BY <1>10 DEF DeleteAuthRequest
<1>11. CASE \E e \in Exchanges : MarkCodes(e)
  <2> SUFFICES ASSUME NEW e \in Exchanges, MarkCodes(e), NEW r \in Requests \ raced
               PROVE  Grant(r)'
    BY <1>11 DEF MarkCodes
  <2> USE DEF MarkCodes, Stop
  <2>1. CASE Origin(job[e]) # r
    <3>1. Holding(r)' = Holding(r) /\ \A h \in Holding(r) : UNCHANGED <<step[h], job[h]>>
      BY <2>1
    <3> QED
      BY <3>1, SameGrant
  <2>2. CASE Origin(job[e]) = r
    <3>1. Holding(r) = {e} /\ r \notin ended
      BY <2>2
    <3>2. Holding(r)' = {}
      BY <3>1
    <3>3. reqState[r] = "deleted" /\ \E t \in Tokens : rowReq[t] = r /\ Live(t)
      BY <3>1
    <3>4. FreeGrant(r)'
      BY <3>3
    <3> QED
      BY <3>1, <3>2, <3>4
  <2> QED
    BY <2>1, <2>2
<1>12. CASE \E e \in Exchanges, t \in Tokens : PresentToken(e, t)
  BY <1>12 DEF PresentToken, Present
<1>13. CASE \E e \in Exchanges : TokenRequestByRefreshToken(e)
  <2> SUFFICES ASSUME NEW e \in Exchanges, TokenRequestByRefreshToken(e), NEW r \in Requests \ raced'
               PROVE  Grant(r)'
    BY <1>13
  <2> USE DEF TokenRequestByRefreshToken, TokenIsGood, Refreshable
  <2>1. CASE ~ TokenIsGood(job[e])
    <3>1. r \notin raced /\ UNCHANGED <<requests, tokens, ended>>
      BY <2>1 DEF Refuse
    <3>2. Holding(r)' = Holding(r) /\ \A h \in Holding(r) : UNCHANGED <<step[h], job[h]>>
      BY <2>1 DEF Refuse, Stop
    <3> QED
      BY <3>1, <3>2, SameGrant
  <2>2. CASE TokenIsGood(job[e]) /\ Origin(job[e]) # r
    <3>1. r \notin raced /\ UNCHANGED <<requests, tokens, ended>>
      BY <2>2 DEF Admit
    <3>2. Holding(r)' = Holding(r) /\ \A h \in Holding(r) : UNCHANGED <<step[h], job[h]>>
      BY <2>2 DEF Admit
    <3> QED
      BY <3>1, <3>2, SameGrant
  <2>3. CASE TokenIsGood(job[e]) /\ Origin(job[e]) = r
    <3>1. Holding(r) = {} /\ r \notin raced
      BY <2>3 DEF Admit
    <3>2. Holding(r)' = {e}
      BY <2>3, <3>1 DEF Admit
    <3>3. r \notin ended /\ reqState[r] = "deleted"
      BY <2>3, <3>1
    <3>4. HeldGrant(r, e)'
      BY <2>3, <3>3 DEF Admit
    <3> QED
      BY <2>3, <3>1, <3>2, <3>3, <3>4 DEF Admit
  <2> QED
    BY <2>1, <2>2, <2>3
<1>14. CASE \E e \in Exchanges : Rotate(e)
  BY <1>14 DEF Rotate
<1>15. CASE \E e \in Exchanges : RotateFails(e)
  BY <1>15 DEF RotateFails
<1>16. CASE \E e \in Exchanges, t \in Tokens : Reissue(e, t)
  <2> SUFFICES ASSUME NEW e \in Exchanges, NEW t \in Tokens, Reissue(e, t),
                      NEW r \in Requests \ raced
               PROVE  Grant(r)'
    BY <1>16 DEF Reissue
  <2> USE DEF Reissue, Insert, Stop
  <2>1. rowReq[t] # r /\ \A s \in Tokens \ {t} : UNCHANGED <<rowState[s], rowReq[s]>>
    OBVIOUS
  <2>2. CASE Origin(job[e]) # r
    <3>1. Holding(r)' = Holding(r) /\ \A h \in Holding(r) : UNCHANGED <<step[h], job[h]>>
      <4>1. \A h \in Exchanges : step[h] # "idle" => job[h] # t
        OBVIOUS
      <4>2. \A h \in Exchanges \ {e} :
               UNCHANGED <<step[h], job[h]>> /\ (step[h] # "idle" => Origin(job[h])' = Origin(job[h]))
        BY <4>1
      <4>3. e \notin Holding(r) /\ e \notin Holding(r)'
        BY <2>2
      <4> QED
        BY <4>2, <4>3
    <3>2. \A s \in Tokens : /\ rowReq'[s] = r <=> rowReq[s] = r
                          /\ rowReq[s] = r => Live(s)' = Live(s)
      BY <2>1, <2>2
    <3>3. \A h \in Holding(r) : HeldGrant(r, h)'
      <4> SUFFICES ASSUME NEW h \in Holding(r) PROVE HeldGrant(r, h)'
        OBVIOUS
      <4>1. HeldGrant(r, h) /\ UNCHANGED <<step[h], job[h]>>
        BY <3>1
      <4>2. step[h] = "rotate" => job[h] \in Tokens /\ rowReq[job[h]] = r
        OBVIOUS
      <4> QED
        BY <3>2, <4>1, <4>2
    <3>4. Holding(r) = {} => FreeGrant(r)'
      BY <3>2
    <3> QED
      BY <3>1, <3>2, <3>3, <3>4
  <2>3. CASE Origin(job[e]) = r
    <3>1. Holding(r) = {e} /\ r \notin ended
      BY <2>3
    <3>2. Holding(r)' = {}
      BY <3>1
    <3>3. reqState[r] = "deleted" /\ \A s \in Tokens : rowReq[s] = r => ~ Live(s)
      BY <3>1
    <3>4. FreeGrant(r)'
      BY <2>3, <3>3
    <3>5. \A s \in Tokens : rowReq'[s] = r /\ Live(s)' => s = t
      BY <2>1, <3>3
    <3> QED
      BY <3>1, <3>2, <3>4, <3>5
  <2> QED
    BY <2>2, <2>3
<1>17. CASE \E e \in Exchanges : Abort(e)
  BY <1>17 DEF Abort, Stop
<1>18. CASE \E t \in Tokens : ExpireAccess(t)
  BY <1>18 DEF ExpireAccess
<1>19. CASE \E T \in SUBSET Tokens : T \subseteq {t \in Tokens : Live(t)} /\ RevokeAll(T)
  BY <1>19 DEF RevokeAll
<1>20. CASE UNCHANGED vars
  BY <1>20 DEF vars
<1> QED
  BY <1>1, <1>2, <1>3, <1>4, <1>5, <1>6, <1>7, <1>8, <1>9, <1>10, <1>11, <1>12, <1>13,
     <1>14, <1>15, <1>16, <1>17, <1>18, <1>19, <1>20, NextCases

\* Clients stay while they are needed.
LEMMA ClientStep == TypeOK /\ RowInv /\ JobInv /\ ClientInv /\ TypeOK' /\ [Next]_vars => ClientInv'
<1> SUFFICES ASSUME TypeOK, RowInv, JobInv, ClientInv, TypeOK', [Next]_vars
             PROVE  ClientInv'
  OBVIOUS
<1> USE NoneAssumption, KindsAssumption DEF TypeOK, Origin, requests, codes, tokens,
    exchanges, ghosts, RowInv, JobInv, ClientInv, Known, Valid, Live, Holding, Presenting,
    Refreshable
<1>1. CASE \E i \in Clients : Register(i) \/ Age(i)
  BY <1>1 DEF Register, Age
<1>2. CASE Purge
  BY <1>2 DEF Purge, Stale
<1>3. CASE \E r \in Requests, i \in Clients : CreateAuthRequest(r, i)
  BY <1>3 DEF CreateAuthRequest
<1>4. CASE \E r \in Requests, u \in Users : CompleteAuthRequest(r, u)
  BY <1>4 DEF CompleteAuthRequest
<1>5. CASE \E r \in Requests, c \in Codes : Callback(c, r)
  BY <1>5 DEF Callback
<1>6. CASE \E c \in Codes : SaveAuthCode(c) \/ ExpireCode(c)
  BY <1>6 DEF SaveAuthCode, ExpireCode
<1>7. CASE \E e \in Exchanges, c \in Codes : PresentCode(e, c)
  BY <1>7 DEF PresentCode, Present
<1>8. CASE \E e \in Exchanges : AuthRequestByCode(e)
  BY <1>8 DEF AuthRequestByCode, CodeIsGood, Admit, Refuse, Stop
<1>9. CASE \E e \in Exchanges, t \in Tokens : Issue(e, t)
  BY <1>9 DEF Issue, Insert
<1>10. CASE \E e \in Exchanges : DeleteAuthRequest(e)
  BY <1>10 DEF DeleteAuthRequest
<1>11. CASE \E e \in Exchanges : MarkCodes(e)
  BY <1>11 DEF MarkCodes, Stop
<1>12. CASE \E e \in Exchanges, t \in Tokens : PresentToken(e, t)
  BY <1>12 DEF PresentToken, Present
<1>13. CASE \E e \in Exchanges : TokenRequestByRefreshToken(e)
  BY <1>13 DEF TokenRequestByRefreshToken, TokenIsGood, Refreshable, Admit, Refuse, Stop
<1>14. CASE \E e \in Exchanges : Rotate(e)
  BY <1>14 DEF Rotate
<1>15. CASE \E e \in Exchanges : RotateFails(e)
  BY <1>15 DEF RotateFails
<1>16. CASE \E e \in Exchanges, t \in Tokens : Reissue(e, t)
  BY <1>16 DEF Reissue, Insert, Stop
<1>17. CASE \E e \in Exchanges : Abort(e)
  BY <1>17 DEF Abort, Stop
<1>18. CASE \E t \in Tokens : ExpireAccess(t)
  BY <1>18 DEF ExpireAccess
<1>19. CASE \E T \in SUBSET Tokens : T \subseteq {t \in Tokens : Live(t)} /\ RevokeAll(T)
  BY <1>19 DEF RevokeAll
<1>20. CASE UNCHANGED vars
  BY <1>20 DEF vars
<1> QED
  BY <1>1, <1>2, <1>3, <1>4, <1>5, <1>6, <1>7, <1>8, <1>9, <1>10, <1>11, <1>12, <1>13,
     <1>14, <1>15, <1>16, <1>17, <1>18, <1>19, <1>20, NextCases

\* The invariant is inductive ...
LEMMA Inductive == Spec => []IInv
<1>1. IInv /\ [Next]_vars => IInv'
  BY TypeStep, RowStep, JobStep, UserStep, GrantStep, ClientStep DEF IInv
<1> QED
  BY InitInv, <1>1, PTL DEF Spec

\* Type correctness of the storage and of the token endpoint.
THEOREM TypeCorrect == Spec => []TypeOK
<1>1. IInv => TypeOK
  BY DEF IInv
<1> QED
  BY Inductive, <1>1, PTL

\* ErrCodeUsed and the rotation of CreateAccessAndRefreshTokens: a grant that no two
\* exchanges held at once, and none left half-made, has one live row at most.
THEOREM OneRowPerGrant == Spec => []OneLiveRow
<1>1. IInv => OneLiveRow
  BY DEF IInv, GrantInv, Grant, OneLiveRow, Of
<1> QED
  BY Inductive, <1>1, PTL

\* Rotation replaces what it takes: such a grant keeps a refresh token until revoked.
THEOREM GrantsSurvive == Spec => []GrantSurvives
<1>1. IInv => GrantSurvives
  <2> SUFFICES ASSUME IInv, NEW r \in Requests \ (raced \cup ended), Holding(r) = {},
                      NEW s \in Of(r), refresh[s]
               PROVE  \E t \in Of(r) : Refreshable(t)
    BY DEF GrantSurvives
  <2>1. PICK t \in Tokens : rowReq[t] = r /\ Live(t)
    BY DEF IInv, GrantInv, Grant, FreeGrant, Of
  <2>2. refresh[s] = offline[r] /\ refresh[t] = offline[r]
    BY <2>1 DEF IInv, RowInv, Of, Live
  <2> QED
    BY <2>1, <2>2 DEF Of, Refreshable
<1> QED
  BY Inductive, <1>1, PTL

\* RevokeToken and TerminateSession end a grant for good.
THEOREM RevocationHolds == Spec => []RevokedIsOver
<1>1. IInv => RevokedIsOver
  BY DEF IInv, TypeOK, GrantInv, Grant, RevokedIsOver, Of, Live
<1> QED
  BY Inductive, <1>1, PTL

\* No row without the consent of CompleteAuthRequest.
THEOREM RowsHaveUsers == Spec => []RowHasUser
<1>1. IInv => RowHasUser
  BY DEF IInv, UserInv
<1> QED
  BY Inductive, <1>1, PTL

\* PurgeStaleClients leaves the clients of active rows.
THEOREM ClientsStay == Spec => []ClientOfLiveRow
<1>1. IInv => ClientOfLiveRow
  BY DEF IInv, RowInv, ClientInv, ClientOfLiveRow, Valid, Live
<1> QED
  BY Inductive, <1>1, PTL

-----------------------------------------------------------------------------
(* AccountLinks.                                                           *)

\* What a click holds.  Only one click has used up a sign-in link.
ClickInv ==
  /\ \A k \in Clicks : stage[k] = "idle" <=> on[k] = NoLink
  /\ \A k \in Clicks : stage[k] # "idle" => state[on[k]] # "absent"
  /\ \A k \in Clicks : stage[k] \in {"taken", "refused"} =>
        kind[on[k]] = "magic" /\ state[on[k]] = "used" /\ served[on[k]] = "no"
  /\ \A j, k \in Clicks :
        on[j] = on[k] /\ stage[j] \in {"taken", "refused"} /\ stage[k] # "read" => j = k

\* A link not issued has served nobody; a sign-in link serves once used up.
MagicInv ==
  /\ \A l \in Links : state[l] = "absent" => served[l] = "no"
  /\ \A l \in Links : kind[l] = "magic" =>
        /\ state[l] # "gone"
        /\ served[l] # "no" => served[l] = "once" /\ state[l] = "used"

\* A used-up link that served nobody is in a click's hands, or was lost there.
UsedInv ==
  \A l \in Links : kind[l] = "magic" /\ state[l] = "used" =>
    \/ served[l] # "no"
    \/ l \in burned
    \/ \E k \in Clicks : on[k] = l /\ stage[k] \in {"taken", "refused"}

\* Another link outside contested: one click on it, and none once it has served.
OtherInv ==
  \A l \in Links \ contested : kind[l] # "magic" =>
    /\ \A j, k \in Clicks : on[j] = l /\ on[k] = l => j = k
    /\ served[l] # "no" =>
          /\ served[l] = "once"
          /\ state[l] \in {"used", "gone"}
          /\ \A k \in Clicks : on[k] # l

\* The account named by a link and by a click is the one of the issue, or none
\* when that one was deleted.
OwnerInv ==
  /\ LinksNameTheLiving
  /\ \A l \in Links : state[l] # "absent" /\ owner[l] # issuedFor[l] =>
        owner[l] = NoUser /\ account[issuedFor[l]] = "deleted"
  /\ \A k \in Clicks : stage[k] # "idle" /\ read[k] # issuedFor[on[k]] =>
        read[k] = NoUser /\ account[issuedFor[on[k]]] = "deleted"
  /\ \A k \in Clicks : stage[k] = "refused" => read[k] = NoUser
  /\ \A l \in Links : state[l] = "absent" => served[l] = "no" /\ owner[l] = NoUser
  /\ ServesItsAccount

LinksIInv ==
  /\ LinksTypeOK
  /\ ClickInv
  /\ MagicInv
  /\ UsedInv
  /\ OtherInv
  /\ OwnerInv

\* Nothing is there yet.
LEMMA LinksInitInv == LinksInit => LinksIInv
  BY ConstantsAssumption DEF LinksInit, LinksIInv, LinksTypeOK, Spellings, Kinds, LinkStates,
      Stages, ClickInv,
     MagicInv, UsedInv, OtherInv, OwnerInv, LinksNameTheLiving, ServesItsAccount

\* The steps there are.
LEMMA LinksNextCases ==
  ASSUME [LinksNext]_linksVars
  PROVE  \/ \E u \in Accounts, s \in Spellings, l \in Links : CreateMember(u, s, l)
         \/ \E u \in Accounts : CreateAccount(u)
         \/ \E u \in Accounts : DeleteUser(u)
         \/ \E l \in Links, u \in Accounts \cup {NoUser} : IssueMagicToken(l, u)
         \/ \E l \in Links, u \in Accounts : ForgotSubmit(l, u)
         \/ \E l \in Links : Expire(l)
         \/ \E k \in Clicks, l \in Links : Read(k, l)
         \/ \E k \in Clicks, u \in Accounts : OpenNew(k, u)
         \/ \E k \in Clicks, u \in Accounts : OpenFound(k, u)
         \/ \E k \in Clicks : Consume(k)
         \/ \E k \in Clicks : TooLate(k) \/ NoneFound(k) \/ Interrupt(k)
         \/ \E k \in Clicks : OpenRead(k)
         \/ \E k \in Clicks : EmailTaken(k)
         \/ \E k \in Clicks : Activate(k) \/ ResetPassword(k)
         \/ \E k \in Clicks : ActivateUnmarked(k)
         \/ UNCHANGED linksVars
  BY DEF LinksNext, ClickStep

\* The types, for every step.
LEMMA LinksTypeStep == LinksTypeOK /\ ClickInv /\ [LinksNext]_linksVars => LinksTypeOK'
<1> SUFFICES ASSUME LinksTypeOK, ClickInv, [LinksNext]_linksVars
             PROVE  LinksTypeOK'
  OBVIOUS
<1> USE ConstantsAssumption DEF users, links, clicks, history, LinksTypeOK, Spellings,
    Kinds, LinkStates, Stages, ClickInv
<1>1. CASE \E u \in Accounts, s \in Spellings, l \in Links : CreateMember(u, s, l)
  BY <1>1 DEF CreateMember, NewUser, IssueLink
<1>2. CASE \E u \in Accounts : CreateAccount(u)
  BY <1>2 DEF CreateAccount, NewUser
<1>3. CASE \E u \in Accounts : DeleteUser(u)
  BY <1>3 DEF DeleteUser
<1>4. CASE \E l \in Links, u \in Accounts \cup {NoUser} : IssueMagicToken(l, u)
  BY <1>4 DEF IssueMagicToken, IssueLink
<1>5. CASE \E l \in Links, u \in Accounts : ForgotSubmit(l, u)
  BY <1>5 DEF ForgotSubmit, IssueLink
<1>6. CASE \E l \in Links : Expire(l)
  BY <1>6 DEF Expire
<1>7. CASE \E k \in Clicks, l \in Links : Read(k, l)
  BY <1>7 DEF Read
<1>8. CASE \E k \in Clicks, u \in Accounts : OpenNew(k, u)
  BY <1>8 DEF OpenNew, NewUser, Serve, Done
<1>9. CASE \E k \in Clicks, u \in Accounts : OpenFound(k, u)
  BY <1>9 DEF OpenFound, Serve, Done
<1>10. CASE \E k \in Clicks : Consume(k)
  BY <1>10 DEF Consume, Consumable, Mark
<1>11. CASE \E k \in Clicks : TooLate(k) \/ NoneFound(k) \/ Interrupt(k)
  BY <1>11 DEF TooLate, NoneFound, Interrupt, Consumable, Done
<1>12. CASE \E k \in Clicks : OpenRead(k)
  BY <1>12 DEF OpenRead, Serve, Done
<1>13. CASE \E k \in Clicks : EmailTaken(k)
  BY <1>13 DEF EmailTaken
<1>14. CASE \E k \in Clicks : Activate(k) \/ ResetPassword(k)
  BY <1>14 DEF Activate, ResetPassword, Mark, Serve, Done
<1>15. CASE \E k \in Clicks : ActivateUnmarked(k)
  BY <1>15 DEF ActivateUnmarked, Serve, Done
<1>16. CASE UNCHANGED linksVars
  BY <1>16 DEF linksVars
<1> QED
  BY <1>1, <1>2, <1>3, <1>4, <1>5, <1>6, <1>7, <1>8, <1>9,
     <1>10, <1>11, <1>12, <1>13, <1>14, <1>15, <1>16, LinksNextCases

\* A link in use keeps what its click knows of it.
LEMMA ClickInvStep == LinksTypeOK /\ ClickInv /\ MagicInv /\ [LinksNext]_linksVars => ClickInv'
<1> SUFFICES ASSUME LinksTypeOK, ClickInv, MagicInv, [LinksNext]_linksVars
             PROVE  ClickInv'
  OBVIOUS
<1> USE ConstantsAssumption DEF users, links, clicks, history, LinksTypeOK, ClickInv,
    MagicInv, Stages
<1>1. CASE \E u \in Accounts, s \in Spellings, l \in Links : CreateMember(u, s, l)
  BY <1>1 DEF CreateMember, NewUser, IssueLink
<1>2. CASE \E u \in Accounts : CreateAccount(u)
  BY <1>2 DEF CreateAccount, NewUser
<1>3. CASE \E u \in Accounts : DeleteUser(u)
  BY <1>3 DEF DeleteUser
<1>4. CASE \E l \in Links, u \in Accounts \cup {NoUser} : IssueMagicToken(l, u)
  BY <1>4 DEF IssueMagicToken, IssueLink
<1>5. CASE \E l \in Links, u \in Accounts : ForgotSubmit(l, u)
  BY <1>5 DEF ForgotSubmit, IssueLink
<1>6. CASE \E l \in Links : Expire(l)
  BY <1>6 DEF Expire
<1>7. CASE \E k \in Clicks, l \in Links : Read(k, l)
  BY <1>7 DEF Read
<1>8. CASE \E k \in Clicks, u \in Accounts : OpenNew(k, u)
  BY <1>8 DEF OpenNew, NewUser, Serve, Done
<1>9. CASE \E k \in Clicks, u \in Accounts : OpenFound(k, u)
  BY <1>9 DEF OpenFound, Serve, Done
<1>10. CASE \E k \in Clicks : Consume(k)
  BY <1>10 DEF Consume, Consumable, Mark
<1>11. CASE \E k \in Clicks : TooLate(k) \/ NoneFound(k) \/ Interrupt(k)
  BY <1>11 DEF TooLate, NoneFound, Interrupt, Consumable, Done
<1>12. CASE \E k \in Clicks : OpenRead(k)
  BY <1>12 DEF OpenRead, Serve, Done
<1>13. CASE \E k \in Clicks : EmailTaken(k)
  BY <1>13 DEF EmailTaken
<1>14. CASE \E k \in Clicks : Activate(k) \/ ResetPassword(k)
  BY <1>14 DEF Activate, ResetPassword, Mark, Serve, Done
<1>15. CASE \E k \in Clicks : ActivateUnmarked(k)
  BY <1>15 DEF ActivateUnmarked, Serve, Done
<1>16. CASE UNCHANGED linksVars
  BY <1>16 DEF linksVars
<1> QED
  BY <1>1, <1>2, <1>3, <1>4, <1>5, <1>6, <1>7, <1>8, <1>9,
     <1>10, <1>11, <1>12, <1>13, <1>14, <1>15, <1>16, LinksNextCases

\* A sign-in link serves in the step that ends its click.
LEMMA MagicInvStep == LinksTypeOK /\ ClickInv /\ MagicInv /\ [LinksNext]_linksVars => MagicInv'
<1> SUFFICES ASSUME LinksTypeOK, ClickInv, MagicInv, [LinksNext]_linksVars
             PROVE  MagicInv'
  OBVIOUS
<1> USE ConstantsAssumption DEF users, links, clicks, history, LinksTypeOK, ClickInv,
    MagicInv, Stages
<1>1. CASE \E u \in Accounts, s \in Spellings, l \in Links : CreateMember(u, s, l)
  BY <1>1 DEF CreateMember, NewUser, IssueLink
<1>2. CASE \E u \in Accounts : CreateAccount(u)
  BY <1>2 DEF CreateAccount, NewUser
<1>3. CASE \E u \in Accounts : DeleteUser(u)
  BY <1>3 DEF DeleteUser
<1>4. CASE \E l \in Links, u \in Accounts \cup {NoUser} : IssueMagicToken(l, u)
  BY <1>4 DEF IssueMagicToken, IssueLink
<1>5. CASE \E l \in Links, u \in Accounts : ForgotSubmit(l, u)
  BY <1>5 DEF ForgotSubmit, IssueLink
<1>6. CASE \E l \in Links : Expire(l)
  BY <1>6 DEF Expire
<1>7. CASE \E k \in Clicks, l \in Links : Read(k, l)
  BY <1>7 DEF Read
<1>8. CASE \E k \in Clicks, u \in Accounts : OpenNew(k, u)
  BY <1>8 DEF OpenNew, NewUser, Serve, Done
<1>9. CASE \E k \in Clicks, u \in Accounts : OpenFound(k, u)
  BY <1>9 DEF OpenFound, Serve, Done
<1>10. CASE \E k \in Clicks : Consume(k)
  BY <1>10 DEF Consume, Consumable, Mark
<1>11. CASE \E k \in Clicks : TooLate(k) \/ NoneFound(k) \/ Interrupt(k)
  BY <1>11 DEF TooLate, NoneFound, Interrupt, Consumable, Done
<1>12. CASE \E k \in Clicks : OpenRead(k)
  BY <1>12 DEF OpenRead, Serve, Done
<1>13. CASE \E k \in Clicks : EmailTaken(k)
  BY <1>13 DEF EmailTaken
<1>14. CASE \E k \in Clicks : Activate(k) \/ ResetPassword(k)
  BY <1>14 DEF Activate, ResetPassword, Mark, Serve, Done
<1>15. CASE \E k \in Clicks : ActivateUnmarked(k)
  BY <1>15 DEF ActivateUnmarked, Serve, Done
<1>16. CASE UNCHANGED linksVars
  BY <1>16 DEF linksVars
<1> QED
  BY <1>1, <1>2, <1>3, <1>4, <1>5, <1>6, <1>7, <1>8, <1>9,
     <1>10, <1>11, <1>12, <1>13, <1>14, <1>15, <1>16, LinksNextCases

\* A used-up link is never dropped in silence.
LEMMA UsedInvStep ==
  LinksTypeOK /\ ClickInv /\ MagicInv /\ UsedInv /\ [LinksNext]_linksVars => UsedInv'
<1> SUFFICES ASSUME LinksTypeOK, ClickInv, MagicInv, UsedInv, [LinksNext]_linksVars
             PROVE  UsedInv'
  OBVIOUS
<1> USE ConstantsAssumption DEF users, links, clicks, history, LinksTypeOK, ClickInv,
    MagicInv, UsedInv, Stages
<1>1. CASE \E u \in Accounts, s \in Spellings, l \in Links : CreateMember(u, s, l)
  BY <1>1 DEF CreateMember, NewUser, IssueLink
<1>2. CASE \E u \in Accounts : CreateAccount(u)
  BY <1>2 DEF CreateAccount, NewUser
<1>3. CASE \E u \in Accounts : DeleteUser(u)
  BY <1>3 DEF DeleteUser
<1>4. CASE \E l \in Links, u \in Accounts \cup {NoUser} : IssueMagicToken(l, u)
  BY <1>4 DEF IssueMagicToken, IssueLink
<1>5. CASE \E l \in Links, u \in Accounts : ForgotSubmit(l, u)
  BY <1>5 DEF ForgotSubmit, IssueLink
<1>6. CASE \E l \in Links : Expire(l)
  BY <1>6 DEF Expire
<1>7. CASE \E k \in Clicks, l \in Links : Read(k, l)
  BY <1>7 DEF Read
<1>8. CASE \E k \in Clicks, u \in Accounts : OpenNew(k, u)
  BY <1>8 DEF OpenNew, NewUser, Serve, Done
<1>9. CASE \E k \in Clicks, u \in Accounts : OpenFound(k, u)
  BY <1>9 DEF OpenFound, Serve, Done
<1>10. CASE \E k \in Clicks : Consume(k)
  BY <1>10 DEF Consume, Consumable, Mark
<1>11. CASE \E k \in Clicks : TooLate(k) \/ NoneFound(k) \/ Interrupt(k)
  BY <1>11 DEF TooLate, NoneFound, Interrupt, Consumable, Done
<1>12. CASE \E k \in Clicks : OpenRead(k)
  BY <1>12 DEF OpenRead, Serve, Done
<1>13. CASE \E k \in Clicks : EmailTaken(k)
  BY <1>13 DEF EmailTaken
<1>14. CASE \E k \in Clicks : Activate(k) \/ ResetPassword(k)
  BY <1>14 DEF Activate, ResetPassword, Mark, Serve, Done
<1>15. CASE \E k \in Clicks : ActivateUnmarked(k)
  BY <1>15 DEF ActivateUnmarked, Serve, Done
<1>16. CASE UNCHANGED linksVars
  BY <1>16 DEF linksVars
<1> QED
  BY <1>1, <1>2, <1>3, <1>4, <1>5, <1>6, <1>7, <1>8, <1>9,
     <1>10, <1>11, <1>12, <1>13, <1>14, <1>15, <1>16, LinksNextCases

\* The only click on a link marks it and leaves it.
LEMMA OtherInvStep ==
  LinksTypeOK /\ ClickInv /\ MagicInv /\ OtherInv /\ [LinksNext]_linksVars => OtherInv'
<1> SUFFICES ASSUME LinksTypeOK, ClickInv, MagicInv, OtherInv, [LinksNext]_linksVars
             PROVE  OtherInv'
  OBVIOUS
<1> USE ConstantsAssumption DEF users, links, clicks, history, LinksTypeOK, ClickInv,
    MagicInv, OtherInv, Stages
<1>1. CASE \E u \in Accounts, s \in Spellings, l \in Links : CreateMember(u, s, l)
  BY <1>1 DEF CreateMember, NewUser, IssueLink
<1>2. CASE \E u \in Accounts : CreateAccount(u)
  BY <1>2 DEF CreateAccount, NewUser
<1>3. CASE \E u \in Accounts : DeleteUser(u)
  BY <1>3 DEF DeleteUser
<1>4. CASE \E l \in Links, u \in Accounts \cup {NoUser} : IssueMagicToken(l, u)
  BY <1>4 DEF IssueMagicToken, IssueLink
<1>5. CASE \E l \in Links, u \in Accounts : ForgotSubmit(l, u)
  BY <1>5 DEF ForgotSubmit, IssueLink
<1>6. CASE \E l \in Links : Expire(l)
  BY <1>6 DEF Expire
<1>7. CASE \E k \in Clicks, l \in Links : Read(k, l)
  BY <1>7 DEF Read
<1>8. CASE \E k \in Clicks, u \in Accounts : OpenNew(k, u)
  BY <1>8 DEF OpenNew, NewUser, Serve, Done
<1>9. CASE \E k \in Clicks, u \in Accounts : OpenFound(k, u)
  BY <1>9 DEF OpenFound, Serve, Done
<1>10. CASE \E k \in Clicks : Consume(k)
  BY <1>10 DEF Consume, Consumable, Mark
<1>11. CASE \E k \in Clicks : TooLate(k) \/ NoneFound(k) \/ Interrupt(k)
  BY <1>11 DEF TooLate, NoneFound, Interrupt, Consumable, Done
<1>12. CASE \E k \in Clicks : OpenRead(k)
  BY <1>12 DEF OpenRead, Serve, Done
<1>13. CASE \E k \in Clicks : EmailTaken(k)
  BY <1>13 DEF EmailTaken
<1>14. CASE \E k \in Clicks : Activate(k) \/ ResetPassword(k)
  BY <1>14 DEF Activate, ResetPassword, Mark, Serve, Done
<1>15. CASE \E k \in Clicks : ActivateUnmarked(k)
  BY <1>15 DEF ActivateUnmarked, Serve, Done
<1>16. CASE UNCHANGED linksVars
  BY <1>16 DEF linksVars
<1> QED
  BY <1>1, <1>2, <1>3, <1>4, <1>5, <1>6, <1>7, <1>8, <1>9,
     <1>10, <1>11, <1>12, <1>13, <1>14, <1>15, <1>16, LinksNextCases

\* What names an account is emptied with it.
LEMMA OwnerInvStep == LinksTypeOK /\ ClickInv /\ OwnerInv /\ [LinksNext]_linksVars => OwnerInv'
<1> SUFFICES ASSUME LinksTypeOK, ClickInv, OwnerInv, [LinksNext]_linksVars
             PROVE  OwnerInv'
  OBVIOUS
<1> USE ConstantsAssumption DEF users, links, clicks, history, LinksTypeOK, ClickInv,
    OwnerInv, LinksNameTheLiving, ServesItsAccount, Stages
<1>1. CASE \E u \in Accounts, s \in Spellings, l \in Links : CreateMember(u, s, l)
  BY <1>1 DEF CreateMember, NewUser, IssueLink
<1>2. CASE \E u \in Accounts : CreateAccount(u)
  BY <1>2 DEF CreateAccount, NewUser
<1>3. CASE \E u \in Accounts : DeleteUser(u)
  BY <1>3 DEF DeleteUser
<1>4. CASE \E l \in Links, u \in Accounts \cup {NoUser} : IssueMagicToken(l, u)
  BY <1>4 DEF IssueMagicToken, IssueLink
<1>5. CASE \E l \in Links, u \in Accounts : ForgotSubmit(l, u)
  BY <1>5 DEF ForgotSubmit, IssueLink
<1>6. CASE \E l \in Links : Expire(l)
  BY <1>6 DEF Expire
<1>7. CASE \E k \in Clicks, l \in Links : Read(k, l)
  BY <1>7 DEF Read
<1>8. CASE \E k \in Clicks, u \in Accounts : OpenNew(k, u)
  BY <1>8 DEF OpenNew, NewUser, Serve, Done
<1>9. CASE \E k \in Clicks, u \in Accounts : OpenFound(k, u)
  BY <1>9 DEF OpenFound, Serve, Done
<1>10. CASE \E k \in Clicks : Consume(k)
  BY <1>10 DEF Consume, Consumable, Mark
<1>11. CASE \E k \in Clicks : TooLate(k) \/ NoneFound(k) \/ Interrupt(k)
  BY <1>11 DEF TooLate, NoneFound, Interrupt, Consumable, Done
<1>12. CASE \E k \in Clicks : OpenRead(k)
  BY <1>12 DEF OpenRead, Serve, Done
<1>13. CASE \E k \in Clicks : EmailTaken(k)
  BY <1>13 DEF EmailTaken
<1>14. CASE \E k \in Clicks : Activate(k) \/ ResetPassword(k)
  BY <1>14 DEF Activate, ResetPassword, Mark, Serve, Done
<1>15. CASE \E k \in Clicks : ActivateUnmarked(k)
  BY <1>15 DEF ActivateUnmarked, Serve, Done
<1>16. CASE UNCHANGED linksVars
  BY <1>16 DEF linksVars
<1> QED
  BY <1>1, <1>2, <1>3, <1>4, <1>5, <1>6, <1>7, <1>8, <1>9,
     <1>10, <1>11, <1>12, <1>13, <1>14, <1>15, <1>16, LinksNextCases

LEMMA LinksInductive == LinksSpec => []LinksIInv
<1>1. LinksIInv /\ [LinksNext]_linksVars => LinksIInv'
  BY LinksTypeStep, ClickInvStep, MagicInvStep, UsedInvStep, OtherInvStep, OwnerInvStep
      DEF LinksIInv
<1> QED
  BY LinksInitInv, <1>1, PTL DEF LinksSpec

-----------------------------------------------------------------------------
\* Every variable keeps its type: the rows of the three tables, the requests on
\* links and what they read.
THEOREM LinksTypeCorrect == LinksSpec => []LinksTypeOK
  BY LinksInductive, PTL DEF LinksIInv

\* LoginMagicCallback, handleActivate, handleResetSubmit: however many clicks
\* run at once, a sign-in link serves once; another link serves twice only after
\* two clicks read it unused or its mark failed.
THEOREM LinksServeOnce == LinksSpec => []ServesOnce
<1>1. LinksIInv => ServesOnce
  BY DEF LinksIInv, MagicInv, OtherInv, ServesOnce, LinksTypeOK
<1> QED
  BY LinksInductive, <1>1, PTL

\* LoginMagicCallback: no path but a failing statement uses a sign-in link up
\* for nothing.
THEOREM NothingUsedUpInVain == LinksSpec => []UsedUpHasServed
<1>1. LinksIInv => UsedUpHasServed
  BY DEF LinksIInv, UsedInv, UsedUpHasServed
<1> QED
  BY LinksInductive, <1>1, PTL

\* The session or the password is of the account the link was issued for.
THEOREM LinksServeTheirAccount == LinksSpec => []ServesItsAccount
  BY LinksInductive, PTL DEF LinksIInv, OwnerInv

\* deleteUserRGPD: nothing names a deleted account.
THEOREM DeletedAreNotNamed == LinksSpec => []LinksNameTheLiving
  BY LinksInductive, PTL DEF LinksIInv, OwnerInv
=============================================================================
