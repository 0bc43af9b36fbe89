------------------------- MODULE AuthService_proofs --------------------------
(***************************************************************************)
(* Machine-checked proofs about AuthSessions, for any sets of accounts,    *)
(* requests and refresh tokens and any bound on the versions, and about    *)
(* LoginThrottle, for any names, addresses, attempts in flight and limits. *)
(***************************************************************************)
EXTENDS AuthSessions, LoginThrottle, SequenceTheorems, FiniteSetTheorems, TLAPS

USE DEF Version, Step

(* Type correctness: every step keeps every variable in its type. *)
LEMMA TypeInit == Init => TypeOK
<1> SUFFICES ASSUME Init PROVE TypeOK
  OBVIOUS
<1> QED
  BY ConstantsAssumption DEF Init, TypeOK, Row, Request, NoRequest, AccessToken

(* The handlers' variables stay typed whatever part of a request a step is. *)
LEMMA HandlerTypes ==
  ASSUME TypeOK, NEW h \in Handler
  PROVE  /\ req[h] \in Request /\ pc[h] \in Step /\ NoRequest \in Request
         /\ \A step \in Step, r \in Request :
              Begin(h, step, r) => /\ pc' \in [Handler -> Step]
                                   /\ req' \in [Handler -> Request]
         /\ \A from \in Step, to \in Step :
              Continue(h, from, to) => pc' \in [Handler -> Step]
         /\ \A from \in Step :
              Finish(h, from) => /\ pc' \in [Handler -> Step]
                                 /\ req' \in [Handler -> Request]
<1>1. NoRequest \in Request
  BY ConstantsAssumption DEF Request, NoRequest
<1> QED
  BY <1>1 DEF TypeOK, Begin, Continue, Finish

(* The fields of a request and of a row have their types. *)
LEMMA FieldTypes ==
  ASSUME TypeOK
  PROVE  /\ \A h \in Handler :
              /\ req[h].user \in User
              /\ req[h].tok \in RToken \cup {NoToken}
              /\ req[h].old \in BOOLEAN
              /\ req[h].asOf \in Version
              /\ req[h].ver \in Version
              /\ req[h].to \in {0, 1}
         /\ \A t \in RToken :
              /\ row[t] \in Row
              /\ row[t].owner \in User
              /\ row[t].state \in {"none", "live", "revoked"}
              /\ row[t].parent \in RToken \cup {NoToken}
              /\ row[t].born \in Version
              /\ row[t].asOf \in Version
         /\ \A u \in User : status[u] \in {0, 1} /\ authVersion[u] \in Version
         /\ \A a \in access : a.sub \in User /\ a.ver \in Version /\ a.asOf \in Version
  BY DEF TypeOK, Request, Row, AccessToken

(* No step of any request takes a variable out of its type. *)
LEMMA TypeStep == TypeOK /\ [Next]_vars => TypeOK'
<1> SUFFICES ASSUME TypeOK, [Next]_vars PROVE TypeOK'
  OBVIOUS
<1> USE FieldTypes, HandlerTypes
<1>1. ASSUME NEW h \in Handler, NEW u \in User, LoginFind(h, u) PROVE TypeOK'
  <2>1. [NoRequest EXCEPT !.user = u, !.asOf = authVersion[u]] \in Request
    BY ConstantsAssumption DEF Request, NoRequest
  <2> QED
    BY <1>1, <2>1 DEF LoginFind, TypeOK
<1>2. ASSUME NEW h \in Handler, NEW t \in RToken, NEW old \in BOOLEAN,
             RefreshFind(h, t, old)
      PROVE  TypeOK'
  <2>1. [NoRequest EXCEPT !.user = row[t].owner, !.tok = t, !.old = old] \in Request
    BY ConstantsAssumption DEF Request, NoRequest
  <2> QED
    BY <1>2, <2>1 DEF RefreshFind, TypeOK
<1>3. ASSUME NEW h \in Handler, RefreshRevoke(h) PROVE TypeOK'
  <2>1. row' \in [RToken -> Row] /\ lost' \subseteq User
    BY <1>3 DEF RefreshRevoke, TypeOK, Row
  <2>2. pc' \in [Handler -> Step] /\ req' \in [Handler -> Request]
    BY <1>3 DEF RefreshRevoke, TypeOK
  <2> QED
    BY <1>3, <2>1, <2>2 DEF RefreshRevoke, TypeOK
<1>4. ASSUME NEW h \in Handler, RefreshFindUser(h) PROVE TypeOK'
  <2>1. [req[h] EXCEPT !.asOf = authVersion[req[h].user]] \in Request
    BY DEF Request
  <2> QED
    BY <1>4, <2>1 DEF RefreshFindUser, TypeOK
<1>5. ASSUME NEW h \in Handler, EvaluateAccess(h) PROVE TypeOK'
  BY <1>5 DEF EvaluateAccess, TypeOK
<1>6. ASSUME NEW h \in Handler, SignAccessToken(h) PROVE TypeOK'
  <2>1. [req[h] EXCEPT !.ver = authVersion[req[h].user]] \in Request
    BY DEF Request
  <2> QED
    BY <1>6, <2>1 DEF SignAccessToken, TypeOK
<1>7. ASSUME NEW h \in Handler, NEW t \in RToken, CreateRefreshToken(h, t)
      PROVE  TypeOK'
  <2>1. row' \in [RToken -> Row]
    BY <1>7 DEF CreateRefreshToken, TypeOK, Row
  <2>2. access' \subseteq AccessToken
    BY <1>7 DEF CreateRefreshToken, TypeOK, AccessToken
  <2> QED
    BY <1>7, <2>1, <2>2 DEF CreateRefreshToken, TypeOK
<1>8. ASSUME NEW h \in Handler, NEW a \in access, PasswordBegin(h, a) PROVE TypeOK'
  <2>1. [NoRequest EXCEPT !.user = a.sub] \in Request
    BY ConstantsAssumption DEF Request, NoRequest
  <2> QED
    BY <1>8, <2>1 DEF PasswordBegin, TypeOK
<1>9. ASSUME NEW h \in Handler, PasswordFind(h) PROVE TypeOK'
  <2>1. [req[h] EXCEPT !.asOf = authVersion[req[h].user]] \in Request
    BY DEF Request
  <2> QED
    BY <1>9, <2>1 DEF PasswordFind, TypeOK
<1>10. ASSUME NEW h \in Handler, PasswordUpdate(h) PROVE TypeOK'
  <2>1. authVersion' \in [User -> Version]
    BY <1>10 DEF PasswordUpdate, BumpVersion, TypeOK
  <2> QED
    BY <1>10, <2>1 DEF PasswordUpdate, TypeOK
<1>11. ASSUME NEW h \in Handler, NEW a \in access, NEW u \in User, NEW to \in {0, 1},
              StatusBegin(h, a, u, to)
       PROVE  TypeOK'
  <2>1. [NoRequest EXCEPT !.user = u, !.to = to] \in Request
    BY ConstantsAssumption DEF Request, NoRequest
  <2> QED
    BY <1>11, <2>1 DEF StatusBegin, TypeOK
<1>12. ASSUME NEW h \in Handler, StatusUpdate(h) PROVE TypeOK'
  <2>1. status' \in [User -> {0, 1}] /\ authVersion' \in [User -> Version]
    BY <1>12 DEF StatusUpdate, BumpVersion, TypeOK
  <2> QED
    BY <1>12, <2>1 DEF StatusUpdate, TypeOK
<1>13. ASSUME NEW h \in Handler, RevokeAll(h) PROVE TypeOK'
  <2>1. row' \in [RToken -> Row]
    BY <1>13 DEF RevokeAll, TypeOK, Row
  <2> QED
    BY <1>13, <2>1 DEF RevokeAll, TypeOK
<1>14. ASSUME NEW h \in Handler, Abort(h) PROVE TypeOK'
  BY <1>14 DEF Abort, TypeOK
<1>15. ASSUME NEW t \in RToken, Logout(t) PROVE TypeOK'
  <2>1. row' \in [RToken -> Row]
    BY <1>15 DEF Logout, TypeOK, Row
  <2> QED
    BY <1>15, <2>1 DEF Logout, TypeOK
<1>16. CASE UNCHANGED vars
  BY <1>16 DEF vars, TypeOK
<1> QED
  BY <1>1, <1>2, <1>3, <1>4, <1>5, <1>6, <1>7, <1>8, <1>9, <1>10, <1>11, <1>12,
     <1>13, <1>14, <1>15, <1>16
  DEF Next, HandlerStep

-----------------------------------------------------------------------------

(* At the start nothing has been issued: the inductive invariant holds. *)
LEMMA IInvInit == Init => IInv
<1> QED
  BY TypeInit, ConstantsAssumption
  DEF Init, IInv, VersionsOrdered, CarriedTokenIsRevoked, LiveTokensAreCurrent, Live,
      DisabledAccountsGainNothing, ExchangedTokenIsRevoked, NoRequest

(* Every step of every request keeps the inductive invariant: one case per *)
(* action, and in each one step per conjunct.                              *)
LEMMA IInvStep == IInv /\ [Next]_vars => IInv'
<1> SUFFICES ASSUME IInv, [Next]_vars PROVE IInv'
  OBVIOUS
<1> TypeOK /\ TypeOK'
  BY TypeStep DEF IInv
<1> USE ConstantsAssumption, FieldTypes
<1> USE DEF IInv
<1>1. ASSUME NEW h \in Handler, NEW u \in User, LoginFind(h, u)
      PROVE  IInv'
  <2>1. VersionsOrdered'
    BY <1>1 DEF LoginFind, Begin, NoRequest, VersionsOrdered, TypeOK
  <2>2. CarriedTokenIsRevoked'
    BY <1>1 DEF LoginFind, Begin, NoRequest, CarriedTokenIsRevoked, TypeOK
  <2>3. LiveTokensAreCurrent'
    BY <1>1 DEF LoginFind, Begin, NoRequest, LiveTokensAreCurrent, Live, RevokePending, TypeOK
  <2>4. DisabledAccountsGainNothing'
    BY <1>1 DEF LoginFind, Begin, NoRequest, DisabledAccountsGainNothing, Live, VersionsOrdered, TypeOK
  <2>5. ExchangedTokenIsRevoked'
    BY <1>1 DEF LoginFind, Begin, NoRequest, ExchangedTokenIsRevoked, CarriedTokenIsRevoked, TypeOK
  <2> QED
    BY <2>1, <2>2, <2>3, <2>4, <2>5
<1>2. ASSUME NEW h \in Handler, NEW t \in RToken, NEW old \in BOOLEAN, RefreshFind(h, t, old)
      PROVE  IInv'
  <2>1. VersionsOrdered'
    BY <1>2 DEF RefreshFind, Begin, NoRequest, VersionsOrdered, TypeOK
  <2>2. CarriedTokenIsRevoked'
    BY <1>2 DEF RefreshFind, Begin, NoRequest, CarriedTokenIsRevoked, TypeOK
  <2>3. LiveTokensAreCurrent'
    BY <1>2 DEF RefreshFind, Begin, NoRequest, LiveTokensAreCurrent, Live, RevokePending, TypeOK
  <2>4. DisabledAccountsGainNothing'
    BY <1>2 DEF RefreshFind, Begin, NoRequest, DisabledAccountsGainNothing, Live, VersionsOrdered, TypeOK
  <2>5. ExchangedTokenIsRevoked'
    BY <1>2 DEF RefreshFind, Begin, NoRequest, ExchangedTokenIsRevoked, CarriedTokenIsRevoked, TypeOK
  <2> QED
    BY <2>1, <2>2, <2>3, <2>4, <2>5
<1>3. ASSUME NEW h \in Handler, RefreshRevoke(h)
      PROVE  IInv'
  <2> DEFINE tk == req[h].tok
  <2>0. tk \in RToken /\ pc[h] = "revoke"
    BY <1>3 DEF RefreshRevoke, CarriedTokenIsRevoked
  <2>1. /\ UNCHANGED <<status, authVersion, access>>
        /\ lost \subseteq lost'
        /\ \A t \in RToken : t # tk => row'[t] = row[t]
        /\ \/ row'[tk] = [row[tk] EXCEPT !.state = "revoked"]
           \/ row'[tk] = row[tk] /\ req[h].user \in lost'
    BY <1>3, <2>0 DEF RefreshRevoke, TypeOK
  <2>2. /\ \A k \in Handler : k # h => pc'[k] = pc[k] /\ req'[k] = req[k]
        /\ \/ pc'[h] = "idle" /\ req'[h] = NoRequest
           \/ pc'[h] = "findUser" /\ req'[h] = req[h]
    BY <1>3 DEF RefreshRevoke, Continue, Finish, TypeOK
  <2>3. \A t \in RToken : /\ row'[t].owner = row[t].owner
                          /\ row'[t].parent = row[t].parent
                          /\ row'[t].born = row[t].born
                          /\ row'[t].asOf = row[t].asOf
                          /\ row'[t].state \in {row[t].state, "revoked"}
    BY <2>1 DEF Row
  <2>4. VersionsOrdered'
    <3>1. \A t \in RToken : row'[t].state # "none" =>
            row[t].state # "none" \/ t = tk
      BY <2>1
    <3>2. row[tk].state # "none"
      BY <2>0 DEF CarriedTokenIsRevoked
    <3> QED
      BY <2>0, <2>1, <2>2, <2>3, <3>1, <3>2 DEF VersionsOrdered
  <2>5. CarriedTokenIsRevoked'
    BY <2>0, <2>1, <2>2, <2>3 DEF CarriedTokenIsRevoked, NoRequest, Row
  <2>6. LiveTokensAreCurrent'
    <3>1. \A u \in User : RevokePending(u) => RevokePending(u)'
      BY <2>0, <2>2 DEF RevokePending
    <3> QED
      BY <2>1, <2>3, <3>1 DEF LiveTokensAreCurrent, Live
  <2>7. DisabledAccountsGainNothing'
    BY <2>1, <2>2, <2>3 DEF DisabledAccountsGainNothing, Live
  <2>8. ExchangedTokenIsRevoked'
    BY <2>0, <2>1, <2>3 DEF ExchangedTokenIsRevoked, CarriedTokenIsRevoked, Row
  <2> QED
    BY <2>4, <2>5, <2>6, <2>7, <2>8
<1>4. ASSUME NEW h \in Handler, RefreshFindUser(h)
      PROVE  IInv'
  <2>1. /\ \A k \in Handler : k # h => pc'[k] = pc[k] /\ req'[k] = req[k]
        /\ pc[h] = "findUser"
        /\ \/ /\ pc'[h] = "evaluate"
              /\ status[req[h].user] = 1
              /\ req'[h] = [req[h] EXCEPT !.asOf = authVersion[req[h].user]]
           \/ pc'[h] = "idle" /\ req'[h] = NoRequest
    BY <1>4 DEF RefreshFindUser, Continue, Finish, TypeOK
  <2>2. UNCHANGED <<status, authVersion, row, access, lost>>
    BY <1>4 DEF RefreshFindUser
  <2>3. /\ req'[h].user = req[h].user \/ pc'[h] = "idle"
        /\ req'[h].tok \in {req[h].tok, NoToken}
        /\ pc'[h] = "evaluate" => req'[h].asOf = authVersion[req[h].user]
        /\ pc'[h] = "evaluate" => req'[h].tok = req[h].tok
    BY <2>1 DEF TypeOK, Request, NoRequest
  <2>4. VersionsOrdered'
    BY <2>1, <2>2, <2>3 DEF VersionsOrdered
  <2>5. CarriedTokenIsRevoked'
    BY <2>1, <2>2, <2>3 DEF CarriedTokenIsRevoked, NoRequest
  <2>6. LiveTokensAreCurrent'
    <3>1. \A u \in User : RevokePending(u) => RevokePending(u)'
      BY <2>1 DEF RevokePending
    <3> QED
      BY <2>2, <3>1 DEF LiveTokensAreCurrent, Live
  <2>7. DisabledAccountsGainNothing'
    BY <2>1, <2>2, <2>3 DEF DisabledAccountsGainNothing, Live
  <2>8. ExchangedTokenIsRevoked'
    BY <2>2 DEF ExchangedTokenIsRevoked
  <2> QED
    BY <2>4, <2>5, <2>6, <2>7, <2>8
<1>5. ASSUME NEW h \in Handler, EvaluateAccess(h)
      PROVE  IInv'
  <2>1. VersionsOrdered'
    BY <1>5 DEF EvaluateAccess, Continue, Finish, NoRequest, VersionsOrdered, TypeOK
  <2>2. CarriedTokenIsRevoked'
    BY <1>5 DEF EvaluateAccess, Continue, Finish, NoRequest, CarriedTokenIsRevoked, TypeOK
  <2>3. LiveTokensAreCurrent'
    BY <1>5 DEF EvaluateAccess, Continue, Finish, NoRequest, LiveTokensAreCurrent, Live, RevokePending, TypeOK
  <2>4. DisabledAccountsGainNothing'
    BY <1>5 DEF EvaluateAccess, Continue, Finish, NoRequest, DisabledAccountsGainNothing, Live, VersionsOrdered, TypeOK
  <2>5. ExchangedTokenIsRevoked'
    BY <1>5 DEF EvaluateAccess, Continue, Finish, NoRequest, ExchangedTokenIsRevoked, CarriedTokenIsRevoked, TypeOK
  <2> QED
    BY <2>1, <2>2, <2>3, <2>4, <2>5
<1>6. ASSUME NEW h \in Handler, SignAccessToken(h)
      PROVE  IInv'
  <2>1. VersionsOrdered'
    BY <1>6 DEF SignAccessToken, Continue, VersionsOrdered, TypeOK
  <2>2. CarriedTokenIsRevoked'
    BY <1>6 DEF SignAccessToken, Continue, CarriedTokenIsRevoked, TypeOK
  <2>3. LiveTokensAreCurrent'
    BY <1>6 DEF SignAccessToken, Continue, LiveTokensAreCurrent, Live, RevokePending, TypeOK
  <2>4. DisabledAccountsGainNothing'
    BY <1>6 DEF SignAccessToken, Continue, DisabledAccountsGainNothing, Live, VersionsOrdered, TypeOK
  <2>5. ExchangedTokenIsRevoked'
    BY <1>6 DEF SignAccessToken, Continue, ExchangedTokenIsRevoked, CarriedTokenIsRevoked, TypeOK
  <2> QED
    BY <2>1, <2>2, <2>3, <2>4, <2>5
<1>7. ASSUME NEW h \in Handler, NEW t \in RToken, CreateRefreshToken(h, t)
      PROVE  IInv'
  <2>1. VersionsOrdered'
    BY <1>7 DEF CreateRefreshToken, Continue, Finish, NoRequest, VersionsOrdered, TypeOK
  <2>2. CarriedTokenIsRevoked'
    BY <1>7 DEF CreateRefreshToken, Continue, Finish, NoRequest, CarriedTokenIsRevoked, TypeOK
  <2>3. LiveTokensAreCurrent'
    BY <1>7 DEF CreateRefreshToken, Continue, Finish, NoRequest, LiveTokensAreCurrent, Live, RevokePending, TypeOK
  <2>4. DisabledAccountsGainNothing'
    BY <1>7 DEF CreateRefreshToken, Continue, Finish, NoRequest, DisabledAccountsGainNothing, Live, VersionsOrdered, TypeOK
  <2>5. ExchangedTokenIsRevoked'
    BY <1>7 DEF CreateRefreshToken, Continue, Finish, NoRequest, ExchangedTokenIsRevoked, CarriedTokenIsRevoked, TypeOK
  <2> QED
    BY <2>1, <2>2, <2>3, <2>4, <2>5
<1>8. ASSUME NEW h \in Handler, NEW a \in access, PasswordBegin(h, a)
      PROVE  IInv'
  <2>1. VersionsOrdered'
    BY <1>8 DEF PasswordBegin, Begin, NoRequest, VersionsOrdered, TypeOK
  <2>2. CarriedTokenIsRevoked'
    BY <1>8 DEF PasswordBegin, Begin, NoRequest, CarriedTokenIsRevoked, TypeOK
  <2>3. LiveTokensAreCurrent'
    BY <1>8 DEF PasswordBegin, Begin, NoRequest, LiveTokensAreCurrent, Live, RevokePending, TypeOK
  <2>4. DisabledAccountsGainNothing'
    BY <1>8 DEF PasswordBegin, Begin, NoRequest, DisabledAccountsGainNothing, Live, VersionsOrdered, TypeOK
  <2>5. ExchangedTokenIsRevoked'
    BY <1>8 DEF PasswordBegin, Begin, NoRequest, ExchangedTokenIsRevoked, CarriedTokenIsRevoked, TypeOK
  <2> QED
    BY <2>1, <2>2, <2>3, <2>4, <2>5
<1>9. ASSUME NEW h \in Handler, PasswordFind(h)
      PROVE  IInv'
  <2>1. VersionsOrdered'
    BY <1>9 DEF PasswordFind, Continue, VersionsOrdered, TypeOK
  <2>2. CarriedTokenIsRevoked'
    BY <1>9 DEF PasswordFind, Continue, CarriedTokenIsRevoked, TypeOK
  <2>3. LiveTokensAreCurrent'
    BY <1>9 DEF PasswordFind, Continue, LiveTokensAreCurrent, Live, RevokePending, TypeOK
  <2>4. DisabledAccountsGainNothing'
    BY <1>9 DEF PasswordFind, Continue, DisabledAccountsGainNothing, Live, VersionsOrdered, TypeOK
  <2>5. ExchangedTokenIsRevoked'
    BY <1>9 DEF PasswordFind, Continue, ExchangedTokenIsRevoked, CarriedTokenIsRevoked, TypeOK
  <2> QED
    BY <2>1, <2>2, <2>3, <2>4, <2>5
<1>10. ASSUME NEW h \in Handler, PasswordUpdate(h)
      PROVE  IInv'
  <2>1. VersionsOrdered'
    BY <1>10 DEF PasswordUpdate, Continue, BumpVersion, VersionsOrdered, TypeOK
  <2>2. CarriedTokenIsRevoked'
    BY <1>10 DEF PasswordUpdate, Continue, BumpVersion, CarriedTokenIsRevoked, TypeOK
  <2>3. LiveTokensAreCurrent'
    BY <1>10 DEF PasswordUpdate, Continue, BumpVersion, LiveTokensAreCurrent, Live, RevokePending, TypeOK
  <2>4. DisabledAccountsGainNothing'
    BY <1>10 DEF PasswordUpdate, Continue, BumpVersion, DisabledAccountsGainNothing, Live, VersionsOrdered, TypeOK
  <2>5. ExchangedTokenIsRevoked'
    BY <1>10 DEF PasswordUpdate, Continue, BumpVersion, ExchangedTokenIsRevoked, CarriedTokenIsRevoked, TypeOK
  <2> QED
    BY <2>1, <2>2, <2>3, <2>4, <2>5
<1>11. ASSUME NEW h \in Handler, NEW a \in access, NEW u \in User, NEW to \in {0, 1}, StatusBegin(h, a, u, to)
      PROVE  IInv'
  <2>1. VersionsOrdered'
    BY <1>11 DEF StatusBegin, Begin, NoRequest, VersionsOrdered, TypeOK
  <2>2. CarriedTokenIsRevoked'
    BY <1>11 DEF StatusBegin, Begin, NoRequest, CarriedTokenIsRevoked, TypeOK
  <2>3. LiveTokensAreCurrent'
    BY <1>11 DEF StatusBegin, Begin, NoRequest, LiveTokensAreCurrent, Live, RevokePending, TypeOK
  <2>4. DisabledAccountsGainNothing'
    BY <1>11 DEF StatusBegin, Begin, NoRequest, DisabledAccountsGainNothing, Live, VersionsOrdered, TypeOK
  <2>5. ExchangedTokenIsRevoked'
    BY <1>11 DEF StatusBegin, Begin, NoRequest, ExchangedTokenIsRevoked, CarriedTokenIsRevoked, TypeOK
  <2> QED
    BY <2>1, <2>2, <2>3, <2>4, <2>5
<1>12. ASSUME NEW h \in Handler, StatusUpdate(h)
      PROVE  IInv'
  <2>1. VersionsOrdered'
    BY <1>12 DEF StatusUpdate, Continue, Finish, NoRequest, BumpVersion, VersionsOrdered, TypeOK
  <2>2. CarriedTokenIsRevoked'
    BY <1>12 DEF StatusUpdate, Continue, Finish, NoRequest, BumpVersion, CarriedTokenIsRevoked, TypeOK
  <2>3. LiveTokensAreCurrent'
    BY <1>12 DEF StatusUpdate, Continue, Finish, NoRequest, BumpVersion, LiveTokensAreCurrent, Live, RevokePending, TypeOK
  <2>4. DisabledAccountsGainNothing'
    BY <1>12 DEF StatusUpdate, Continue, Finish, NoRequest, BumpVersion, DisabledAccountsGainNothing, Live, VersionsOrdered, TypeOK
  <2>5. ExchangedTokenIsRevoked'
    BY <1>12 DEF StatusUpdate, Continue, Finish, NoRequest, BumpVersion, ExchangedTokenIsRevoked, CarriedTokenIsRevoked, TypeOK
  <2> QED
    BY <2>1, <2>2, <2>3, <2>4, <2>5
<1>13. ASSUME NEW h \in Handler, RevokeAll(h)
      PROVE  IInv'
  <2>1. VersionsOrdered'
    BY <1>13 DEF RevokeAll, Continue, Finish, NoRequest, VersionsOrdered, TypeOK
  <2>2. CarriedTokenIsRevoked'
    BY <1>13 DEF RevokeAll, Continue, Finish, NoRequest, CarriedTokenIsRevoked, TypeOK
  <2>3. LiveTokensAreCurrent'
    BY <1>13 DEF RevokeAll, Continue, Finish, NoRequest, LiveTokensAreCurrent, Live, RevokePending, TypeOK
  <2>4. DisabledAccountsGainNothing'
    BY <1>13 DEF RevokeAll, Continue, Finish, NoRequest, DisabledAccountsGainNothing, Live, VersionsOrdered, TypeOK
  <2>5. ExchangedTokenIsRevoked'
    BY <1>13 DEF RevokeAll, Continue, Finish, NoRequest, ExchangedTokenIsRevoked, CarriedTokenIsRevoked, TypeOK
  <2> QED
    BY <2>1, <2>2, <2>3, <2>4, <2>5
<1>14. ASSUME NEW h \in Handler, Abort(h)
      PROVE  IInv'
  <2>1. VersionsOrdered'
    BY <1>14 DEF Abort, Continue, Finish, NoRequest, VersionsOrdered, TypeOK
  <2>2. CarriedTokenIsRevoked'
    BY <1>14 DEF Abort, Continue, Finish, NoRequest, CarriedTokenIsRevoked, TypeOK
  <2>3. LiveTokensAreCurrent'
    BY <1>14 DEF Abort, Continue, Finish, NoRequest, LiveTokensAreCurrent, Live, RevokePending, TypeOK
  <2>4. DisabledAccountsGainNothing'
    BY <1>14 DEF Abort, Continue, Finish, NoRequest, DisabledAccountsGainNothing, Live, VersionsOrdered, TypeOK
  <2>5. ExchangedTokenIsRevoked'
    BY <1>14 DEF Abort, Continue, Finish, NoRequest, ExchangedTokenIsRevoked, CarriedTokenIsRevoked, TypeOK
  <2> QED
    BY <2>1, <2>2, <2>3, <2>4, <2>5
<1>15. ASSUME NEW t \in RToken, Logout(t)
      PROVE  IInv'
  <2>1. VersionsOrdered'
    BY <1>15 DEF Logout, VersionsOrdered, TypeOK
  <2>2. CarriedTokenIsRevoked'
    BY <1>15 DEF Logout, CarriedTokenIsRevoked, TypeOK
  <2>3. LiveTokensAreCurrent'
    BY <1>15 DEF Logout, LiveTokensAreCurrent, Live, RevokePending, TypeOK
  <2>4. DisabledAccountsGainNothing'
    BY <1>15 DEF Logout, DisabledAccountsGainNothing, Live, VersionsOrdered, TypeOK
  <2>5. ExchangedTokenIsRevoked'
    BY <1>15 DEF Logout, ExchangedTokenIsRevoked, CarriedTokenIsRevoked, TypeOK
  <2> QED
    BY <2>1, <2>2, <2>3, <2>4, <2>5
<1>16. CASE UNCHANGED vars
  BY <1>16 DEF vars, VersionsOrdered, CarriedTokenIsRevoked, LiveTokensAreCurrent, Live,
     RevokePending, DisabledAccountsGainNothing, ExchangedTokenIsRevoked
<1> QED
  BY <1>1, <1>2, <1>3, <1>4, <1>5, <1>6, <1>7, <1>8, <1>9, <1>10, <1>11, <1>12,
     <1>13, <1>14, <1>15, <1>16
  DEF Next, HandlerStep

-----------------------------------------------------------------------------

(* Every reachable state satisfies the inductive invariant. *)
THEOREM InductiveInvariant == Spec => []IInv
<1> QED
  BY IInvInit, IInvStep, PTL DEF Spec

(* Every variable keeps its type. *)
THEOREM TypeCorrect == Spec => []TypeOK
<1> QED
  BY InductiveInvariant, PTL DEF IInv

(* A usable refresh token was inserted under its owner's current           *)
(* auth_version, a revocation is on its way, or one was lost.              *)
THEOREM SignOutReachesEveryToken == Spec => []LiveTokensAreCurrent
<1> QED
  BY InductiveInvariant, PTL DEF IInv

(* No request that reads a disabled account ends in a session. *)
THEOREM DisablingIsFinal == Spec => []DisabledAccountsGainNothing
<1> QED
  BY InductiveInvariant, PTL DEF IInv

(* A refresh token and the one it was exchanged for are never both usable. *)
THEOREM RotationRevokes == Spec => []ExchangedTokenIsRevoked
<1> QED
  BY InductiveInvariant, PTL DEF IInv

(* A refresh token that has a successor cannot be presented any more: only *)
(* RefreshFind takes a token up, and only a live one.                      *)
THEOREM OnlyOverlapsReplay == Spec => ReplaysOverlap
<1>1. ASSUME IInv, [Next]_vars, NEW s \in RToken, NEW t \in RToken,
             row[s].state # "none", row[s].parent = t, row[s].owner \notin lost
      PROVE  Exchanging(t)' \subseteq Exchanging(t)
  <2>0. /\ TypeOK /\ row[t].state = "revoked" /\ t # NoToken
        /\ NoRequest.tok = NoToken /\ NoRequest \in Request
    BY <1>1, ConstantsAssumption DEF IInv, ExchangedTokenIsRevoked, NoRequest, Request, Version
  <2>1. ASSUME NEW h \in Handler, NEW u \in User, LoginFind(h, u)
        PROVE  Exchanging(t)' \subseteq Exchanging(t)
    <3>1. [NoRequest EXCEPT !.user = u, !.asOf = authVersion[u]].tok = NoToken
      BY DEF NoRequest
    <3> QED
      BY <2>0, <2>1, <3>1 DEF LoginFind, Begin, TypeOK, Exchanging
  <2>2. ASSUME NEW h \in Handler, NEW k \in RToken, NEW old \in BOOLEAN,
               RefreshFind(h, k, old)
        PROVE  Exchanging(t)' \subseteq Exchanging(t)
    <3>1. [NoRequest EXCEPT !.user = row[k].owner, !.tok = k, !.old = old].tok = k
      BY DEF NoRequest
    <3>2. k # t
      BY <2>0, <2>2 DEF RefreshFind
    <3> QED
      BY <2>0, <2>2, <3>1, <3>2 DEF RefreshFind, Begin, TypeOK, Exchanging
  <2>3. ASSUME NEW h \in Handler, NEW from, Finish(h, from)
        PROVE  Exchanging(t)' \subseteq Exchanging(t)
    BY <2>0, <2>3 DEF Finish, Continue, TypeOK, Exchanging
  <2>4. ASSUME NEW h \in Handler, NEW from, NEW to, from # "idle", Continue(h, from, to),
               \A k \in Handler : req'[k].tok = req[k].tok
        PROVE  Exchanging(t)' \subseteq Exchanging(t)
    BY <2>0, <2>4 DEF Continue, TypeOK, Exchanging
  <2>5. ASSUME NEW h \in Handler, NEW v, req' = [req EXCEPT ![h].asOf = v]
        PROVE  \A k \in Handler : req'[k].tok = req[k].tok
    BY <2>0, <2>5 DEF TypeOK, Request
  <2>6. ASSUME NEW h \in Handler, NEW v, req' = [req EXCEPT ![h].ver = v]
        PROVE  \A k \in Handler : req'[k].tok = req[k].tok
    BY <2>0, <2>6 DEF TypeOK, Request
  <2>7. ASSUME NEW h \in Handler, RefreshRevoke(h) \/ EvaluateAccess(h) \/ StatusUpdate(h)
        PROVE  Exchanging(t)' \subseteq Exchanging(t)
    BY <2>3, <2>4, <2>7 DEF RefreshRevoke, EvaluateAccess, StatusUpdate
  <2>8. ASSUME NEW h \in Handler, RefreshFindUser(h) \/ PasswordFind(h)
        PROVE  Exchanging(t)' \subseteq Exchanging(t)
    BY <2>3, <2>4, <2>5, <2>8 DEF RefreshFindUser, PasswordFind
  <2>9. ASSUME NEW h \in Handler, SignAccessToken(h) \/ PasswordUpdate(h)
        PROVE  Exchanging(t)' \subseteq Exchanging(t)
    BY <2>4, <2>6, <2>9 DEF SignAccessToken, PasswordUpdate
  <2>10. ASSUME NEW h \in Handler, NEW k \in RToken,
                CreateRefreshToken(h, k) \/ RevokeAll(h) \/ Abort(h)
         PROVE  Exchanging(t)' \subseteq Exchanging(t)
    BY <2>3, <2>10 DEF CreateRefreshToken, RevokeAll, Abort
  <2>11. ASSUME NEW h \in Handler, NEW a \in access, PasswordBegin(h, a)
         PROVE  Exchanging(t)' \subseteq Exchanging(t)
    <3>1. [NoRequest EXCEPT !.user = a.sub].tok = NoToken
      BY DEF NoRequest
    <3> QED
      BY <2>0, <2>11, <3>1 DEF PasswordBegin, Begin, TypeOK, Exchanging
  <2>12. ASSUME NEW h \in Handler, NEW a \in access, NEW u \in User, NEW to \in {0, 1},
                StatusBegin(h, a, u, to)
         PROVE  Exchanging(t)' \subseteq Exchanging(t)
    <3>1. [NoRequest EXCEPT !.user = u, !.to = to].tok = NoToken
      BY DEF NoRequest
    <3> QED
      BY <2>0, <2>12, <3>1 DEF StatusBegin, Begin, TypeOK, Exchanging
  <2>13. ASSUME UNCHANGED <<pc, req>> PROVE Exchanging(t)' \subseteq Exchanging(t)
    BY <2>13 DEF Exchanging
  <2>14. ASSUME NEW k \in RToken, Logout(k) PROVE Exchanging(t)' \subseteq Exchanging(t)
    BY <2>13, <2>14 DEF Logout
  <2>15. CASE UNCHANGED vars
    BY <2>13, <2>15 DEF vars
  <2> QED
    BY <1>1, <2>1, <2>2, <2>7, <2>8, <2>9, <2>10, <2>11, <2>12, <2>14, <2>15
    DEF Next, HandlerStep
<1>2. IInv /\ [Next]_vars =>
        [\A s, t \in RToken :
           row[s].state # "none" /\ row[s].parent = t /\ row[s].owner \notin lost
             => Exchanging(t)' \subseteq Exchanging(t)]_vars
  BY <1>1
<1> QED
  BY <1>2, InductiveInvariant, PTL DEF Spec, ReplaysOverlap

(* No step lowers an auth_version, and the step into RevokeAll raises it. *)
LEMMA VersionsGrow ==
  ASSUME TypeOK, [Next]_vars
  PROVE  /\ \A u \in User : authVersion[u] <= authVersion'[u]
         /\ \A h \in Handler : pc[h] # "revokeAll" /\ pc'[h] = "revokeAll" =>
              authVersion'[req[h].user] = authVersion[req[h].user] + 1
<1> USE FieldTypes
<1>1. CASE UNCHANGED authVersion /\
           \A h \in Handler : pc'[h] = "revokeAll" => pc[h] = "revokeAll"
  BY <1>1
<1>2. ASSUME NEW h \in Handler, PasswordUpdate(h) \/ StatusUpdate(h)
      PROVE  \/ UNCHANGED authVersion /\
                 \A k \in Handler : pc'[k] = "revokeAll" => pc[k] = "revokeAll"
             \/ /\ authVersion' = [authVersion EXCEPT ![req[h].user] = @ + 1]
                /\ \A k \in Handler : k # h => pc'[k] = pc[k]
  BY <1>2 DEF PasswordUpdate, StatusUpdate, BumpVersion, Continue, Finish, TypeOK
<1>3. ASSUME NEW h \in Handler, authVersion' = [authVersion EXCEPT ![req[h].user] = @ + 1],
             \A k \in Handler : k # h => pc'[k] = pc[k]
      PROVE  /\ \A u \in User : authVersion[u] <= authVersion'[u]
             /\ \A k \in Handler : pc[k] # "revokeAll" /\ pc'[k] = "revokeAll" =>
                  authVersion'[req[k].user] = authVersion[req[k].user] + 1
  BY <1>3 DEF TypeOK
<1>4. \/ UNCHANGED authVersion /\
         \A h \in Handler : pc'[h] = "revokeAll" => pc[h] = "revokeAll"
      \/ \E h \in Handler : PasswordUpdate(h) \/ StatusUpdate(h)
  <2>1. ASSUME NEW h \in Handler, NEW u \in User, LoginFind(h, u)
        PROVE  UNCHANGED authVersion /\
               \A k \in Handler : pc'[k] = "revokeAll" => pc[k] = "revokeAll"
    BY <2>1 DEF LoginFind, Begin, TypeOK
  <2>2. ASSUME NEW h \in Handler, NEW t \in RToken, NEW old \in BOOLEAN,
               RefreshFind(h, t, old)
        PROVE  UNCHANGED authVersion /\
               \A k \in Handler : pc'[k] = "revokeAll" => pc[k] = "revokeAll"
    BY <2>2 DEF RefreshFind, Begin, TypeOK
  <2>3. ASSUME NEW h \in Handler,
               \/ RefreshRevoke(h) \/ RefreshFindUser(h) \/ EvaluateAccess(h)
               \/ SignAccessToken(h) \/ PasswordFind(h) \/ RevokeAll(h) \/ Abort(h)
        PROVE  UNCHANGED authVersion /\
               \A k \in Handler : pc'[k] = "revokeAll" => pc[k] = "revokeAll"
    BY <2>3 DEF RefreshRevoke, RefreshFindUser, EvaluateAccess, SignAccessToken,
       PasswordFind, RevokeAll, Abort, Continue, Finish, TypeOK
  <2>4. ASSUME NEW h \in Handler, NEW t \in RToken, CreateRefreshToken(h, t)
        PROVE  UNCHANGED authVersion /\
               \A k \in Handler : pc'[k] = "revokeAll" => pc[k] = "revokeAll"
    BY <2>4 DEF CreateRefreshToken, Continue, Finish, TypeOK
  <2>5. ASSUME NEW h \in Handler, NEW a \in access, NEW u \in User, NEW to \in {0, 1},
               StatusBegin(h, a, u, to)
        PROVE  UNCHANGED authVersion /\
               \A k \in Handler : pc'[k] = "revokeAll" => pc[k] = "revokeAll"
    BY <2>5 DEF StatusBegin, Begin, TypeOK
  <2>6. ASSUME NEW h \in Handler, NEW a \in access, PasswordBegin(h, a)
        PROVE  UNCHANGED authVersion /\
               \A k \in Handler : pc'[k] = "revokeAll" => pc[k] = "revokeAll"
    BY <2>6 DEF PasswordBegin, Begin, TypeOK
  <2>7. ASSUME NEW t \in RToken, Logout(t)
        PROVE  UNCHANGED authVersion /\ UNCHANGED pc
    BY <2>7 DEF Logout
  <2>8. CASE UNCHANGED vars
    BY <2>8 DEF vars
  <2> QED
    BY <2>1, <2>2, <2>3, <2>4, <2>5, <2>6, <2>7, <2>8 DEF Next, HandlerStep
<1> QED
  BY <1>1, <1>2, <1>3, <1>4

(* An access token refused for its version is refused for ever. *)
THEOREM VersionRefusalIsFinal == Spec => RefusedForEver
<1>1. IInv /\ [Next]_vars =>
        (\A a \in access : a.ver # authVersion[a.sub] => a.ver # authVersion'[a.sub])
  BY VersionsGrow, FieldTypes DEF IInv, VersionsOrdered
<1> QED
  BY <1>1, InductiveInvariant, PTL DEF Spec, RefusedForEver

(* The transaction that signs an account out refuses its access tokens at  *)
(* once, before any refresh token is revoked.                              *)
THEOREM AccessEndsWithTheTransaction == Spec => SignOutIsImmediate
<1>1. ASSUME IInv, [Next]_vars
      PROVE  \A h \in Handler : pc[h] # "revokeAll" /\ pc'[h] = "revokeAll"
               => \A a \in access : a.sub = req[h].user => ~Accepted(a)'
  BY <1>1, VersionsGrow, FieldTypes DEF IInv, VersionsOrdered, Accepted
<1> QED
  BY <1>1, InductiveInvariant, PTL DEF Spec, SignOutIsImmediate

-----------------------------------------------------------------------------
(* The refinement of SessionLedger: what each kind of step does to the     *)
(* ledger that the variables stand for.                                    *)

(* A request that ends takes its promise along, one that makes a promise   *)
(* adds it, and any other step of a request leaves the promises alone.     *)
LEMMA PledgesOfAStep ==
  ASSUME NEW h \in Handler,
         \A k \in Handler : k # h => pc'[k] = pc[k] /\ req'[k] = req[k]
  PROVE  /\ ~Pledged(h)' => Pledges' \subseteq Pledges
         /\ ~Pledged(h) /\ ~Pledged(h)' => Pledges' = Pledges
         /\ Pledged(h) /\ Pledged(h)' /\ req'[h].user = req[h].user /\ req'[h].asOf = req[h].asOf
              => Pledges' = Pledges
         /\ ~Pledged(h) /\ Pledged(h)'
              => Pledges' = Pledges \cup {Authority(req'[h].user, req'[h].asOf)}
<1>1. \A k \in Handler : k # h => (Pledged(k)' <=> Pledged(k))
  BY DEF Pledged
<1>2. \A x : x \in Pledges <=>
              \E k \in Handler : Pledged(k) /\ x = Authority(req[k].user, req[k].asOf)
  BY DEF Pledges
<1>3. \A x : x \in Pledges' <=>
              \E k \in Handler : Pledged(k)' /\ x = Authority(req'[k].user, req'[k].asOf)
  BY DEF Pledges, Authority
<1> HIDE DEF Pledges, Pledged, Authority
<1>4. \A x : x \in Pledges' => x \in Pledges \/
                (Pledged(h)' /\ x = Authority(req'[h].user, req'[h].asOf))
  BY <1>1, <1>2, <1>3
<1>5. \A x : x \in Pledges => x \in Pledges' \/
                (Pledged(h) /\ x = Authority(req[h].user, req[h].asOf))
  BY <1>1, <1>2, <1>3
<1>6. Pledged(h)' => Authority(req'[h].user, req'[h].asOf) \in Pledges'
  BY <1>3
<1>7. Pledged(h) => Authority(req[h].user, req[h].asOf) \in Pledges
  BY <1>2
<1>8. ~Pledged(h)' => Pledges' \subseteq Pledges
  BY <1>4
<1>9. ~Pledged(h) => Pledges \subseteq Pledges'
  BY <1>5
<1>10. Pledged(h) /\ Pledged(h)' /\ req'[h].user = req[h].user /\ req'[h].asOf = req[h].asOf
         => Pledges' \subseteq Pledges /\ Pledges \subseteq Pledges'
  BY <1>4, <1>5, <1>6, <1>7
<1>11. ~Pledged(h) /\ Pledged(h)'
         => Pledges' = Pledges \cup {Authority(req'[h].user, req'[h].asOf)}
  BY <1>4, <1>6, <1>9
<1> QED
  BY <1>8, <1>9, <1>10, <1>11

(* Tickets and renewals follow the tokens and the rows.                    *)
LEMMA TicketsAndRenewals ==
  /\ UNCHANGED <<access, authVersion>> => Tickets' = Tickets
  /\ UNCHANGED row => Renewals' = Renewals
  /\ UNCHANGED status => Enabled' = Enabled
  /\ (\A t \in RToken : row'[t] = row[t] \/ row'[t].state = "revoked") => Renewals' \subseteq Renewals
<1>1. UNCHANGED <<access, authVersion>> => Tickets' = Tickets
  BY DEF Tickets
<1>2. UNCHANGED row => Renewals' = Renewals
  BY DEF Renewals, Live
<1>3. UNCHANGED status => Enabled' = Enabled
  BY DEF Enabled
<1>4. (\A t \in RToken : row'[t] = row[t] \/ row'[t].state = "revoked") => Renewals' \subseteq Renewals
  BY DEF Renewals, Live
<1> QED
  BY <1>1, <1>2, <1>3, <1>4

(* A step into version n + 1 of an account takes all of its tickets.       *)
LEMMA TicketsOfASignOut ==
  ASSUME IInv, NEW u \in User, BumpVersion(u), UNCHANGED access
  PROVE  Tickets' = {s \in Tickets : s.sub # u}
<1>1. \A a \in access : /\ a.sub \in User /\ a.ver \in Version /\ a.ver <= authVersion[a.sub]
  BY FieldTypes DEF IInv, VersionsOrdered
<1>2. \A a \in access : a.ver = authVersion'[a.sub] <=> a.ver = authVersion[a.sub] /\ a.sub # u
  BY <1>1, FieldTypes DEF BumpVersion, IInv, TypeOK
<1> QED
  BY <1>2 DEF Tickets, Authority

(* What a step of one request leaves of the others, by the way it moves.   *)
LEMMA OneRequestMoves ==
  ASSUME TypeOK, NEW h \in Handler
  PROVE  /\ \A step \in Step, r \in Request : Begin(h, step, r) =>
              /\ \A k \in Handler : k # h => pc'[k] = pc[k] /\ req'[k] = req[k]
              /\ pc[h] = "idle" /\ pc'[h] = step /\ req'[h] = r
         /\ \A from \in Step, to \in Step : Continue(h, from, to) =>
              /\ \A k \in Handler : k # h => pc'[k] = pc[k]
              /\ pc[h] = from /\ pc'[h] = to
         /\ \A from \in Step : Finish(h, from) =>
              /\ \A k \in Handler : k # h => pc'[k] = pc[k] /\ req'[k] = req[k]
              /\ pc[h] = from /\ pc'[h] = "idle"
  BY DEF TypeOK, Begin, Continue, Finish

(* A step that moves one request, touches no account, hands out nothing    *)
(* and revokes at most, withdraws what it withdraws, or changes nothing.   *)
LEMMA StepsThatWithdraw ==
  ASSUME NEW h \in Handler, UNCHANGED <<status, authVersion, access>>,
         \A k \in Handler : k # h => pc'[k] = pc[k] /\ req'[k] = req[k],
         \A t \in RToken : row'[t] = row[t] \/ row'[t].state = "revoked",
         \/ ~Pledged(h)'
         \/ Pledged(h) /\ req'[h].user = req[h].user /\ req'[h].asOf = req[h].asOf
  PROVE  Ledger!Withdraw
<1>1. Pledges' \subseteq Pledges
  BY PledgesOfAStep
<1>2. Renewals' \subseteq Renewals /\ Tickets' = Tickets /\ Enabled' = Enabled
  BY TicketsAndRenewals
<1> QED
  BY <1>1, <1>2 DEF Ledger!Withdraw

(* A request that has looked at an enabled account promises.               *)
LEMMA StepsThatPromise ==
  ASSUME NEW h \in Handler, NEW u \in User, status[u] = 1,
         UNCHANGED <<status, authVersion, row, access>>,
         \A k \in Handler : k # h => pc'[k] = pc[k] /\ req'[k] = req[k],
         ~Pledged(h), Pledged(h)', req'[h].user = u, req'[h].asOf = authVersion[u]
  PROVE  Ledger!Promise(u)
<1>1. Pledges' = Pledges \cup {Authority(u, authVersion[u])}
  BY PledgesOfAStep
<1>2. Renewals' = Renewals /\ Tickets' = Tickets /\ Enabled' = Enabled
  BY TicketsAndRenewals
<1>3. u \in Enabled
  BY DEF Enabled
<1> QED
  BY <1>1, <1>2, <1>3 DEF Ledger!Promise, Ledger!Authority, Authority

(* The two kinds of sign-out, of an account that has the version left.     *)
LEMMA StepsThatSignOut ==
  ASSUME IInv, NEW h \in Handler, NEW u \in User, BumpVersion(u), UNCHANGED <<row, access>>,
         \A k \in Handler : k # h => pc'[k] = pc[k] /\ req'[k] = req[k],
         ~Pledged(h), ~Pledged(h)',
         status' = status \/ status' = [status EXCEPT ![u] = 0]
  PROVE  Ledger!SignOut(u)
<1>1. Pledges' = Pledges
  BY PledgesOfAStep
<1>2. Renewals' = Renewals
  BY TicketsAndRenewals
<1>3. Tickets' = {s \in Tickets : s.sub # u}
  BY TicketsOfASignOut
<1>4. Enabled' \in {Enabled, Enabled \ {u}}
  <2>1. CASE status' = status
    BY <2>1 DEF Enabled
  <2>2. CASE status' = [status EXCEPT ![u] = 0]
    BY <2>2 DEF Enabled, IInv, TypeOK
  <2> QED
    BY <2>1, <2>2
<1>5. authVersion' = [authVersion EXCEPT ![u] = @ + 1]
  BY DEF BumpVersion
<1> QED
  BY <1>1, <1>2, <1>3, <1>4, <1>5 DEF Ledger!SignOut

(* CreateRefreshToken keeps its promise: the new row is a renewal and the  *)
(* new access token a ticket, if the version it carries is still current.  *)
LEMMA HandOverStep ==
  ASSUME IInv, NEW h \in Handler, NEW t \in RToken, CreateRefreshToken(h, t)
  PROVE  Ledger!HandOver
<1> DEFINE s == Authority(req[h].user, req[h].asOf)
           a == [sub |-> req[h].user, ver |-> req[h].ver, asOf |-> req[h].asOf]
<1> TypeOK
  BY DEF IInv
<1>1. /\ \A k \in Handler : k # h => pc'[k] = pc[k] /\ req'[k] = req[k]
      /\ pc[h] = "create" /\ pc'[h] = "idle"
  BY OneRequestMoves DEF CreateRefreshToken
<1>2. s \in Pledges
  BY <1>1 DEF Pledges, Pledged
<1>3. Pledges' \subseteq Pledges
  BY <1>1, PledgesOfAStep DEF Pledged
<1>4. Enabled' = Enabled /\ authVersion' = authVersion
  BY TicketsAndRenewals DEF CreateRefreshToken
<1>5. Renewals' = Renewals \cup {s}
  <2>1. /\ row[t].state = "none"
        /\ row'[t].state = "live" /\ Authority(row'[t].owner, row'[t].asOf) = s
        /\ \A k \in RToken : k # t => row'[k] = row[k]
    BY DEF CreateRefreshToken, TypeOK
  <2> QED
    BY <2>1 DEF Renewals, Live
<1>6. Tickets' \in {Tickets, Tickets \cup {s}}
  <2>1. access' = access \cup {a}
    BY DEF CreateRefreshToken
  <2>2. CASE a.ver = authVersion[a.sub]
    BY <2>1, <2>2, <1>4 DEF Tickets
  <2>3. CASE a.ver # authVersion[a.sub]
    BY <2>1, <2>3, <1>4 DEF Tickets
  <2> QED
    BY <2>2, <2>3
<1> QED
  BY <1>2, <1>3, <1>4, <1>5, <1>6 DEF Ledger!HandOver

(* Every step of the code is an entry of the ledger or none: one case per  *)
(* action.                                                                 *)
LEMMA LedgerStep == IInv /\ [Next]_vars => [Ledger!Next]_(Ledger!vars)
<1> SUFFICES ASSUME IInv, [Next]_vars PROVE [Ledger!Next]_(Ledger!vars)
  OBVIOUS
<1> TypeOK
  BY DEF IInv
<1> USE ConstantsAssumption, FieldTypes, OneRequestMoves
<1>1. ASSUME NEW h \in Handler, NEW u \in User, LoginFind(h, u) PROVE Ledger!Promise(u)
  <2>1. /\ \A k \in Handler : k # h => pc'[k] = pc[k] /\ req'[k] = req[k]
        /\ pc[h] = "idle" /\ pc'[h] = "evaluate"
        /\ req'[h].user = u /\ req'[h].asOf = authVersion[u]
    BY <1>1 DEF LoginFind, Begin, TypeOK, NoRequest
  <2> QED
    BY <1>1, <2>1, StepsThatPromise DEF LoginFind, Pledged
<1>2. ASSUME NEW h \in Handler, NEW t \in RToken, NEW old \in BOOLEAN,
             RefreshFind(h, t, old)
      PROVE  Ledger!Withdraw
  <2>1. /\ \A k \in Handler : k # h => pc'[k] = pc[k] /\ req'[k] = req[k]
        /\ pc'[h] = "revoke"
    BY <1>2 DEF RefreshFind, Begin, TypeOK
  <2> QED
    BY <1>2, <2>1, StepsThatWithdraw DEF RefreshFind, Pledged
<1>3. ASSUME NEW h \in Handler, RefreshRevoke(h) PROVE Ledger!Withdraw
  <2>1. /\ \A k \in Handler : k # h => pc'[k] = pc[k] /\ req'[k] = req[k]
        /\ pc'[h] \in {"idle", "findUser"}
    BY <1>3 DEF RefreshRevoke
  <2>2. \A t \in RToken : row'[t] = row[t] \/ row'[t].state = "revoked"
    BY <1>3 DEF RefreshRevoke, TypeOK, Row
  <2> QED
    BY <1>3, <2>1, <2>2, StepsThatWithdraw DEF RefreshRevoke, Pledged
<1>4. ASSUME NEW h \in Handler, RefreshFindUser(h)
      PROVE  Ledger!Promise(req[h].user) \/ Ledger!Withdraw
  <2>1. CASE /\ status[req[h].user] = 1 /\ Continue(h, "findUser", "evaluate")
             /\ req' = [req EXCEPT ![h].asOf = authVersion[req[h].user]]
    <3>1. /\ \A k \in Handler : k # h => pc'[k] = pc[k] /\ req'[k] = req[k]
          /\ req'[h].user = req[h].user /\ req'[h].asOf = authVersion[req[h].user]
      BY <2>1 DEF TypeOK, Request
    <3> QED
      BY <1>4, <2>1, <3>1, StepsThatPromise DEF RefreshFindUser, Pledged
  <2>2. CASE Finish(h, "findUser")
    BY <1>4, <2>2, StepsThatWithdraw DEF RefreshFindUser, Pledged
  <2> QED
    BY <1>4, <2>1, <2>2 DEF RefreshFindUser
<1>5. ASSUME NEW h \in Handler, EvaluateAccess(h) PROVE Ledger!Withdraw
  BY <1>5, StepsThatWithdraw DEF EvaluateAccess, Pledged
<1>6. ASSUME NEW h \in Handler, SignAccessToken(h) PROVE Ledger!Withdraw
  <2>1. /\ \A k \in Handler : k # h => req'[k] = req[k]
        /\ req'[h].user = req[h].user /\ req'[h].asOf = req[h].asOf
    BY <1>6 DEF SignAccessToken, TypeOK, Request
  <2> QED
    BY <1>6, <2>1, StepsThatWithdraw DEF SignAccessToken, Pledged
<1>7. ASSUME NEW h \in Handler, NEW t \in RToken, CreateRefreshToken(h, t)
      PROVE  Ledger!HandOver
  BY <1>7, HandOverStep
<1>8. ASSUME NEW h \in Handler, NEW a \in access, PasswordBegin(h, a) PROVE Ledger!Withdraw
  <2>1. /\ \A k \in Handler : k # h => pc'[k] = pc[k] /\ req'[k] = req[k]
        /\ pc'[h] = "findForPassword"
    BY <1>8 DEF PasswordBegin, Begin, TypeOK
  <2> QED
    BY <1>8, <2>1, StepsThatWithdraw DEF PasswordBegin, Pledged
<1>9. ASSUME NEW h \in Handler, PasswordFind(h) PROVE Ledger!Withdraw
  <2>1. \A k \in Handler : k # h => req'[k] = req[k]
    BY <1>9 DEF PasswordFind, TypeOK
  <2> QED
    BY <1>9, <2>1, StepsThatWithdraw DEF PasswordFind, Pledged
<1>10. ASSUME NEW h \in Handler, PasswordUpdate(h) PROVE Ledger!SignOut(req[h].user)
  BY <1>10, StepsThatSignOut DEF PasswordUpdate, Pledged
<1>11. ASSUME NEW h \in Handler, NEW a \in access, NEW u \in User, NEW to \in {0, 1},
              StatusBegin(h, a, u, to)
       PROVE  Ledger!Withdraw
  <2>1. /\ \A k \in Handler : k # h => pc'[k] = pc[k] /\ req'[k] = req[k]
        /\ pc'[h] = "updateStatus"
    BY <1>11 DEF StatusBegin, Begin, TypeOK
  <2> QED
    BY <1>11, <2>1, StepsThatWithdraw DEF StatusBegin, Pledged
<1>12. ASSUME NEW h \in Handler, StatusUpdate(h)
       PROVE  Ledger!SignOut(req[h].user) \/ Ledger!Enable(req[h].user)
  <2>1. CASE /\ req[h].to = 0 /\ BumpVersion(req[h].user)
             /\ Continue(h, "updateStatus", "revokeAll") /\ UNCHANGED req
    <3>1. /\ \A k \in Handler : k # h => pc'[k] = pc[k] /\ req'[k] = req[k]
          /\ ~Pledged(h) /\ ~Pledged(h)'
      BY <2>1 DEF Pledged
    <3>2. status' = [status EXCEPT ![req[h].user] = 0] /\ UNCHANGED <<row, access>>
      BY <1>12, <2>1 DEF StatusUpdate
    <3>3. Ledger!SignOut(req[h].user)
      BY <2>1, <3>1, <3>2, StepsThatSignOut
    <3> QED
      BY <3>3
  <2>2. CASE req[h].to = 1 /\ Finish(h, "updateStatus") /\ UNCHANGED authVersion
    <3>1. Pledges' = Pledges
      BY <2>2, PledgesOfAStep DEF Pledged
    <3>2. Tickets' = Tickets /\ Renewals' = Renewals
      BY <1>12, <2>2, TicketsAndRenewals DEF StatusUpdate
    <3>3. Enabled' = Enabled \cup {req[h].user}
      BY <1>12, <2>2 DEF StatusUpdate, Enabled, TypeOK
    <3> QED
      BY <2>2, <3>1, <3>2, <3>3 DEF Ledger!Enable
  <2> QED
    BY <1>12, <2>1, <2>2 DEF StatusUpdate
<1>13. ASSUME NEW h \in Handler, RevokeAll(h) PROVE Ledger!Withdraw
  <2>1. \A t \in RToken : row'[t] = row[t] \/ row'[t].state = "revoked"
    BY <1>13 DEF RevokeAll, Row
  <2> QED
    BY <1>13, <2>1, StepsThatWithdraw DEF RevokeAll, Pledged
<1>14. ASSUME NEW h \in Handler, Abort(h) PROVE Ledger!Withdraw
  <2>1. pc[h] \in Step
    BY DEF TypeOK
  <2> QED
    BY <1>14, <2>1, StepsThatWithdraw DEF Abort, Pledged
<1>15. ASSUME NEW t \in RToken, Logout(t) PROVE Ledger!Withdraw
  <2>1. \A k \in RToken : row'[k] = row[k] \/ row'[k].state = "revoked"
    BY <1>15 DEF Logout, TypeOK, Row
  <2>2. Pledges' = Pledges
    BY <1>15 DEF Logout, Pledges, Pledged
  <2>3. Renewals' \subseteq Renewals /\ Tickets' = Tickets /\ Enabled' = Enabled
    BY <1>15, <2>1, TicketsAndRenewals DEF Logout
  <2> QED
    BY <1>15, <2>2, <2>3 DEF Logout, Ledger!Withdraw
<1>16. CASE UNCHANGED vars
  <2>1. Pledges' = Pledges
    BY <1>16 DEF vars, Pledges, Pledged
  <2>2. Enabled' = Enabled /\ Tickets' = Tickets /\ Renewals' = Renewals
    BY <1>16, TicketsAndRenewals DEF vars
  <2> QED
    BY <1>16, <2>1, <2>2 DEF vars, Ledger!vars
<1> HIDE FieldTypes, OneRequestMoves
<1>17. ASSUME NEW h \in Handler, HandlerStep(h) PROVE Ledger!Next
  <2>1. req[h].user \in User
    BY FieldTypes
  <2> QED
    BY <1>1, <1>2, <1>3, <1>4, <1>5, <1>6, <1>7, <1>8, <1>9, <1>10, <1>11, <1>12,
       <1>13, <1>14, <1>17, <2>1
    DEF HandlerStep, Ledger!Next
<1> QED
  BY <1>15, <1>16, <1>17 DEF Next, Ledger!Next

(* The accounts start enabled, at version 1, and nothing is in force.      *)
LEMMA LedgerInit == Init => Ledger!Init
  BY DEF Init, Ledger!Init, Enabled, Pledges, Pledged, Tickets, Renewals, Live

(* The code implements the ledger of sessions: however requests interleave *)
(* and statements fail, an authority begins with a look at an enabled      *)
(* account, and what a sign-out takes never comes back by itself.          *)
THEOREM SessionsImplementLedger == Spec => ImplementsLedger
<1> QED
  BY InductiveInvariant, LedgerInit, LedgerStep, PTL DEF Spec, ImplementsLedger, Ledger!Spec

HIDE DEF Version, Step

-----------------------------------------------------------------------------
(* The throttle of Login.                                                  *)

(* A later date is the date of a later moment, and the first moments of a  *)
(* day lie less than a day after a moment of the day before.               *)
LEMMA Dates ==
  /\ \A s, t \in Int : Date(s) \in Int /\ (Date(s) > Date(t) => s > t)
  /\ \A t \in Nat : t % Day < LockMinutes => Date(t - LockMinutes) < Date(t)
  /\ \A t \in Nat : \/ Date(t + 1) = Date(t) /\ (t + 1) % Day = (t % Day) + 1
                    \/ (t + 1) % Day = 0 /\ Date(t + 1) = Date(t) + 1
<1>1. Day \in Nat \ {0} /\ LockMinutes \in Nat \ {0} /\ LockMinutes < Day
  BY ThrottleAssumption
<1>2. ASSUME NEW s \in Int, NEW t \in Int
      PROVE  Date(s) \in Int /\ (Date(s) > Date(t) => s > t)
  BY <1>1 DEF Date
<1>3. ASSUME NEW t \in Nat, t % Day < LockMinutes
      PROVE  Date(t - LockMinutes) < Date(t)
  <2>1. t = Day * (t \div Day) + (t % Day) /\ t \div Day \in Int /\ t % Day \in Int
    BY <1>1
  <2>2. t - LockMinutes < Day * (t \div Day)
    BY <1>1, <1>3, <2>1
  <2>3. (t - LockMinutes) \div Day < t \div Day
    BY <1>1, <2>1, <2>2
  <2> QED
    BY <2>3 DEF Date
<1>4. ASSUME NEW t \in Nat
      PROVE  \/ Date(t + 1) = Date(t) /\ (t + 1) % Day = (t % Day) + 1
             \/ (t + 1) % Day = 0 /\ Date(t + 1) = Date(t) + 1
  <2>1. t = Day * (t \div Day) + (t % Day) /\ t \div Day \in Int /\ t % Day \in 0..(Day - 1)
    BY <1>1
  <2>2. t + 1 = Day * ((t + 1) \div Day) + ((t + 1) % Day)
        /\ (t + 1) \div Day \in Int /\ (t + 1) % Day \in 0..(Day - 1)
    BY <1>1
  <2> QED
    BY <1>1, <2>1, <2>2 DEF Date
<1> QED
  BY <1>2, <1>3, <1>4

(* Numbers of rows are finite sets, whose size grows with them.            *)
LEMMA RowsFinite ==
  ASSUME ThrottleTypeOK, NEW R, NEW S, R \subseteq S, S \subseteq DOMAIN logged
  PROVE  /\ IsFiniteSet(S) /\ IsFiniteSet(R)
         /\ Cardinality(S) \in Nat /\ Cardinality(R) \in Nat
         /\ Cardinality(R) <= Cardinality(S)
<1>1. Len(logged) \in Nat /\ DOMAIN logged = 1..Len(logged)
  BY LenProperties DEF ThrottleTypeOK
<1>2. 1 \in Int /\ Len(logged) \in Int
  BY <1>1
<1>3. IsFiniteSet(DOMAIN logged)
  BY <1>1, <1>2, FS_Interval
<1>4. IsFiniteSet(S)
  BY <1>3, FS_Subset
<1>5. IsFiniteSet(R) /\ Cardinality(R) <= Cardinality(S)
  BY <1>4, FS_Subset
<1> QED
  BY <1>4, <1>5, FS_CardinalityType

(* The attempts that may still fail are at most those in flight.           *)
LEMMA AttemptsFinite ==
  ASSUME NEW S, S \subseteq Login
  PROVE  /\ IsFiniteSet(S) /\ Cardinality(S) \in Nat
         /\ Cardinality(Login) \in Nat /\ Cardinality(S) <= Cardinality(Login)
<1>1. IsFiniteSet(Login)
  BY ThrottleAssumption
<1>2. IsFiniteSet(S) /\ Cardinality(S) <= Cardinality(Login)
  BY <1>1, FS_Subset
<1> QED
  BY <1>1, <1>2, FS_CardinalityType

(* What a row that is inserted leaves of the log.                          *)
LEMMA RowLogged ==
  ASSUME ThrottleTypeOK, NEW r \in LogRow, logged' = Append(logged, r)
  PROVE  /\ logged' \in Seq(LogRow)
         /\ Len(logged) + 1 \notin DOMAIN logged
         /\ DOMAIN logged' = DOMAIN logged \cup {Len(logged) + 1}
         /\ logged'[Len(logged) + 1] = r
         /\ \A i \in DOMAIN logged : logged'[i] = logged[i]
<1>1. logged \in Seq(LogRow)
  BY DEF ThrottleTypeOK
<1>2. /\ logged' \in Seq(LogRow) /\ Len(logged') = Len(logged) + 1
      /\ \A i \in 1..Len(logged) : logged'[i] = logged[i]
      /\ logged'[Len(logged) + 1] = r
  BY <1>1, AppendProperties
<1>3. /\ Len(logged) \in Nat /\ DOMAIN logged = 1..Len(logged)
      /\ DOMAIN logged' = 1..Len(logged')
  BY <1>1, <1>2, LenProperties
<1> QED
  BY <1>2, <1>3

(* The fields of an attempt, and of the row it leaves, have their types.   *)
LEMMA AttemptTypes ==
  /\ NoAttempt \in LoginRecord /\ NoAttempt.result = "success"
  /\ \A n \in Name, a \in IP, r \in Result, t \in Nat :
       [name |-> n, ip |-> a, result |-> r, asOf |-> t] \in LoginRecord
  /\ \A j \in LoginRecord, r \in Result :
       /\ [j EXCEPT !.result = r] \in LoginRecord
       /\ [j EXCEPT !.result = r].name = j.name
       /\ [j EXCEPT !.result = r].result = r
  /\ \A j \in LoginRecord, t \in Nat :
       /\ j.name \in Name /\ j.ip \in IP /\ j.asOf \in Nat /\ j.result \in Result
       /\ j.result # "success" =>
            [name |-> j.name, ip |-> j.ip, result |-> j.result, at |-> t] \in LogRow
<1>1. (CHOOSE n \in Name : TRUE) \in Name /\ (CHOOSE a \in IP : TRUE) \in IP
  BY ThrottleAssumption
<1> QED
  BY <1>1 DEF NoAttempt, LoginRecord, LogRow, Result

(* A step of one attempt leaves the others alone. *)
LEMMA AttemptMoves ==
  ASSUME ThrottleTypeOK, NEW h \in Login, NEW from, NEW to \in {"idle", "compare", "log"},
         NEW r \in LoginRecord, Go(h, from, to, r)
  PROVE  /\ stage[h] = from /\ stage'[h] = to /\ login'[h] = r
         /\ \A g \in Login \ {h} : stage'[g] = stage[g] /\ login'[g] = login[g]
         /\ stage' \in [Login -> {"idle", "compare", "log"}]
         /\ login' \in [Login -> LoginRecord]
  BY DEF Go, ThrottleTypeOK

(* The log is empty at first. *)
LEMMA ThrottleInitInv == ThrottleInit => ThrottleInv
<1> SUFFICES ASSUME ThrottleInit PROVE ThrottleInv
  OBVIOUS
<1>0. DOMAIN logged = {}
  BY DEF ThrottleInit
<1>1. ThrottleTypeOK
  BY <1>0, AttemptTypes DEF ThrottleInit, ThrottleTypeOK
<1>2. LockedForCause
  BY DEF ThrottleInit, LockedForCause
<1>3. ASSUME NEW n \in Name
      PROVE  Cardinality(FailedToday(n)) + Cardinality(MayFail(n))
               <= MaxAttempts - 1 + Cardinality(Login)
  <2>1. FailedToday(n) = {} /\ MayFail(n) = {}
    BY <1>0 DEF ThrottleInit, FailedToday, MayFail
  <2> QED
    BY <2>1, FS_EmptySet, AttemptsFinite, ThrottleAssumption
<1> QED
  BY <1>1, <1>2, <1>3 DEF ThrottleInv, FailuresAccountedFor

(* The types. *)
LEMMA ThrottleTypeStep == ThrottleTypeOK /\ [ThrottleNext]_throttleVars => ThrottleTypeOK'
<1> SUFFICES ASSUME ThrottleTypeOK, [ThrottleNext]_throttleVars PROVE ThrottleTypeOK'
  OBVIOUS
<1>1. ASSUME NEW h \in Login, NEW n \in Name, NEW a \in IP, Attempt(h, n, a)
      PROVE  ThrottleTypeOK'
  <2>1. PICK to \in {"compare", "log"}, r \in LoginRecord : Go(h, "idle", to, r)
    BY <1>1, AttemptTypes DEF Attempt, Result, ThrottleTypeOK
  <2>2. UNCHANGED <<now, logged>>
    BY <1>1 DEF Attempt
  <2> QED
    BY <2>1, <2>2, AttemptMoves DEF ThrottleTypeOK
<1>2. ASSUME NEW h \in Login, NEW r \in {"failed", "success"}, Compare(h, r)
      PROVE  ThrottleTypeOK'
  <2>1. login[h] \in LoginRecord /\ r \in Result
    BY DEF ThrottleTypeOK, Result
  <2>2. [login[h] EXCEPT !.result = r] \in LoginRecord
    BY <2>1, AttemptTypes
  <2>3. UNCHANGED <<now, logged>>
    BY <1>2 DEF Compare
  <2>4. Go(h, "compare", "log", [login[h] EXCEPT !.result = r])
    BY <1>2 DEF Compare
  <2>5. stage' \in [Login -> {"idle", "compare", "log"}] /\ login' \in [Login -> LoginRecord]
    BY <2>2, <2>4, AttemptMoves
  <2> QED
    BY <2>3, <2>5 DEF ThrottleTypeOK
<1>3. ASSUME NEW h \in Login, NEW stored \in BOOLEAN, LogLogin(h, stored)
      PROVE  ThrottleTypeOK'
  <2>1. stage' \in [Login -> {"idle", "compare", "log"}] /\ login' \in [Login -> LoginRecord]
    BY <1>3, AttemptTypes, AttemptMoves DEF LogLogin
  <2>2. CASE UNCHANGED logged
    BY <1>3, <2>1, <2>2 DEF LogLogin, ThrottleTypeOK
  <2>3. CASE login[h].result # "success" /\
             logged' = Append(logged, [name |-> login[h].name, ip |-> login[h].ip,
                                       result |-> login[h].result, at |-> now])
    <3>1. [name |-> login[h].name, ip |-> login[h].ip,
           result |-> login[h].result, at |-> now] \in LogRow
      BY <2>3, AttemptTypes DEF ThrottleTypeOK
    <3>2. [name |-> login[h].name, ip |-> login[h].ip,
           result |-> login[h].result, at |-> now].at = now
      OBVIOUS
    <3>3. now' = now /\ now \in Nat /\ \A i \in DOMAIN logged : logged[i].at <= now
      BY <1>3 DEF LogLogin, ThrottleTypeOK
    <3>4. logged' \in Seq(LogRow) /\ \A i \in DOMAIN logged' : logged'[i].at <= now'
      BY <2>3, <3>1, <3>2, <3>3, RowLogged
    <3> QED
      BY <2>1, <3>3, <3>4 DEF ThrottleTypeOK
  <2> QED
    BY <1>3, <2>2, <2>3 DEF LogLogin
<1>4. CASE Tick
  <2>1. \A i \in DOMAIN logged : logged[i].at \in Nat
    <3>1. \A i \in DOMAIN logged : logged[i] \in LogRow
      BY ElementOfSeq, LenProperties DEF ThrottleTypeOK
    <3> QED
      BY <3>1 DEF LogRow
  <2> QED
    BY <1>4, <2>1 DEF Tick, ThrottleTypeOK
<1>5. CASE UNCHANGED throttleVars
  BY <1>5 DEF throttleVars, ThrottleTypeOK
<1> QED
  BY <1>1, <1>2, <1>3, <1>4, <1>5 DEF ThrottleNext

(* What the log says of a name or an address only grows.                   *)
LEMMA FailuresGrow ==
  ASSUME ThrottleTypeOK, [ThrottleNext]_throttleVars, NEW n, NEW a
  PROVE  /\ DOMAIN logged \subseteq DOMAIN logged'
         /\ \A i \in DOMAIN logged : logged'[i] = logged[i]
         /\ Failures(n, a) \subseteq Failures(n, a)'
<1>1. \/ logged' = logged
      \/ \E h \in Login :
           logged' = Append(logged, [name |-> login[h].name, ip |-> login[h].ip,
                                     result |-> login[h].result, at |-> now])
           /\ login[h].result # "success"
  BY DEF ThrottleNext, throttleVars, Attempt, Compare, LogLogin, Tick
<1>2. ASSUME NEW h \in Login,
             logged' = Append(logged, [name |-> login[h].name, ip |-> login[h].ip,
                                       result |-> login[h].result, at |-> now]),
             login[h].result # "success"
      PROVE  /\ DOMAIN logged \subseteq DOMAIN logged'
             /\ \A i \in DOMAIN logged : logged'[i] = logged[i]
  <2>1. [name |-> login[h].name, ip |-> login[h].ip,
         result |-> login[h].result, at |-> now] \in LogRow
    BY <1>2, AttemptTypes DEF ThrottleTypeOK
  <2> QED
    BY <1>2, <2>1, RowLogged
<1>3. /\ DOMAIN logged \subseteq DOMAIN logged'
      /\ \A i \in DOMAIN logged : logged'[i] = logged[i]
  BY <1>1, <1>2
<1> QED
  BY <1>3 DEF Failures

(* Every row has the time it was inserted at. *)
LEMMA RowTimes ==
  ASSUME ThrottleTypeOK
  PROVE  \A i \in DOMAIN logged : logged[i] \in LogRow /\ logged[i].at \in Nat
<1>1. \A i \in DOMAIN logged : logged[i] \in LogRow
  BY ElementOfSeq, LenProperties DEF ThrottleTypeOK
<1> QED
  BY <1>1 DEF LogRow

(* The failures of which a refusal tells. *)
Cause(n, a, t) == {i \in Failures(n, a) : logged[i].at > t}

(* They only grow. *)
LEMMA CauseGrows ==
  ASSUME ThrottleTypeOK, ThrottleTypeOK', [ThrottleNext]_throttleVars, NEW n, NEW a, NEW t \in Int,
         Cardinality(Cause(n, a, t)) >= MaxAttempts
  PROVE  Cardinality(Cause(n, a, t))' >= MaxAttempts
<1>1. Cause(n, a, t) \subseteq Cause(n, a, t)'
  BY FailuresGrow DEF Cause, Failures
<1>2. Cause(n, a, t) \subseteq DOMAIN logged /\ Cause(n, a, t)' \subseteq DOMAIN logged'
  BY DEF Cause, Failures
<1>3. /\ IsFiniteSet(Cause(n, a, t)')
      /\ Cardinality(Cause(n, a, t)') \in Nat
  <2>1. Len(logged') \in Nat /\ DOMAIN logged' = 1..Len(logged')
    BY LenProperties DEF ThrottleTypeOK
  <2>2. 1 \in Int /\ Len(logged') \in Int
    BY <2>1
  <2>3. IsFiniteSet(DOMAIN logged')
    BY <2>1, <2>2, FS_Interval
  <2>4. IsFiniteSet(Cause(n, a, t)')
    BY <1>2, <2>3, FS_Subset
  <2> QED
    BY <2>4, FS_CardinalityType
<1>4. Cardinality(Cause(n, a, t)) <= Cardinality(Cause(n, a, t)') /\ Cardinality(Cause(n, a, t)) \in Nat
  BY <1>1, <1>3, FS_Subset, FS_CardinalityType
<1> QED
  BY <1>3, <1>4, ThrottleAssumption

(* A refusal counts failures of a later date, and so of a later moment,    *)
(* than LockMinutes ago; afterwards the log only grows.                    *)
LEMMA LockedForCauseStep ==
  ThrottleTypeOK /\ ThrottleTypeOK' /\ LockedForCause /\ [ThrottleNext]_throttleVars
    => LockedForCause'
<1> SUFFICES ASSUME ThrottleTypeOK, ThrottleTypeOK', LockedForCause, [ThrottleNext]_throttleVars,
                    NEW h \in Login, stage'[h] = "log", login'[h].result = "locked"
             PROVE  Cardinality(Cause(login[h].name, login[h].ip, login[h].asOf - LockMinutes))'
                      >= MaxAttempts
  BY DEF LockedForCause, Cause
<1>1. CASE /\ stage[h] = "log" /\ login[h].result = "locked" /\ login'[h] = login[h]
  <2>1. PICK n, a, t : n = login[h].name /\ a = login[h].ip /\ t = login[h].asOf - LockMinutes
    OBVIOUS
  <2>a. login[h] \in LoginRecord
    BY DEF ThrottleTypeOK
  <2>b. login[h].asOf \in Nat
    BY <2>a DEF LoginRecord
  <2>2. t \in Int
    BY <2>1, <2>b, ThrottleAssumption
  <2>3. Cardinality(Cause(n, a, t)) >= MaxAttempts
    BY <1>1, <2>1 DEF LockedForCause, Cause
  <2>4. Cardinality(Cause(n, a, t))' >= MaxAttempts
    BY <2>2, <2>3, CauseGrows
  <2> QED
    BY <1>1, <2>1, <2>4
<1>2. ASSUME NEW n \in Name, NEW a \in IP, Attempt(h, n, a)
      PROVE  Cardinality(Cause(login[h].name, login[h].ip, login[h].asOf - LockMinutes))'
               >= MaxAttempts
  <2>1. login'[h] = [name |-> n, ip |-> a, asOf |-> now, result |->
          IF Cardinality(Counted(n, a)) >= MaxAttempts THEN "locked" ELSE "success"]
    BY <1>2 DEF Attempt, Go, ThrottleTypeOK
  <2>2. /\ login'[h].name = n /\ login'[h].ip = a /\ login'[h].asOf = now
        /\ Cardinality(Counted(n, a)) >= MaxAttempts
    BY <2>1
  <2>3. Counted(n, a) \subseteq Cause(n, a, now - LockMinutes)
    <3>1. \A i \in Failures(n, a) : logged[i].at \in Int
      BY RowTimes DEF Failures
    <3>2. now - LockMinutes \in Int
      BY ThrottleAssumption DEF ThrottleTypeOK
    <3> QED
      BY <3>1, <3>2, Dates DEF Counted, Cause
  <2>4. Cause(n, a, now - LockMinutes) \subseteq DOMAIN logged
    BY DEF Cause, Failures
  <2>5. Cardinality(Cause(n, a, now - LockMinutes)) >= MaxAttempts
    BY <2>2, <2>3, <2>4, RowsFinite, ThrottleAssumption
  <2>6. UNCHANGED <<now, logged>>
    BY <1>2 DEF Attempt
  <2> QED
    BY <2>2, <2>5, <2>6 DEF Cause, Failures
<1>3. ASSUME NEW g \in Login, g # h, NEW to, NEW from, NEW r, Go(g, from, to, r)
      PROVE  stage[h] = "log" /\ login[h].result = "locked" /\ login'[h] = login[h]
  BY <1>3 DEF Go, ThrottleTypeOK
<1>4. ASSUME NEW r \in {"failed", "success"}, Compare(h, r)
      PROVE  FALSE
  <2>1. login'[h] = [login[h] EXCEPT !.result = r] /\ login[h] \in LoginRecord /\ r \in Result
    BY <1>4 DEF Compare, Go, ThrottleTypeOK, Result
  <2>2. login'[h].result = r
    BY <2>1, AttemptTypes
  <2> QED
    BY <2>2
<1>5. ASSUME NEW stored \in BOOLEAN, LogLogin(h, stored) PROVE FALSE
  BY <1>5 DEF LogLogin, Go, ThrottleTypeOK
<1>6. CASE UNCHANGED <<stage, login>>
  BY <1>1, <1>6
<1>7. ASSUME NEW g \in Login, NEW n \in Name, NEW a \in IP, Attempt(g, n, a), g # h
      PROVE  stage[h] = "log" /\ login[h].result = "locked" /\ login'[h] = login[h]
  BY <1>3, <1>7 DEF Attempt
<1>8. ASSUME NEW g \in Login, NEW r \in {"failed", "success"}, Compare(g, r), g # h
      PROVE  stage[h] = "log" /\ login[h].result = "locked" /\ login'[h] = login[h]
  BY <1>3, <1>8 DEF Compare
<1>9. ASSUME NEW g \in Login, NEW stored \in BOOLEAN, LogLogin(g, stored), g # h
      PROVE  stage[h] = "log" /\ login[h].result = "locked" /\ login'[h] = login[h]
  BY <1>3, <1>9 DEF LogLogin
<1>10. CASE Tick \/ UNCHANGED throttleVars
  BY <1>6, <1>10 DEF Tick, throttleVars
<1>11. CASE \E g \in Login, n \in Name, a \in IP : Attempt(g, n, a)
  BY <1>1, <1>2, <1>7, <1>11
<1>12. CASE \E g \in Login, r \in {"failed", "success"} : Compare(g, r)
  BY <1>1, <1>4, <1>8, <1>12
<1>13. CASE \E g \in Login, stored \in BOOLEAN : LogLogin(g, stored)
  BY <1>1, <1>5, <1>9, <1>13
<1> QED
  BY <1>10, <1>11, <1>12, <1>13 DEF ThrottleNext

(* A step that adds to neither keeps the sum of failures and attempts.     *)
LEMMA SumKept ==
  ASSUME ThrottleTypeOK, NEW n \in Name, NEW R, NEW S,
         R \subseteq FailedToday(n), S \subseteq MayFail(n),
         Cardinality(FailedToday(n)) + Cardinality(MayFail(n))
           <= MaxAttempts - 1 + Cardinality(Login)
  PROVE  Cardinality(R) + Cardinality(S) <= MaxAttempts - 1 + Cardinality(Login)
<1>1. FailedToday(n) \subseteq DOMAIN logged
  BY DEF FailedToday
<1>2. /\ Cardinality(R) \in Nat /\ Cardinality(FailedToday(n)) \in Nat
      /\ Cardinality(R) <= Cardinality(FailedToday(n))
  BY <1>1, RowsFinite
<1>3. MayFail(n) \subseteq Login /\ S \subseteq Login
  BY DEF MayFail
<1>4. IsFiniteSet(MayFail(n)) /\ Cardinality(MayFail(n)) \in Nat /\ Cardinality(S) \in Nat
      /\ Cardinality(Login) \in Nat
  BY <1>3, AttemptsFinite
<1>5. Cardinality(S) <= Cardinality(MayFail(n))
  BY <1>4, FS_Subset
<1> QED
  BY <1>2, <1>4, <1>5, ThrottleAssumption

(* In the first LockMinutes of a day the query finds all failures of the   *)
(* day, so an attempt that is let through finds fewer than MaxAttempts;    *)
(* each row it may add takes the place of an attempt in flight.            *)
LEMMA FailuresAccountedForStep ==
  ThrottleTypeOK /\ ThrottleTypeOK' /\ FailuresAccountedFor /\ [ThrottleNext]_throttleVars
    => FailuresAccountedFor'
<1> DEFINE Bounded(F, M) == Cardinality(F) + Cardinality(M) <= MaxAttempts - 1 + Cardinality(Login)
<1> SUFFICES ASSUME ThrottleTypeOK, ThrottleTypeOK', FailuresAccountedFor,
                    [ThrottleNext]_throttleVars,
                    NEW n \in Name, now' % Day < LockMinutes
             PROVE  Bounded(FailedToday(n)', MayFail(n)')
  BY DEF FailuresAccountedFor
<1>a. ASSUME now % Day < LockMinutes PROVE Bounded(FailedToday(n), MayFail(n))
  BY <1>a DEF FailuresAccountedFor
<1>b. ASSUME now % Day < LockMinutes,
             FailedToday(n)' \subseteq FailedToday(n), MayFail(n)' \subseteq MayFail(n)
      PROVE  Bounded(FailedToday(n)', MayFail(n)')
  BY <1>a, <1>b, SumKept
<1>c. now' = now => now % Day < LockMinutes
  OBVIOUS
<1> HIDE DEF Bounded
<1>1. ASSUME NEW h \in Login, NEW m \in Name, NEW a \in IP, Attempt(h, m, a)
      PROVE  Bounded(FailedToday(n)', MayFail(n)')
  <2>0. /\ now' = now /\ logged' = logged /\ stage[h] = "idle"
        /\ FailedToday(n)' = FailedToday(n)
    BY <1>1 DEF Attempt, Go, FailedToday
  <2>1. \A g \in Login \ {h} : stage'[g] = stage[g] /\ login'[g] = login[g]
    BY <1>1 DEF Attempt, Go, ThrottleTypeOK
  <2>2. CASE m # n \/ Cardinality(Counted(m, a)) >= MaxAttempts
    <3>1. login'[h] = [name |-> m, ip |-> a, asOf |-> now, result |->
            IF Cardinality(Counted(m, a)) >= MaxAttempts THEN "locked" ELSE "success"]
          /\ stage'[h] = IF Cardinality(Counted(m, a)) >= MaxAttempts THEN "log" ELSE "compare"
      BY <1>1 DEF Attempt, Go, ThrottleTypeOK
    <3>2. h \notin MayFail(n)'
      <4>1. CASE m # n
        BY <3>1, <4>1 DEF MayFail
      <4>2. CASE Cardinality(Counted(m, a)) >= MaxAttempts
        BY <3>1, <4>2 DEF MayFail
      <4> QED
        BY <2>2, <4>1, <4>2
    <3>3. MayFail(n)' \subseteq MayFail(n)
      BY <2>1, <3>2 DEF MayFail
    <3> QED
      BY <1>b, <1>c, <2>0, <3>3
  <2>3. CASE m = n /\ ~(Cardinality(Counted(m, a)) >= MaxAttempts)
    <3>1. now \in Nat /\ now % Day < LockMinutes
      BY <1>c, <2>0 DEF ThrottleTypeOK
    <3>2. Date(now - LockMinutes) < Date(now)
      BY <3>1, Dates
    <3>3. FailedToday(n) \subseteq Counted(n, a)
      BY <3>2 DEF FailedToday, Counted, Failures
    <3>4. Counted(n, a) \subseteq DOMAIN logged
      BY DEF Counted, Failures
    <3>5. /\ Cardinality(FailedToday(n)) \in Nat /\ Cardinality(Counted(n, a)) \in Nat
          /\ Cardinality(FailedToday(n)) <= Cardinality(Counted(n, a))
      BY <3>3, <3>4, RowsFinite
    <3>6. MayFail(n)' \subseteq Login
      BY DEF MayFail
    <3>7. /\ Cardinality(MayFail(n)') \in Nat /\ Cardinality(Login) \in Nat
          /\ Cardinality(MayFail(n)') <= Cardinality(Login)
      BY <3>6, AttemptsFinite
    <3>8. Cardinality(FailedToday(n)) <= MaxAttempts - 1
      BY <2>3, <3>5, ThrottleAssumption
    <3> QED
      BY <2>0, <3>5, <3>7, <3>8, ThrottleAssumption DEF Bounded
  <2> QED
    BY <2>2, <2>3
<1>2. ASSUME NEW h \in Login, NEW r \in {"failed", "success"}, Compare(h, r)
      PROVE  Bounded(FailedToday(n)', MayFail(n)')
  <2>0. /\ now' = now /\ FailedToday(n)' = FailedToday(n)
    BY <1>2 DEF Compare, FailedToday
  <2>1. /\ stage[h] = "compare" /\ login'[h] = [login[h] EXCEPT !.result = r]
        /\ login[h] \in LoginRecord /\ r \in Result
        /\ \A g \in Login \ {h} : stage'[g] = stage[g] /\ login'[g] = login[g]
    BY <1>2 DEF Compare, Go, ThrottleTypeOK, Result
  <2>2. login'[h].name = login[h].name
    BY <2>1, AttemptTypes
  <2>3. MayFail(n)' \subseteq MayFail(n)
    BY <2>1, <2>2 DEF MayFail
  <2> QED
    BY <1>b, <1>c, <2>0, <2>3
<1>3. ASSUME NEW h \in Login, NEW stored \in BOOLEAN, LogLogin(h, stored)
      PROVE  Bounded(FailedToday(n)', MayFail(n)')
  <2>0. now' = now /\ now \in Nat
    BY <1>3 DEF LogLogin, ThrottleTypeOK
  <2>1. /\ stage[h] = "log" /\ stage'[h] = "idle" /\ login[h] \in LoginRecord
        /\ \A g \in Login \ {h} : stage'[g] = stage[g] /\ login'[g] = login[g]
    BY <1>3 DEF LogLogin, Go, ThrottleTypeOK
  <2>2. MayFail(n)' = MayFail(n) \ {h}
    BY <2>1 DEF MayFail
  <2>3. CASE logged' = logged
    <3>1. FailedToday(n)' = FailedToday(n)
      BY <2>0, <2>3 DEF FailedToday
    <3> QED
      BY <1>b, <1>c, <2>0, <2>2, <3>1
  <2> DEFINE r == [name |-> login[h].name, ip |-> login[h].ip,
                   result |-> login[h].result, at |-> now]
  <2>4. ASSUME login[h].result # "success", logged' = Append(logged, r)
        PROVE  Bounded(FailedToday(n)', MayFail(n)')
    <3>1. r \in LogRow
      BY <2>0, <2>1, <2>4, AttemptTypes
    <3>2. r.name = login[h].name /\ r.result = login[h].result /\ r.at = now
      OBVIOUS
    <3>3. PICK q : q = r
      OBVIOUS
    <3>4. /\ DOMAIN logged' = DOMAIN logged \cup {Len(logged) + 1}
          /\ Len(logged) + 1 \notin DOMAIN logged
          /\ logged'[Len(logged) + 1] = q
          /\ \A i \in DOMAIN logged : logged'[i] = logged[i]
      BY <2>4, <3>1, <3>3, RowLogged
    <3> HIDE DEF r
    <3>5. CASE login[h].name # n \/ login[h].result # "failed"
      <4>1. FailedToday(n)' \subseteq FailedToday(n)
        BY <2>0, <3>2, <3>3, <3>4, <3>5 DEF FailedToday
      <4> QED
        BY <1>b, <1>c, <2>0, <2>2, <4>1
    <3>6. CASE login[h].name = n /\ login[h].result = "failed"
      <4>1. FailedToday(n)' = FailedToday(n) \cup {Len(logged) + 1}
        BY <2>0, <3>2, <3>3, <3>4, <3>6 DEF FailedToday
      <4>2. FailedToday(n) \subseteq DOMAIN logged /\ MayFail(n) \subseteq Login
        BY DEF FailedToday, MayFail
      <4>3. /\ IsFiniteSet(FailedToday(n)) /\ Cardinality(FailedToday(n)) \in Nat
            /\ IsFiniteSet(MayFail(n)) /\ Cardinality(MayFail(n)) \in Nat
            /\ Cardinality(Login) \in Nat
        BY <4>2, RowsFinite, AttemptsFinite
      <4>4. Cardinality(FailedToday(n) \cup {Len(logged) + 1}) = Cardinality(FailedToday(n)) + 1
        BY <3>4, <4>2, <4>3, FS_AddElement
      <4>5. h \in MayFail(n)
        BY <2>1, <3>6 DEF MayFail
      <4>6. Cardinality(MayFail(n) \ {h}) = Cardinality(MayFail(n)) - 1
        BY <4>3, <4>5, FS_RemoveElement
      <4>7. Bounded(FailedToday(n), MayFail(n))
        BY <1>a, <1>c, <2>0
      <4> QED
        BY <2>2, <4>1, <4>3, <4>4, <4>6, <4>7, ThrottleAssumption DEF Bounded
    <3> QED
      BY <3>5, <3>6
  <2> QED
    BY <1>3, <2>3, <2>4 DEF LogLogin
<1>4. CASE Tick
  <2>0. /\ now' = now + 1 /\ now \in Nat /\ logged' = logged
        /\ MayFail(n)' = MayFail(n) /\ MayFail(n) \subseteq Login
        /\ \A i \in DOMAIN logged : logged[i].at <= now
    BY <1>4 DEF Tick, MayFail, ThrottleTypeOK
  <2>1. CASE Date(now + 1) = Date(now) /\ (now + 1) % Day = (now % Day) + 1
    <3>1. now % Day < LockMinutes
      <4>1. now % Day \in Int /\ LockMinutes \in Int
        BY <2>0, ThrottleAssumption
      <4>2. (now % Day) + 1 < LockMinutes
        BY <2>0, <2>1
      <4> QED
        BY <4>1, <4>2
    <3>2. FailedToday(n)' = FailedToday(n)
      BY <2>0, <2>1 DEF FailedToday
    <3> QED
      BY <1>b, <2>0, <3>1, <3>2
  <2>2. CASE (now + 1) % Day = 0 /\ Date(now + 1) = Date(now) + 1
    <3>1. \A i \in DOMAIN logged : Date(logged[i].at) <= Date(now)
      <4>1. ASSUME NEW i \in DOMAIN logged PROVE Date(logged[i].at) <= Date(now)
        <5>1. logged[i].at \in Int /\ now \in Int /\ logged[i].at <= now
          BY <2>0, RowTimes
        <5>2. Date(logged[i].at) \in Int /\ Date(now) \in Int
          BY <5>1, Dates
        <5>3. Date(logged[i].at) > Date(now) => logged[i].at > now
          BY <5>1, Dates
        <5> QED
          BY <5>1, <5>2, <5>3
      <4> QED
        BY <4>1
    <3>2. Date(now) \in Int
      BY <2>0, Dates
    <3>3. \A i \in DOMAIN logged : Date(logged[i].at) # Date(now + 1)
      <4>1. \A i \in DOMAIN logged : Date(logged[i].at) \in Int
        BY RowTimes, Dates
      <4> QED
        BY <2>2, <3>1, <3>2, <4>1
    <3>4. FailedToday(n)' = {}
      BY <2>0, <3>3 DEF FailedToday
    <3>5. /\ Cardinality(MayFail(n)) \in Nat /\ Cardinality(Login) \in Nat
          /\ Cardinality(MayFail(n)) <= Cardinality(Login)
      BY <2>0, AttemptsFinite
    <3>6. Cardinality(FailedToday(n)') = 0
      BY <3>4, FS_EmptySet
    <3> QED
      BY <2>0, <3>5, <3>6, ThrottleAssumption DEF Bounded
  <2> QED
    BY <2>0, <2>1, <2>2, Dates
<1>5. CASE UNCHANGED throttleVars
  <2>1. now' = now /\ FailedToday(n)' = FailedToday(n) /\ MayFail(n)' = MayFail(n)
    BY <1>5 DEF throttleVars, FailedToday, MayFail
  <2> QED
    BY <1>b, <1>c, <2>1
<1> QED
  BY <1>1, <1>2, <1>3, <1>4, <1>5 DEF ThrottleNext

(* Every reachable state satisfies the inductive invariant: what a refusal *)
(* was counted from stays in the log, and in the first LockMinutes of a    *)
(* day the failures of a name and its attempts in flight are bounded       *)
(* together.                                                               *)
THEOREM ThrottleInvariant == ThrottleSpec => []ThrottleInv
<1>1. ThrottleInv /\ [ThrottleNext]_throttleVars => ThrottleInv'
  BY ThrottleTypeStep, LockedForCauseStep, FailuresAccountedForStep DEF ThrottleInv
<1> QED
  BY <1>1, ThrottleInitInv, PTL DEF ThrottleSpec

(* Login refuses nobody as locked who has not failed MaxAttempts times     *)
(* within the last LockMinutes, under that name or from that address, for  *)
(* any limits and any number of overlapping attempts.                      *)
THEOREM LocksHaveACause == ThrottleSpec => []LockedForCause
<1>1. ThrottleInv => LockedForCause
  BY DEF ThrottleInv
<1> QED
  BY <1>1, ThrottleInvariant, PTL

(* In the first LockMinutes of a day Login lets a name fail at most        *)
(* MaxAttempts - 1 times, and once for each attempt in flight.             *)
THEOREM GuessesAreBounded == ThrottleSpec => []GuessesEarlyInTheDay
<1>1. ASSUME ThrottleInv, NEW n \in Name, now % Day < LockMinutes
      PROVE  Cardinality(FailedToday(n)) <= MaxAttempts - 1 + Cardinality(Login)
  <2>1. FailedToday(n) \subseteq DOMAIN logged /\ MayFail(n) \subseteq Login /\ ThrottleTypeOK
    BY <1>1 DEF FailedToday, MayFail, ThrottleInv
  <2>2. /\ Cardinality(FailedToday(n)) \in Nat /\ Cardinality(MayFail(n)) \in Nat
        /\ Cardinality(Login) \in Nat
    BY <2>1, RowsFinite, AttemptsFinite
  <2>3. Cardinality(FailedToday(n)) + Cardinality(MayFail(n))
          <= MaxAttempts - 1 + Cardinality(Login)
    BY <1>1 DEF ThrottleInv, FailuresAccountedFor
  <2> QED
    BY <2>2, <2>3, ThrottleAssumption
<1>2. ThrottleInv => GuessesEarlyInTheDay
  BY <1>1 DEF GuessesEarlyInTheDay
<1> QED
  BY <1>2, ThrottleInvariant, PTL

=============================================================================
