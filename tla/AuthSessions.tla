---------------------------- MODULE AuthSessions ----------------------------
(***************************************************************************)
(* Sessions of an account: short-lived access tokens that carry the        *)
(* account's auth_version, and long-lived refresh tokens kept as rows of   *)
(* refresh_tokens (service/auth.go, service/user.go, service/admin.go,     *)
(* middleware/auth.go, repository/user.go, repository/token.go).           *)
(*                                                                         *)
(* The pool holds one SQLite connection, so a statement or a transaction   *)
(* is atomic and two HTTP requests interleave between their statements.    *)
(* Each request is a handler; pc[h] names the next statement it will run.  *)
(***************************************************************************)
EXTENDS Naturals

CONSTANTS
  User,        \* accounts (rows of users); they exist from the start
  SuperAdmin,  \* the account of cfg.Auth.SuperAdminUsername
  Handler,     \* slots for requests in flight
  RToken,      \* the random refresh tokens that may ever be generated
  NoToken,     \* the absence of a refresh token
  MaxVersion   \* bound: an account's auth_version stops at MaxVersion[u]

ASSUME ConstantsAssumption ==
  /\ SuperAdmin \in User
  /\ NoToken \notin RToken
  /\ MaxVersion \in [User -> Nat]

VARIABLES
  status,       \* users.status: 1 enabled, 0 disabled
  authVersion,  \* user_auth_versions.version (1 when the row is missing)
  row,          \* refresh_tokens, by token
  access,       \* access tokens handed to clients
  pc,           \* the next statement of each handler
  req,          \* the local variables of each handler
  lost          \* history: accounts that a revocation failed to reach

vars == <<status, authVersion, row, access, pc, req, lost>>

Version == Nat \ {0}

(***************************************************************************)
(* A row of refresh_tokens.  The table holds owner (user_id) and state     *)
(* (absent, or the revoked flag).  parent, born and asOf are history: the  *)
(* token that was exchanged for this one, the owner's auth_version when    *)
(* the row was inserted, and the owner's auth_version when the request     *)
(* that inserted it read the users row.                                    *)
(***************************************************************************)
Row == [owner : User, state : {"none", "live", "revoked"},
        parent : RToken \cup {NoToken}, born : Version, asOf : Version]

(* The claims that matter of a signed access token; asOf is history.  A    *)
(* token past its exp is one that is never presented again, so time is not *)
(* modelled: whatever holds of every token handed out holds of those.      *)
AccessToken == [sub : User, ver : Version, asOf : Version]

Step == {"idle", "revoke", "findUser", "evaluate", "sign", "create",
         "findForPassword", "updatePassword", "updateStatus", "revokeAll"}

Request == [user : User, tok : RToken \cup {NoToken}, old : BOOLEAN,
            asOf : Version, ver : Version, to : {0, 1}]

NoRequest == [user |-> SuperAdmin, tok |-> NoToken, old |-> FALSE,
              asOf |-> 1, ver |-> 1, to |-> 0]

Init ==
  /\ status = [u \in User |-> 1]
  /\ authVersion = [u \in User |-> 1]
  /\ row = [t \in RToken |-> [owner |-> SuperAdmin, state |-> "none", parent |-> NoToken,
                              born |-> 1, asOf |-> 1]]
  /\ access = {}
  /\ pc = [h \in Handler |-> "idle"]
  /\ req = [h \in Handler |-> NoRequest]
  /\ lost = {}

-----------------------------------------------------------------------------
(* Handler bookkeeping. *)

Begin(h, step, r) ==
  /\ pc[h] = "idle"
  /\ pc' = [pc EXCEPT ![h] = step]
  /\ req' = [req EXCEPT ![h] = r]

Continue(h, from, to) ==
  /\ pc[h] = from
  /\ pc' = [pc EXCEPT ![h] = to]

Finish(h, from) ==
  /\ Continue(h, from, "idle")
  /\ req' = [req EXCEPT ![h] = NoRequest]

(* What the Auth middleware asks of a token: TokenState returns status and *)
(* version in one statement.                                               *)
Accepted(a) == /\ status[a.sub] = 1
               /\ a.ver = authVersion[a.sub]

-----------------------------------------------------------------------------
(* Login and RefreshToken.  They share the steps from Evaluate on.         *)

(* Login reads the user and goes on when it is enabled and the password    *)
(* matches the hash just read; a refused login only writes login_logs.     *)
LoginFind(h, u) ==
  /\ status[u] = 1
  /\ Begin(h, "evaluate", [NoRequest EXCEPT !.user = u, !.asOf = authVersion[u]])
  /\ UNCHANGED <<status, authVersion, row, access, lost>>

(* Mutant of RefreshFind: the revoked flag is not looked at. *)
RefreshFindEvenRevoked(h, t, old) ==
  /\ row[t].state # "none"
  /\ Begin(h, "revoke", [NoRequest EXCEPT !.user = row[t].owner, !.tok = t,
                                          !.old = old])
  /\ UNCHANGED <<status, authVersion, row, access, lost>>

(* RefreshToken up to the expiry test: an unknown or revoked token is      *)
(* refused.  old says that expires_at has passed, which any token may have.*)
RefreshFind(h, t, old) ==
  /\ row[t].state = "live"
  /\ Begin(h, "revoke", [NoRequest EXCEPT !.user = row[t].owner, !.tok = t,
                                          !.old = old])
  /\ UNCHANGED <<status, authVersion, row, access, lost>>

(* Mutant of RefreshRevoke: only an expired token is revoked. *)
RevokeExpiredOnly(h) ==
  LET t == req[h].tok IN
  /\ pc[h] = "revoke"
  /\ \/ /\ req[h].old
        /\ row' = [row EXCEPT ![t].state = "revoked"]
        /\ Finish(h, "revoke")
     \/ /\ ~req[h].old
        /\ Continue(h, "revoke", "findUser")
        /\ UNCHANGED <<row, req>>
  /\ UNCHANGED <<status, authVersion, access, lost>>

(* tokenRepo.Revoke of the presented token, for an expired token the end   *)
(* of the request.  Its error is ignored, so the row may stay as it was.   *)
RefreshRevoke(h) ==
  LET t == req[h].tok IN
  /\ pc[h] = "revoke"
  /\ \/ /\ row' = [row EXCEPT ![t].state = "revoked"]
        /\ UNCHANGED lost
     \/ /\ lost' = lost \cup {req[h].user}
        /\ UNCHANGED row
  /\ \/ /\ req[h].old
        /\ Finish(h, "revoke")
     \/ /\ ~req[h].old
        /\ Continue(h, "revoke", "findUser")
        /\ UNCHANGED req
  /\ UNCHANGED <<status, authVersion, access>>

(* Mutant of RefreshFindUser: the status of the owner is not looked at. *)
FindUserOfAnyStatus(h) ==
  /\ Continue(h, "findUser", "evaluate")
  /\ req' = [req EXCEPT ![h].asOf = authVersion[req[h].user]]
  /\ UNCHANGED <<status, authVersion, row, access, lost>>

(* RefreshToken reads the owner: a disabled one is refused. *)
RefreshFindUser(h) ==
  LET u == req[h].user IN
  /\ \/ /\ status[u] = 1
        /\ Continue(h, "findUser", "evaluate")
        /\ req' = [req EXCEPT ![h].asOf = authVersion[u]]
     \/ /\ status[u] = 0
        /\ Finish(h, "findUser")
  /\ UNCHANGED <<status, authVersion, row, access, lost>>

(* accessSvc.Evaluate: an enabled account is refused only when its usage   *)
(* period is over, which the administrator and the clock change freely,    *)
(* and the super admin never.                                              *)
EvaluateAccess(h) ==
  /\ \/ /\ Continue(h, "evaluate", "sign")
        /\ UNCHANGED req
     \/ /\ req[h].user # SuperAdmin
        /\ Finish(h, "evaluate")
  /\ UNCHANGED <<status, authVersion, row, access, lost>>

(* generateAccessToken reads the auth_version the claims will carry. *)
SignAccessToken(h) ==
  /\ Continue(h, "sign", "create")
  /\ req' = [req EXCEPT ![h].ver = authVersion[req[h].user]]
  /\ UNCHANGED <<status, authVersion, row, access, lost>>

(* generateRefreshToken inserts a row for a token never seen before, and   *)
(* the response hands both tokens to the client.                           *)
CreateRefreshToken(h, t) ==
  LET u == req[h].user IN
  /\ row[t].state = "none"
  /\ row' = [row EXCEPT ![t] = [owner |-> u, state |-> "live", parent |-> req[h].tok,
                                born |-> authVersion[u], asOf |-> req[h].asOf]]
  /\ access' = access \cup {[sub |-> u, ver |-> req[h].ver, asOf |-> req[h].asOf]}
  /\ Finish(h, "create")
  /\ UNCHANGED <<status, authVersion, lost>>

(* Logout revokes the presented token, whatever its state. *)
Logout(t) ==
  /\ row[t].state # "none"
  /\ row' = [row EXCEPT ![t].state = "revoked"]
  /\ UNCHANGED <<status, authVersion, access, pc, req, lost>>

-----------------------------------------------------------------------------
(* Operations that sign an account out everywhere. *)

(* ChangePassword, past the Auth middleware. *)
PasswordBegin(h, a) ==
  /\ Accepted(a)
  /\ Begin(h, "findForPassword", [NoRequest EXCEPT !.user = a.sub])
  /\ UNCHANGED <<status, authVersion, row, access, lost>>

(* FindByID; the old password (or the SMS code) is checked against what it *)
(* returned.  A failed check ends the request (Abort).                     *)
PasswordFind(h) ==
  /\ Continue(h, "findForPassword", "updatePassword")
  /\ req' = [req EXCEPT ![h].asOf = authVersion[req[h].user]]
  /\ UNCHANGED <<status, authVersion, row, access, lost>>

(* Mutants of BumpVersion: the row is created but never incremented, and   *)
(* the first bump creates it at 0.                                         *)
InsertVersionOnly(u) ==
  /\ authVersion[u] < MaxVersion[u]
  /\ UNCHANGED authVersion

CountFromZero(u) ==
  /\ authVersion[u] < MaxVersion[u]
  /\ authVersion' = [authVersion EXCEPT ![u] = IF @ = 1 THEN 0 ELSE @ + 1]

(* Both UpdatePassword and UpdateStatus(.., 0) bump the version in the     *)
(* transaction that writes users.                                          *)
BumpVersion(u) ==
  /\ authVersion[u] < MaxVersion[u]
  /\ authVersion' = [authVersion EXCEPT ![u] = @ + 1]

PasswordUpdate(h) ==
  /\ BumpVersion(req[h].user)
  /\ Continue(h, "updatePassword", "revokeAll")
  /\ UNCHANGED <<status, row, access, req, lost>>

(* UpdateUserStatus, past Auth and RequireSuperAdmin.  FindByID reads only *)
(* what never changes: that u exists and is not the super admin.           *)
StatusBegin(h, a, u, to) ==
  /\ Accepted(a)
  /\ a.sub = SuperAdmin
  /\ u # SuperAdmin
  /\ Begin(h, "updateStatus", [NoRequest EXCEPT !.user = u, !.to = to])
  /\ UNCHANGED <<status, authVersion, row, access, lost>>

(* Mutant of StatusUpdate: enabling the account drops its version row. *)
EnableForgetsVersion(h) ==
  LET u == req[h].user IN
  /\ status' = [status EXCEPT ![u] = req[h].to]
  /\ \/ /\ req[h].to = 0
        /\ BumpVersion(u)
        /\ Continue(h, "updateStatus", "revokeAll")
        /\ UNCHANGED req
     \/ /\ req[h].to = 1
        /\ authVersion' = [authVersion EXCEPT ![u] = 1]
        /\ Finish(h, "updateStatus")
  /\ UNCHANGED <<row, access, lost>>

(* UpdateStatus and what follows it: enabling ends the request, disabling  *)
(* goes on to RevokeAllForUser.                                            *)
StatusUpdate(h) ==
  LET u == req[h].user IN
  /\ status' = [status EXCEPT ![u] = req[h].to]
  /\ \/ /\ req[h].to = 0
        /\ BumpVersion(u)
        /\ Continue(h, "updateStatus", "revokeAll")
        /\ UNCHANGED req
     \/ /\ req[h].to = 1
        /\ Finish(h, "updateStatus")
        /\ UNCHANGED authVersion
  /\ UNCHANGED <<row, access, lost>>

(* Mutant of RevokeAll: one row is revoked instead of all. *)
RevokeOne(h) ==
  /\ \E t \in RToken :
       /\ row[t].owner = req[h].user
       /\ row' = [row EXCEPT ![t].state = "revoked"]
  /\ Finish(h, "revokeAll")
  /\ UNCHANGED <<status, authVersion, access, lost>>

(* RevokeAllForUser, the statement after the transaction. *)
RevokeAll(h) ==
  /\ row' = [t \in RToken |->
               IF row[t].owner = req[h].user /\ row[t].state = "live"
               THEN [row[t] EXCEPT !.state = "revoked"]
               ELSE row[t]]
  /\ Finish(h, "revokeAll")
  /\ UNCHANGED <<status, authVersion, access, lost>>

-----------------------------------------------------------------------------
(* The environment. *)

(* A request ends early: a statement returned an error, the handler        *)
(* panicked (Recoverer), or the process stopped.  A restart is this step   *)
(* for every handler: a handler keeps nothing outside its own variables.   *)
Abort(h) ==
  /\ pc[h] # "idle"
  /\ Finish(h, pc[h])
  /\ lost' = IF pc[h] = "revokeAll" THEN lost \cup {req[h].user} ELSE lost
  /\ UNCHANGED <<status, authVersion, row, access>>

-----------------------------------------------------------------------------

HandlerStep(h) ==
  \/ \E u \in User : LoginFind(h, u)
  \/ \E t \in RToken, old \in BOOLEAN : RefreshFind(h, t, old)
  \/ RefreshRevoke(h)
  \/ RefreshFindUser(h)
  \/ EvaluateAccess(h)
  \/ SignAccessToken(h)
  \/ \E t \in RToken : CreateRefreshToken(h, t)
  \/ \E a \in access : PasswordBegin(h, a)
  \/ PasswordFind(h)
  \/ PasswordUpdate(h)
  \/ \E a \in access, u \in User, to \in {0, 1} : StatusBegin(h, a, u, to)
  \/ StatusUpdate(h)
  \/ RevokeAll(h)
  \/ Abort(h)

Next ==
  \/ \E h \in Handler : HandlerStep(h)
  \/ \E t \in RToken : Logout(t)

Spec == Init /\ [][Next]_vars

-----------------------------------------------------------------------------
(* Properties. *)

(* Every variable keeps its type.                                          *)
TypeOK ==
  /\ status \in [User -> {0, 1}]
  /\ authVersion \in [User -> Version]
  /\ row \in [RToken -> Row]
  /\ access \subseteq AccessToken
  /\ pc \in [Handler -> Step]
  /\ req \in [Handler -> Request]
  /\ lost \subseteq User

Live(t) == row[t].state = "live"
RevokePending(u) == \E h \in Handler : pc[h] = "revokeAll" /\ req[h].user = u

(* "Change of password or disabling revokes all refresh tokens of the      *)
(* account": once nothing is pending, a usable refresh token was inserted  *)
(* under the account's current version, however logins, refreshes and      *)
(* several sign-outs interleave.  The exceptions are named: a revocation   *)
(* whose error UserService.ChangePassword drops, or that never ran.        *)
LiveTokensAreCurrent ==
  \A t \in RToken :
    Live(t) => LET u == row[t].owner IN
                 \/ row[t].born = authVersion[u]
                 \/ RevokePending(u)
                 \/ u \in lost

(* Whatever is usable, or about to be handed out, for a disabled account   *)
(* was authorised before it was disabled: no request that starts while the *)
(* account is disabled ever ends in a session, and none survives a second  *)
(* disabling as if it were newer.                                          *)
DisabledAccountsGainNothing ==
  \A u \in User : status[u] = 0 =>
    /\ \A a \in access : a.sub = u => a.asOf < authVersion[u]
    /\ \A t \in RToken : Live(t) /\ row[t].owner = u => row[t].asOf < authVersion[u]
    /\ \A h \in Handler :
         pc[h] \in {"evaluate", "sign", "create"} /\ req[h].user = u
           => req[h].asOf < authVersion[u]

(* A refresh token that was exchanged is never usable beside the one it    *)
(* was exchanged for, at any point of any interleaving, unless the         *)
(* revocation that RefreshToken does not check failed.                     *)
ExchangedTokenIsRevoked ==
  \A t \in RToken :
    row[t].state # "none" /\ row[t].parent # NoToken /\ row[t].owner \notin lost
      => row[row[t].parent].state = "revoked"

(* The requests that presented refresh token t and have not ended.         *)
Exchanging(t) == {h \in Handler : pc[h] # "idle" /\ req[h].tok = t}

(* Two refreshes with one token may both succeed, since RefreshToken reads *)
(* the revoked flag and sets it in two statements, but only when they      *)
(* overlap: once a token has a successor, nobody joins the requests that   *)
(* are exchanging it, so a copy presented later buys nothing.  The         *)
(* exception is a revocation that failed without RefreshToken noticing.    *)
ReplaysOverlap ==
  [][\A s, t \in RToken :
       row[s].state # "none" /\ row[s].parent = t /\ row[s].owner \notin lost
         => Exchanging(t)' \subseteq Exchanging(t)]_vars

(* The strengthening that makes the three invariants above inductive:      *)
(* versions read earlier are never ahead of the current one, and the token *)
(* a refresh carries past its revocation is revoked.                       *)
VersionsOrdered ==
  /\ \A a \in access : a.asOf <= a.ver /\ a.ver <= authVersion[a.sub]
  /\ \A t \in RToken : row[t].state # "none" =>
       /\ row[t].asOf <= authVersion[row[t].owner]
       /\ row[t].born <= authVersion[row[t].owner]
  /\ \A h \in Handler :
       pc[h] \in {"evaluate", "sign", "create"} => req[h].asOf <= authVersion[req[h].user]
  /\ \A h \in Handler :
       pc[h] = "create" => /\ req[h].asOf <= req[h].ver
                           /\ req[h].ver <= authVersion[req[h].user]

CarriedTokenIsRevoked ==
  \A h \in Handler :
    /\ pc[h] = "revoke" => /\ req[h].tok # NoToken
                           /\ row[req[h].tok].state # "none"
                           /\ row[req[h].tok].owner = req[h].user
    /\ pc[h] # "revoke" /\ req[h].tok # NoToken
         => row[req[h].tok].state = "revoked" \/ req[h].user \in lost

IInv ==
  /\ TypeOK
  /\ VersionsOrdered
  /\ CarriedTokenIsRevoked
  /\ LiveTokensAreCurrent
  /\ DisabledAccountsGainNothing
  /\ ExchangedTokenIsRevoked

(* An access token the version check has once refused is refused for ever, *)
(* also when the account is enabled again.                                 *)
RefusedForEver ==
  [][\A a \in access : a.ver # authVersion[a.sub] => a.ver # authVersion'[a.sub]]_vars

(* The transaction that disables an account or changes its password takes  *)
(* every access token of the account out of use at once, before any row of *)
(* refresh_tokens is touched.                                              *)
SignOutIsImmediate ==
  [][\A h \in Handler : pc[h] # "revokeAll" /\ pc'[h] = "revokeAll"
       => \A a \in access : a.sub = req[h].user => ~Accepted(a)']_vars

(* The ledger of sessions as it stands: the accounts that may enter, the   *)
(* authorities of requests past their look at the account, of access       *)
(* tokens of the current version, and of live rows.                        *)
Authority(u, version) == [sub |-> u, asOf |-> version]
Enabled == {u \in User : status[u] = 1}
Pledged(h) == pc[h] \in {"evaluate", "sign", "create"}
Pledges == {Authority(req[h].user, req[h].asOf) : h \in {h \in Handler : Pledged(h)}}
Tickets == {Authority(a.sub, a.asOf) : a \in {a \in access : a.ver = authVersion[a.sub]}}
Renewals == {Authority(row[t].owner, row[t].asOf) : t \in {t \in RToken : Live(t)}}

Ledger == INSTANCE SessionLedger WITH
  enabled <- Enabled, epoch <- authVersion,
  promised <- Pledges, tickets <- Tickets, renewals <- Renewals

(* However requests interleave and statements fail, the tables and the     *)
(* tokens together behave as that ledger: every step is one of its entries *)
(* or none.                                                                *)
ImplementsLedger == Ledger!Spec

(* auth-design.md: exchanging a refresh token revokes it and issues one    *)
(* new one.  Two refreshes with one token should not both succeed.         *)
OneSuccessor ==
  \A t1, t2 \in RToken :
    row[t1].parent # NoToken /\ row[t1].parent = row[t2].parent => t1 = t2

(* auth-design.md: after disabling, or changing the password, the user     *)
(* must log in again.  An access token that passes the Auth middleware     *)
(* should rest on a check of the account made under its current version.   *)
AcceptedTokensWereReauthorised ==
  \A a \in access : Accepted(a) => a.asOf = a.ver

=============================================================================
