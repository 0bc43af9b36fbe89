---------------------------- MODULE SessionLedger ----------------------------
(***************************************************************************)
(* What the sessions of AuthSessions amount to, without requests, rows or  *)
(* signatures: who may enter, under which authority, and what a sign-out   *)
(* takes away.  An authority is an account and the epoch in which somebody *)
(* looked at the account and found it in order.                            *)
(*                                                                         *)
(* The ledger promises that an authority begins with a look at an enabled  *)
(* account, that nothing is in force without one, that a sign-out takes    *)
(* every ticket of the account at once, and that what is taken never comes *)
(* back by itself.  It does not promise that an authority is of the        *)
(* current epoch: a promise given before a sign-out may be kept after it.  *)
(***************************************************************************)
EXTENDS Naturals

CONSTANT User

VARIABLES
  enabled,   \* the accounts that may enter
  epoch,     \* how often each account was signed out everywhere
  promised,  \* authorities of requests that are under way
  tickets,   \* authorities of access tokens in force, if enabled
  renewals   \* authorities of refresh tokens that have not been revoked

vars == <<enabled, epoch, promised, tickets, renewals>>

Authority(u, e) == [sub |-> u, asOf |-> e]

Init ==
  /\ enabled = User
  /\ epoch = [u \in User |-> 1]
  /\ promised = {} /\ tickets = {} /\ renewals = {}

(* A request looks at an enabled account, to log in or to refresh. *)
Promise(u) ==
  /\ u \in enabled
  /\ promised' = promised \cup {Authority(u, epoch[u])}
  /\ UNCHANGED <<enabled, epoch, tickets, renewals>>

(* Requests end without anything, or refresh tokens are taken back.        *)
Withdraw ==
  /\ promised' \subseteq promised
  /\ renewals' \subseteq renewals
  /\ UNCHANGED <<enabled, epoch, tickets>>

(* A promise is kept: the client gets a refresh token and a ticket, which  *)
(* an overtaking sign-out may already have put out of force.               *)
HandOver ==
  \E s \in promised :
    /\ promised' \subseteq promised
    /\ renewals' = renewals \cup {s}
    /\ tickets' \in {tickets, tickets \cup {s}}
    /\ UNCHANGED <<enabled, epoch>>

(* The account is signed out everywhere, and perhaps disabled.             *)
SignOut(u) ==
  /\ epoch' = [epoch EXCEPT ![u] = @ + 1]
  /\ enabled' \in {enabled, enabled \ {u}}
  /\ tickets' = {s \in tickets : s.sub # u}
  /\ UNCHANGED <<promised, renewals>>

Enable(u) ==
  /\ enabled' = enabled \cup {u}
  /\ UNCHANGED <<epoch, promised, tickets, renewals>>

Next ==
  \/ \E u \in User : Promise(u) \/ SignOut(u) \/ Enable(u)
  \/ Withdraw
  \/ HandOver

Spec == Init /\ [][Next]_vars

=============================================================================
