------------------------------- MODULE WakeUp -------------------------------
(***************************************************************************)
(* What a wake-up service promises, without saying how: when something     *)
(* changes about an account, each of its clients becomes due, and a client *)
(* stops being due only by confirming the state, or by an omission that is *)
(* on record.  The service may wake a client for no reason.                *)
(***************************************************************************)
EXTENDS Naturals

CONSTANTS User, Client, UserOf

VARIABLES
  change,   \* number of changes of each account
  known,    \* how many of them each client has confirmed
  due,      \* the clients that are going to confirm
  dropped   \* the clients that nobody is going to tell

vars == <<change, known, due, dropped>>

Init ==
  /\ change = [u \in User |-> 0]
  /\ known = [c \in Client |-> 0]
  /\ due \subseteq Client
  /\ dropped = {}

(* Something changes about account u. *)
Change(u) ==
  /\ change' = [change EXCEPT ![u] = @ + 1]
  /\ due' = due \cup {c \in Client : UserOf[c] = u}
  /\ UNCHANGED <<known, dropped>>

(* Client c asks for the state, and may have been signalled again. *)
Confirm(c) ==
  /\ c \in due
  /\ known' = [known EXCEPT ![c] = change[UserOf[c]]]
  /\ due' \in {due, due \ {c}}
  /\ dropped' = dropped \ {c}
  /\ UNCHANGED change

(* Clients are signalled without need. *)
Wake ==
  /\ due \subseteq due' /\ due' \subseteq Client
  /\ UNCHANGED <<change, known, dropped>>

(* A publication does not happen, which is on record. *)
Drop ==
  /\ dropped \subseteq dropped'
  /\ dropped' \subseteq Client
  /\ due' \subseteq Client
  /\ due \ due' \subseteq dropped'
  /\ UNCHANGED <<change, known>>

Next ==
  \/ \E u \in User : Change(u)
  \/ \E c \in Client : Confirm(c)
  \/ Wake
  \/ Drop

Spec == Init /\ [][Next]_vars

=============================================================================
