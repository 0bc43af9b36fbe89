----------------------------- MODULE Directory ------------------------------
(***************************************************************************)
(* What the models of accounts and of their roles share: the ids that rows *)
(* of the table users may have, NULL, and the requests in flight.          *)
(***************************************************************************)

CONSTANTS
  Account,  \* ids of users that may ever be created
  None,     \* NULL, and the value of what a request leaves out
  Handler   \* slots for requests in flight

=============================================================================
