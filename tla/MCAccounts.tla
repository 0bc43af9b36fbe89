----------------------------- MODULE MCAccounts -----------------------------
(* Instances of Accounts for TLC. *)
EXTENDS Accounts, TLC

(* Requests, accounts and phones are interchangeable. *)
Interchangeable ==
  Permutations(Handler) \cup Permutations(Account) \cup Permutations(Phone)

=============================================================================
