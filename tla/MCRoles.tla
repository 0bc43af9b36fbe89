------------------------------ MODULE MCRoles -------------------------------
(* Instances of Roles for TLC. *)
EXTENDS Roles, TLC

Requests == Permutations(Handler)

=============================================================================
