--------------------------- MODULE MCLoginThrottle ---------------------------
(* Instances of LoginThrottle for TLC. *)
EXTENDS LoginThrottle, TLC

(* Attempts in flight are interchangeable. *)
Interchangeable == Permutations(Login)

=============================================================================
