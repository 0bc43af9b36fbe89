--------------------------- MODULE MCAuthSessions ---------------------------
(* Instances of AuthSessions for TLC. *)
EXTENDS AuthSessions, TLC

CONSTANTS admin, u1   \* the super admin and an ordinary account

(* Versions start at 1: the ordinary account is signed out everywhere      *)
(* once, by a new password or by an administrator; the super admin, who    *)
(* cannot be disabled, never.                                              *)
OneSignOut == [u \in User |-> IF u = u1 THEN 2 ELSE 1]

(* Requests and random tokens are interchangeable. *)
HandlersAndTokens == Permutations(Handler) \cup Permutations(RToken)

=============================================================================
