---------------------------- MODULE MCAppVersions ---------------------------
(* Instances of AppVersions for TLC. *)
EXTENDS AppVersions, TLC

(* Requests and rows are interchangeable. *)
HandlersAndRows == Permutations(Handler) \cup Permutations(Id)

=============================================================================
