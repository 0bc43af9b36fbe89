---------------------------- MODULE MCRequestGate ----------------------------
(* Instances of RequestGate for TLC. *)
EXTENDS RequestGate, TLC

(* Requests in flight, and request ids are interchangeable. *)
Interchangeable == Permutations(Handler) \cup Permutations(Id)

=============================================================================
