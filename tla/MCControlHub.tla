---------------------------- MODULE MCControlHub ----------------------------
(* Instances of ControlHub for TLC. *)
EXTENDS ControlHub, TLC

CONSTANTS u1, c1

OneClient == c1 :> u1

(* Two changes of the account, so that a signal can be dropped behind a    *)
(* pending one, and one announcement to compete for the channel.           *)
Changes == [k \in Kind |-> IF k = "account" THEN 2 ELSE 1]

=============================================================================
