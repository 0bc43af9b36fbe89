--------------------------- MODULE MCAnnouncements --------------------------
(* Instances of Announcements for TLC. *)
EXTENDS Announcements, TLC

(* Requests and contents are interchangeable. *)
EditorsAndBodies == Permutations(Editor) \cup Permutations(Body)

=============================================================================
