-------------------------- MODULE MCVisitDeletion --------------------------
(* Instances of VisitDeletion for TLC. *)
EXTENDS VisitDeletion, TLC

Symmetric == Permutations(Requests) \cup Permutations(Scans) \cup Permutations(Objects)
=============================================================================
