----------------------------- MODULE MCJobQueue -----------------------------
(* Instances of JobQueue for TLC. *)
EXTENDS JobQueue, TLC

Symmetric == Permutations(Workers) \cup Permutations(Dispatchers)
=============================================================================
