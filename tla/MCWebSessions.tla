--------------------------- MODULE MCWebSessions ---------------------------
(* Instances of WebSessions for TLC. *)
EXTENDS WebSessions, TLC

Symmetric == Permutations(Requests) \cup Permutations(Keys)
             \cup Permutations(Flows) \cup Permutations(Grants)
=============================================================================
