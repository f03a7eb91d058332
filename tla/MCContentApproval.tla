------------------------- MODULE MCContentApproval -------------------------
(* Instance of ContentApproval for TLC.                                    *)
EXTENDS ContentApproval, TLC

Symmetric == Permutations(Imported)
=============================================================================
