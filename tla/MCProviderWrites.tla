-------------------------- MODULE MCProviderWrites --------------------------
(* Instance of ProviderWrites for TLC.                                     *)
EXTENDS ProviderWrites, TLC

Symmetric == Permutations(Slots)
=============================================================================
