---------------------------- MODULE MCMasterKey ----------------------------
(* Instances of MasterKey for TLC. *)
EXTENDS MasterKey, TLC

Interchangeable == Permutations(Stores) \cup Permutations(Loads)
=============================================================================
