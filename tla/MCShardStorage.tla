--------------------------- MODULE MCShardStorage ---------------------------
(* Instances of ShardStorage for TLC. *)
EXTENDS ShardStorage, TLC

Interchangeable == Permutations(Stores) \cup Permutations(Loads)
=============================================================================
