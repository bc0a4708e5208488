---------------------------- MODULE MCTokenCache ----------------------------
(* Instances of TokenCache for TLC. *)
EXTENDS TokenCache, TLC

Interchangeable == Permutations(Loads)   \* one of the stores may be of an empty secret
=============================================================================
