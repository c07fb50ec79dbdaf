--------------------------- MODULE MCRedisAdapter ---------------------------
(***************************************************************************)
(* Small instances of RedisAdapter for TLC.  Password hashes, identities   *)
(* and cookie tokens are the same model values, which are never compared   *)
(* across kinds: one permutation is applied to all three.                  *)
(***************************************************************************)
EXTENDS RedisAdapter, TLC

Symmetry == Permutations(Requests) \cup Permutations(Hashes) \cup Permutations(Tokens)
=============================================================================
