-------------------------- MODULE MCPostgresAdapter --------------------------
(* Small instances of PostgresAdapter for TLC. *)
EXTENDS PostgresAdapter, TLC

Symmetry == Permutations(SessionTokens) \cup Permutations(Tokens)
=============================================================================
