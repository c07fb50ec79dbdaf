---------------------------- MODULE MCFederation ----------------------------
(* Small instances of Federation for TLC. *)
EXTENDS Federation, TLC

Symmetry == Permutations(Redirects) \cup Permutations(States) \cup Permutations(Nonces)
=============================================================================
