-------------------------------- MODULE MCTotp --------------------------------
(* Small instances of Totp for TLC. *)
EXTENDS Totp, TLC

Symmetry == Permutations(Calls) \cup Permutations(Secrets) \cup Permutations(Challenges)
=============================================================================
