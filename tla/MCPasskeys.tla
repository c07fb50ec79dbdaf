----------------------------- MODULE MCPasskeys -----------------------------
(* Small instances of Passkeys for TLC. *)
EXTENDS Passkeys, TLC

Symmetry == Permutations(Requests) \cup Permutations(Tokens) \cup Permutations(Credentials)
=============================================================================
