--------------------------- MODULE MCBearerSessions ---------------------------
(* Small instances of BearerSessions for TLC. *)
EXTENDS BearerSessions, TLC

Symmetry == Permutations(Requests) \cup Permutations(Tokens) \cup Permutations(SessionIDs)
=============================================================================
