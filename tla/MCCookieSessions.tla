--------------------------- MODULE MCCookieSessions ---------------------------
(* Small instances of CookieSessions for TLC. *)
EXTENDS CookieSessions, TLC

Symmetry ==
    Permutations(Requests) \cup Permutations(Tokens \ CachedTokens) \cup Permutations(Subjects)
=============================================================================
