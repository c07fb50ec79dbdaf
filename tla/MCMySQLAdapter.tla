--------------------------- MODULE MCMySQLAdapter ---------------------------
(***************************************************************************)
(* Small instances of MySQLAdapter for TLC.  Model values of different     *)
(* groups of stores are shared where they are never compared.              *)
(***************************************************************************)
EXTENDS MySQLAdapter

LOCAL T == INSTANCE TLC

Symmetry == T!Permutations(Requests) \cup T!Permutations(Users) \cup T!Permutations(Hashes)
              \cup T!Permutations(Tokens) \cup T!Permutations(Challenges)
              \cup T!Permutations(MailTokens)
=============================================================================
