--------------------------- MODULE MCMongoAdapter ---------------------------
(***************************************************************************)
(* Small instances of MongoAdapter for TLC.  Model values of different     *)
(* groups of stores are shared where they are never compared.              *)
(***************************************************************************)
EXTENDS MongoAdapter

LOCAL T == INSTANCE TLC

Symmetry == T!Permutations(Requests) \cup T!Permutations(Users) \cup T!Permutations(Hashes)
              \cup T!Permutations(Tokens) \cup T!Permutations(Challenges)
              \cup T!Permutations(MailTokens)
=============================================================================
