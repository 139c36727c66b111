--------------------------- MODULE MCSecretManager ---------------------------
(* Instances of SecretManager for TLC. *)
EXTENDS SecretManager, TLC

Symmetry == Permutations(Threads) \cup Permutations(Tokens)
=============================================================================
