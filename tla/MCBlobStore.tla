----------------------------- MODULE MCBlobStore -----------------------------
EXTENDS BlobStore, TLC

Symmetry == Permutations(Clients) \cup Permutations(Digests \ TooBig)
=============================================================================
