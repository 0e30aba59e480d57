------------------------- MODULE MCEncryptedBackend -------------------------
EXTENDS EncryptedBackend, TLC

Symmetric == Permutations(Request) \cup Permutations(Upload) \cup Permutations(Data)
=============================================================================
