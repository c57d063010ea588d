---------------------------- MODULE MCVaultStorage ----------------------------
(* Instances of VaultStorage for TLC.                                      *)
EXTENDS VaultStorage, TLC

\* Blob ids are fresh random values and contents are compared only for
\* equality, so both are interchangeable (used for safety only).
Interchangeable == Permutations(Blobs) \cup Permutations(Contents)
=============================================================================
