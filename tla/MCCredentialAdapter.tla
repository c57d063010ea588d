------------------------ MODULE MCCredentialAdapter ------------------------
EXTENDS CredentialAdapter, TLC

\* Only invariants are checked and no caller or secret is treated apart.
Symmetry == Permutations(Callers) \cup Permutations(Secrets)
=============================================================================
