--------------------------- MODULE MCVaultSession ---------------------------
EXTENDS VaultSession
=============================================================================
