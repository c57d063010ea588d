------------------------- MODULE MCKeyslotLifecycle -------------------------
EXTENDS KeyslotLifecycle
=============================================================================
