--------------------------- MODULE MCFoundationIpc ---------------------------
EXTENDS FoundationIpc
=============================================================================
