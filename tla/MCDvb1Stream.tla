---------------------------- MODULE MCDvb1Stream ----------------------------
EXTENDS Dvb1Stream
=============================================================================
