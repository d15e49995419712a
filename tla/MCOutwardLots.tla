---------------------------- MODULE MCOutwardLots ----------------------------
EXTENDS OutwardLots
=============================================================================
