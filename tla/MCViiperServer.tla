--------------------------- MODULE MCViiperServer ---------------------------
EXTENDS ViiperServer
=============================================================================
