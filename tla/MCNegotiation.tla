--------------------------- MODULE MCNegotiation ---------------------------
EXTENDS Negotiation
=============================================================================
