------------------------- MODULE MCExternalFunding -------------------------
EXTENDS ExternalFunding
=============================================================================
