--------------------------- MODULE MCFundingFees ---------------------------
EXTENDS FundingFees
=============================================================================
