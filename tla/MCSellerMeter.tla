--------------------------- MODULE MCSellerMeter ---------------------------
EXTENDS SellerMeter
=============================================================================
