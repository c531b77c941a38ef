--------------------------- MODULE MCSupplierReply ---------------------------
EXTENDS SupplierReply
=============================================================================
