-------------------------- MODULE MCMessageGateway --------------------------
EXTENDS MessageGateway
=============================================================================
