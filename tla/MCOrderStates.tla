--------------------------- MODULE MCOrderStates ---------------------------
EXTENDS OrderStates

=============================================================================
