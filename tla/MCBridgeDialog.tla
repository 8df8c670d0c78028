--------------------------- MODULE MCBridgeDialog ---------------------------
EXTENDS BridgeDialog

MCEqual == [t \in Token |-> 2]
MCNone == {}
=============================================================================
