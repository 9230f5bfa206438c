------------------------- MODULE MCGatewayLifecycle -------------------------
\* GatewayLifecycle for TLC.
EXTENDS GatewayLifecycle
=============================================================================
