------------------------- MODULE MCServiceDiscovery -------------------------
EXTENDS ServiceDiscovery
=============================================================================
