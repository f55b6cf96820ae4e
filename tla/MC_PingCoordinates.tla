------------------------- MODULE MC_PingCoordinates -------------------------
EXTENDS PingCoordinates
=============================================================================
