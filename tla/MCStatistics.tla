---------------------------- MODULE MCStatistics ----------------------------
EXTENDS Statistics

MCAll == {"inscribe", "market", "transfer"}
=============================================================================
