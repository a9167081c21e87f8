----------------------------- MODULE MCStatistics -----------------------------
EXTENDS Statistics
=============================================================================
