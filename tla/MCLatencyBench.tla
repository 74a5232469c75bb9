--------------------------- MODULE MCLatencyBench ---------------------------
EXTENDS LatencyBenchInv

=============================================================================
