--------------------------- MODULE MCClientThreads ---------------------------
EXTENDS ClientThreads, TLC
=============================================================================
