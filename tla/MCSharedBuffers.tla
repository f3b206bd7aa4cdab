--------------------------- MODULE MCSharedBuffers ---------------------------
EXTENDS SharedBuffers
=============================================================================
