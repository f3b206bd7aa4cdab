---------------------------- MODULE MCKcpReentry ----------------------------
EXTENDS KcpReentry, TLC
=============================================================================
