----------------------------- MODULE MCKcpTimer -----------------------------
EXTENDS KcpTimer

(* Small instances of KcpTimer.  The loop takes one or three units, so that a *)
(* pass may skip a whole interval.                                            *)
MCSteps == {1, 3}
MCOpen == {TRUE}
MCBoth == BOOLEAN
=============================================================================
