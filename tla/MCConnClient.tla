--------------------------- MODULE MCConnClient ---------------------------
EXTENDS ConnClient

(* Small instances of ConnClient: one time unit separates the immediate first *)
(* relink (interval 0) from the later ones.                                   *)
MCIntervals == {1}
MCTimeouts == {3}
MCBoth == BOOLEAN
=============================================================================
