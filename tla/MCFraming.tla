------------------------------ MODULE MCFraming ------------------------------
EXTENDS Framing, TLC

(* Small instances of Framing. *)
Frame(kind, len) == [kind |-> kind, len |-> len]
MCFrames == {Frame("data", 3), Frame("label", 2), Frame("bye", 2), Frame("data", 6)}
MCBytes == [conn : 1 .. 2, id : 1 .. 3, pos : 1 .. 6, kind : {"data", "label", "bye", "out"},
            len : 2 .. 6]
=============================================================================
