-------------------------------- MODULE MCKcp --------------------------------
EXTENDS Kcp

(* Small instances of Kcp.  Two units of payload fit in a packet's segment. *)
Client == "client"
Server == "server"
MCEnds == {"client", "server"}
MCEager == {"client"}

Up(c) == ("client" :> c) @@ ("server" :> <<>>)
MCUpLong == Up(<<5>>)
MCUpMany == Up(<<3>> \o [i \in 1 .. 12 |-> 1])
MCDown == ("client" :> <<>>) @@ ("server" :> <<1, 3>>)
=============================================================================
