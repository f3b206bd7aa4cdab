--------------------------- MODULE ReliableChannel ---------------------------
(***************************************************************************)
(* What the two ends of a kcp session promise their users: each direction  *)
(* is a FIFO channel.  A message is received once, whole, in the order in  *)
(* which the messages were sent, and every message sent is received.       *)
(***************************************************************************)
EXTENDS Sequences, Naturals

CONSTANTS
    Ends,       \* the two ends of the session
    Messages    \* what can be sent

VARIABLES
    sent,       \* sent[e]: the messages accepted from the user of e
    got         \* got[e]: the messages handed to the user of e

vars == <<sent, got>>

Peer(e) == CHOOSE p \in Ends : p # e

TypeOK == sent \in [Ends -> Seq(Messages)] /\ got \in [Ends -> Seq(Messages)]

Init == sent = [e \in Ends |-> <<>>] /\ got = [e \in Ends |-> <<>>]

Send(e, m) == sent' = [sent EXCEPT ![e] = Append(@, m)] /\ UNCHANGED got

\* The next n messages of the peer reach the user of e.
Receive(e, n) ==
    LET from == Len(got[e])
    IN  /\ from + n <= Len(sent[Peer(e)])
        /\ got' = [got EXCEPT ![e] = @ \o SubSeq(sent[Peer(e)], from + 1, from + n)]
        /\ UNCHANGED sent

ReceiveSome(e) == \E n \in 1 .. Len(sent[Peer(e)]) : Receive(e, n)

Next == \E e \in Ends : (\E m \in Messages : Send(e, m)) \/ ReceiveSome(e)

Spec == Init /\ [][Next]_vars /\ \A e \in Ends : WF_vars(ReceiveSome(e))
=============================================================================
