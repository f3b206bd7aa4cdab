---------------------------- MODULE SharedBuffers ----------------------------
(***************************************************************************)
(* Several clients, a net thread each.  The buffer of OnUdpRead is static  *)
(* in the function: there is one for all of them.  (So are the buffer of   *)
(* SendUDPBuf and the one InputToKcp receives messages into.)              *)
(***************************************************************************)
EXTENDS Integers

CONSTANTS
    Clients,
    MaxPackets      \* bound: packets the server sends each client

VARIABLES
    pc,             \* where each net thread is in OnUdpRead
    pkg_buf,        \* the buffer: whose packet it holds, and its number
    arrived,        \* packets that came for each client
    input           \* history: the packets given to each client's kcp session

vars == <<pc, pkg_buf, arrived, input>>

Packet(c, n) == [flow |-> c, n |-> n]

Init ==
    /\ pc = [c \in Clients |-> "loop"]
    /\ pkg_buf = Packet(0, 0)
    /\ arrived = [c \in Clients |-> 0]
    /\ input = [c \in Clients |-> {}]

Goto(c, from, to) == pc[c] = from /\ pc' = [pc EXCEPT ![c] = to]

\* recvfrom: the server sends each client packets of its own flow.
Receive(c) ==
    /\ Goto(c, "loop", "check") /\ arrived[c] < MaxPackets
    /\ arrived' = [arrived EXCEPT ![c] = @ + 1]
    /\ pkg_buf' = Packet(c, arrived[c] + 1)
    /\ UNCHANGED input

CheckFlow(c) ==
    /\ Goto(c, "check", IF pkg_buf.flow = c THEN "input" ELSE "loop")
    /\ UNCHANGED <<pkg_buf, arrived, input>>

InputToKcp(c) ==
    /\ Goto(c, "input", "loop")
    /\ input' = [input EXCEPT ![c] = @ \cup {pkg_buf}]
    /\ UNCHANGED <<pkg_buf, arrived>>

Next == \E c \in Clients : Receive(c) \/ CheckFlow(c) \/ InputToKcp(c)

Spec == Init /\ [][Next]_vars

\* A client gives its session packets of its own flow only, as its test of the
\* flow wants: all others end with the error "proto flow != flow".
OwnFlow == \A c \in Clients : \A p \in input[c] : p.flow = c
=============================================================================
