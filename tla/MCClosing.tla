----------------------------- MODULE MCClosing -----------------------------
(***************************************************************************)
(* The two ways in which InnerClose is not alone, side by side: the main   *)
(* thread closes or deletes the client while the net thread runs           *)
(* (ClientThreads), and a close runs below the flush of a close            *)
(* (KcpReentry).  They share no state; a behaviour shows one of them.      *)
(***************************************************************************)
EXTENDS ClientThreads, TLC

CONSTANTS PerPacket, MaxAcks, MaxDue, MaxDups

VARIABLES
    part,       \* which of the two this behaviour shows
    stack, session, session_, open, running_, more, udp, frees, crashed

reentry == <<stack, session, session_, open, running_, more, udp, frees, crashed>>
all == <<vars, part, reentry>>

Calling == INSTANCE KcpReentry WITH
    kcp <- session, kcp_ <- session_, running <- running_

ASSUME ClosingAssumption == Calling!PacketAssumption

\* No more acknowledgements than one packet holds: what DepthBounded needs.
ASSUME OnePacketAssumption == MaxAcks <= PerPacket

MCInit ==
    /\ part \in {"threads", "calls"}
    /\ Init
    /\ Calling!Init
    /\ part = "threads" => session = Calling!Block(0, 0, 0) /\ ~ more /\ ~ udp

MCNext ==
    \/ part = "threads" /\ Next /\ UNCHANGED <<part, reentry>>
    \/ part = "calls" /\ Calling!Next /\ UNCHANGED <<vars, part>>

Alone == part = "threads" /\ UNCHANGED <<part, reentry>>

\* The fairness of ClientThreads; nothing of the other part is enabled by it.
MCSpec ==
    /\ MCInit /\ [][MCNext]_all
    /\ WF_all(Net /\ Alone)
    /\ WF_all((BlockTurn \/ BlockEnds) /\ Alone)
    /\ WF_all((DeleteJoins \/ InnerClose("main")) /\ Alone)

-----------------------------------------------------------------------------
(* The properties of KcpReentry, by the names they have there.             *)

\* A session is released once, however many closes are on the stack.
ReleasedOnce == Calling!ReleasedOnce

\* Closes and flushes do not nest for ever.
DepthBounded == Calling!DepthBounded

\* While attempts are left, only a close that began as final releases the session.
RelinkKeepsSession == Calling!RelinkKeepsSession
=============================================================================
