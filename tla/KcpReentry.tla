----------------------------- MODULE KcpReentry -----------------------------
(***************************************************************************)
(* The calls under one pvp_ikcp_flush of the net thread: flush hands a     *)
(* packet to KCPOutput, whose send may fail and call InnerClose, which     *)
(* flushes and releases the same session while the first flush has not     *)
(* returned.  ConnClient takes all of this as one step.                    *)
(*                                                                         *)
(* A frame of the stack is a call of InnerClose or of flush; the top one   *)
(* runs.  Reading memory that was released is undefined: release has put   *)
(* null pointers into the lists, so walking them crashes; the plain fields *)
(* may still look as they were.                                            *)
(***************************************************************************)
EXTENDS Integers, SequencesExt

CONSTANTS
    PerPacket,      \* acknowledgements, or segments, that one packet holds
    MaxAcks,        \* bound: acknowledgements waiting for a flush
    MaxDue,         \* bound: segments a flush finds due
    MaxDups         \* bound: segments a flush finds to be sent once more

\* What an instance must give these constants.
PacketAssumption ==
    PerPacket \in Nat \ {0} /\ MaxAcks \in Nat /\ MaxDue \in Nat /\ MaxDups \in Nat

VARIABLES
    stack,      \* the calls, the running one last
    kcp,        \* the control block: what waits in it, and whether it is live
    kcp_,       \* the session's pointer is not null
    open,       \* tcp_sock_ and udp_sock_ are open
    running,    \* running_
    more,       \* relink_count_ < relink_interval_ms_vec_.size()
    udp,        \* enable_udp_
    frees,      \* history: releases of the block
    crashed     \* history: a list of released memory was walked

vars == <<stack, kcp, kcp_, open, running, more, udp, frees, crashed>>

CLIENT_CONNECT_TIMEOUT == 4
CLIENT_CONNECT_ERROR == 5
Reasons == -1 .. 7

\* A call that has just begun.
CloseCall(reason) == [op |-> "close", at |-> "flush", reason |-> reason]
FlushCall == [op |-> "flush", at |-> "start", count |-> 0, dups |-> 0, size |-> 0]

Top == stack[Len(stack)]
InCall(op, at) == stack # <<>> /\ ~ crashed /\ Top.op = op /\ Top.at = at

\* The running call becomes frame, and calls what is in calls.
Becomes(frame, calls) == stack' = Front(stack) \o <<frame>> \o calls
Returns == stack' = Front(stack)

Block(acks, due, dups) == [acks |-> acks, due |-> due, dups |-> dups, live |-> TRUE]

Init ==
    /\ stack = <<>>
    /\ kcp \in {Block(a, d, e) : a \in 0 .. MaxAcks, d \in 0 .. MaxDue, e \in 0 .. MaxDups}
    /\ kcp_ = TRUE /\ open = TRUE /\ running = TRUE
    /\ more \in BOOLEAN /\ udp \in BOOLEAN
    /\ frees = 0 /\ crashed = FALSE

-----------------------------------------------------------------------------
(* The net thread between calls                                            *)

\* Tick, or a message: a flush.
Tick ==
    /\ stack = <<>> /\ ~ crashed /\ running /\ kcp_
    /\ stack' = <<FlushCall>>
    /\ UNCHANGED <<kcp, kcp_, open, running, more, udp, frees, crashed>>

\* An error, a timeout, the server's goodbye, the user's close.
Close(reason) ==
    /\ stack = <<>> /\ ~ crashed
    /\ stack' = <<CloseCall(reason)>>
    /\ UNCHANGED <<kcp, kcp_, open, running, more, udp, frees, crashed>>

\* Segments come in, messages are sent, timers expire.
Work(acks, due, dups) ==
    /\ stack = <<>> /\ ~ crashed /\ kcp_
    /\ kcp' = Block(acks, due, dups)
    /\ UNCHANGED <<stack, kcp_, open, running, more, udp, frees, crashed>>

\* CheckRelink takes a slot of the vector; a login gives them back.
Relink ==
    /\ stack = <<>> /\ ~ crashed /\ running /\ ~ open /\ more
    /\ open' = TRUE
    /\ more' \in BOOLEAN
    /\ UNCHANGED <<stack, kcp, kcp_, running, udp, frees, crashed>>

-----------------------------------------------------------------------------
(* InnerClose                                                              *)

Reported(reason) == IF more THEN reason ELSE CLIENT_CONNECT_TIMEOUT

\* Mutant: an error is final too.
ErrorIsFinal(reason) == reason <= CLIENT_CONNECT_ERROR
IsFinal(reason) == reason < CLIENT_CONNECT_ERROR

\* A final reason flushes first: KcpSession::Flush does nothing without a session.
CloseBegins ==
    /\ InCall("close", "flush")
    /\ IF IsFinal(Reported(Top.reason))
       THEN Becomes([Top EXCEPT !.at = "release"], IF kcp_ THEN <<FlushCall>> ELSE <<>>)
       ELSE Becomes([Top EXCEPT !.at = "sockets"], <<>>)
    /\ UNCHANGED <<kcp, kcp_, open, running, more, udp, frees, crashed>>

\* Mutant: Release forgets to set the pointer to null.
ReleaseKeepsPointer ==
    IF kcp_ THEN /\ kcp' = [kcp EXCEPT !.live = FALSE]
                 /\ kcp_' = TRUE
                 /\ frees' = frees + 1
    ELSE UNCHANGED <<kcp, kcp_, frees>>

\* KcpSession::Release.
Release ==
    IF kcp_ THEN /\ kcp' = [kcp EXCEPT !.live = FALSE]
                 /\ kcp_' = FALSE
                 /\ frees' = frees + 1
    ELSE UNCHANGED <<kcp, kcp_, frees>>

CloseReleases ==
    /\ InCall("close", "release")
    /\ Becomes([Top EXCEPT !.at = "sockets"], <<>>)
    /\ Release
    /\ running' = FALSE
    /\ UNCHANGED <<open, more, udp, crashed>>

CloseEnds ==
    /\ InCall("close", "sockets")
    /\ Returns
    /\ open' = FALSE
    /\ UNCHANGED <<kcp, kcp_, running, more, udp, frees, crashed>>

-----------------------------------------------------------------------------
(* pvp_ikcp_flush; c and f are the block and the frame after this step.    *)

\* KCPOutput: the packet is sent or the send fails, which closes the connection.
\* A closed socket fails too, but only SendUDPBuf notices it before (:519).
Outputs ==
    IF udp /\ ~ open THEN {<<>>}
    ELSE IF open THEN {<<>>, <<CloseCall(CLIENT_CONNECT_ERROR)>>}
    ELSE {<<CloseCall(CLIENT_CONNECT_ERROR)>>}

\* One more segment for the packet; a full packet is sent before.
Pack(f, c) ==
    /\ kcp' = c
    /\ IF f.size = PerPacket
       THEN \E calls \in Outputs : Becomes([f EXCEPT !.size = 1], calls)
       ELSE Becomes([f EXCEPT !.size = @ + 1], <<>>)
    /\ UNCHANGED <<kcp_, open, running, more, udp, frees, crashed>>

Goes(f, c) ==
    /\ Becomes(f, <<>>)
    /\ kcp' = c
    /\ UNCHANGED <<kcp_, open, running, more, udp, frees, crashed>>

FlushBegins ==
    /\ InCall("flush", "start")
    /\ Goes([Top EXCEPT !.at = "acks", !.count = kcp.acks], kcp)

FlushAck ==
    /\ InCall("flush", "acks") /\ Top.count > 0 /\ kcp.live
    /\ Pack([Top EXCEPT !.count = @ - 1], kcp)

\* ackcount is set to zero only now; the probes fit in with the rest.
FlushAcksEnd ==
    /\ InCall("flush", "acks") /\ Top.count = 0 /\ kcp.live
    /\ Goes([Top EXCEPT !.at = "segs"], [kcp EXCEPT !.acks = 0])

\* Mutant: a segment is marked as sent only when it has been.
SegMarkedLate == kcp

\* xmit, resendts and fastack change before the packet may have to go.
SegMarked == [kcp EXCEPT !.due = @ - 1]

FlushSegment ==
    /\ InCall("flush", "segs") /\ kcp.due > 0 /\ kcp.live
    /\ Pack(Top, SegMarked)

\* The duplicates are found on the same walk, the last step of which this is.
FlushSegmentsEnd ==
    /\ InCall("flush", "segs") /\ kcp.due = 0 /\ kcp.live
    /\ Goes([Top EXCEPT !.at = "dups", !.dups = kcp.dups], kcp)

DupMarked == [kcp EXCEPT !.dups = IF @ > 0 THEN @ - 1 ELSE 0]

\* dup_segs is a local array: the walk over it survives a release.
FlushDup ==
    /\ InCall("flush", "dups") /\ Top.dups > 0 /\ Top.size < PerPacket
    /\ Goes([Top EXCEPT !.dups = @ - 1, !.size = @ + 1], DupMarked)

\* A full packet goes before the next duplicate is marked.
FlushDupsFull ==
    /\ InCall("flush", "dups") /\ Top.dups > 0 /\ Top.size = PerPacket
    /\ \E calls \in Outputs : Becomes([Top EXCEPT !.size = 0], calls)
    /\ UNCHANGED <<kcp, kcp_, open, running, more, udp, frees, crashed>>

FlushRest ==
    /\ InCall("flush", "dups") /\ Top.dups = 0 /\ Top.size > 0
    /\ \E calls \in Outputs : Becomes([Top EXCEPT !.at = "end", !.size = 0], calls)
    /\ UNCHANGED <<kcp, kcp_, open, running, more, udp, frees, crashed>>

FlushEnds ==
    /\ \/ InCall("flush", "end")
       \/ InCall("flush", "dups") /\ Top.dups = 0 /\ Top.size = 0
    /\ Returns
    /\ UNCHANGED <<kcp, kcp_, open, running, more, udp, frees, crashed>>

\* Released memory: acklist is null, and so is the next of a deleted segment.  On
\* the other paths the block may be gone too.
Crash ==
    /\ stack # <<>> /\ ~ crashed /\ Top.op = "flush" /\ ~ kcp.live
    /\ crashed' = TRUE
    /\ UNCHANGED <<stack, kcp, kcp_, open, running, more, udp, frees>>

Call ==
    \/ CloseBegins \/ CloseReleases \/ CloseEnds
    \/ FlushBegins \/ FlushAck \/ FlushAcksEnd \/ FlushSegment \/ FlushSegmentsEnd
    \/ FlushDup \/ FlushDupsFull \/ FlushRest \/ FlushEnds \/ Crash

Next ==
    \/ Tick
    \/ \E reason \in Reasons : Close(reason)
    \/ \E a \in 0 .. MaxAcks, d \in 0 .. MaxDue, e \in 0 .. MaxDups : Work(a, d, e)
    \/ Relink
    \/ Call

Spec == Init /\ [][Next]_vars

-----------------------------------------------------------------------------
(* Properties                                                              *)

\* A session is released once, however many closes are on the stack, and only
\* by a close that ends the net thread (conn_client.cpp:448-452, kcp_session.cpp:69).
ReleasedOnce == frees <= 1 /\ (frees = 1 => ~ kcp_) /\ (~ kcp.live <=> frees = 1)

\* While attempts are left, only a close that began as final releases the
\* session: a failed send below any flush does not (conn_client.cpp:445-448).
RelinkKeepsSession ==
    [][frees' > frees /\ more =>
          stack[1].op = "close" /\ IsFinal(stack[1].reason)]_vars

\* Closes and flushes do not nest for ever: the flush below a failed send finds
\* one segment less to send.  With more acknowledgements than one packet holds
\* it is not so: ackcount is set to zero too late (ikcp.cpp:1037-1051).
DepthBounded == Len(stack) <= 2 * (MaxDue + MaxDups + 2)

-----------------------------------------------------------------------------
\* ikcp_output asserts that it is given a session (ikcp.cpp:212-213): no packet
\* is put out for one that was released.
OutputOnLive == InCall("flush", "dups") /\ Top.dups = 0 /\ Top.size > 0 => kcp.live
=============================================================================
