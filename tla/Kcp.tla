--------------------------------- MODULE Kcp ---------------------------------
(***************************************************************************)
(* The reliable transport of ikcp.cpp: two control blocks (ikcpcb) that    *)
(* talk through a network which may lose, duplicate and reorder packets.   *)
(* Both ends run the same functions; the client drains its receive queue   *)
(* inside the call that takes a packet in (ConnClientPrivate::InputToKcp). *)
(*                                                                         *)
(* Timers are abstracted: in a flush any segment sent before may be due,   *)
(* and any may have waited long enough to be sent once more (dupsend).     *)
(* The clock, the round-trip times and the timeouts are in KcpTimer.       *)
(***************************************************************************)
EXTENDS SeqNum, SequencesExt, FiniteSetsExt, Functions

CONSTANTS
    Ends,        \* the two ends
    Eager,       \* the ends whose user drains the receive queue at each input
    Lengths,     \* Lengths[e]: the lengths of the messages e will send
    Mtu,         \* the size of a packet (mtu)
    Overhead,    \* the size of a segment header (IKCP_OVERHEAD)
    SndWnd,      \* snd_wnd
    RcvWnd,      \* rcv_wnd
    WndSnd,      \* cwnd at first (IKCP_WND_SND)
    WndRcv,      \* rmt_wnd until the peer is heard (IKCP_WND_RCV)
    NoCwnd,      \* nocwnd
    ThreshMin,   \* IKCP_THRESH_MIN and IKCP_THRESH_INIT
    FastResend,  \* fastresend, 0 for off
    DeadLink,    \* dead_link
    FragLimit,   \* a message of this many fragments is refused (10000)
    DupCount,    \* dupsendcount
    DupAck,      \* dupack
    DupDynamic,  \* dupsend_dynamic
    DupWndOn,    \* dupsend_wnd_on
    MaxNet,      \* bound: a flush waits while as many packets are on their way
    MaxAcks,     \* bound: an input waits while as many acknowledgements are due
    MaxFaults    \* bound: packets lost, duplicated or overtaken

Mss == Mtu - Overhead

ASSUME EndsAssumption == (\E a, b \in Ends : a # b /\ Ends = {a, b}) /\ Eager \subseteq Ends
ASSUME SizeAssumption == Overhead \in Nat \ {0} /\ Mtu \in Nat /\ Mtu > Overhead
ASSUME WindowAssumption == {SndWnd, RcvWnd, WndSnd, WndRcv, ThreshMin} \subseteq Nat \ {0}
ASSUME LengthsAssumption == Lengths \in [Ends -> Seq(Nat \ {0})]
ASSUME CountAssumption == {FastResend, DeadLink, DupCount} \subseteq Nat

VARIABLES
    kcp,        \* kcp[e]: the control block of e
    net,        \* net[e]: the packets on their way to e
    faults,     \* the faults of the network so far
    sent,       \* sent[e]: the messages kcp has accepted from e (history)
    got         \* got[e]: the messages handed to e (history)

vars == <<kcp, net, faults, sent, got>>

Peer(e) == CHOOSE p \in Ends : p # e

\* The i-th message of e: distinct bytes, so that a mixture would show.
Message(e, i) == [b \in 1 .. Lengths[e][i] |-> <<i, b>>]
Messages == UNION {{Message(e, i) : i \in DOMAIN Lengths[e]} : e \in Ends}

-----------------------------------------------------------------------------
(* The control block.                                                      *)

\* pvp_ikcp_create, after the Update that CreateKCP runs at once.
NewKcp == [
    snd_una |-> 0, snd_nxt |-> 0, rcv_nxt |-> 0,
    snd_queue |-> <<>>, snd_buf |-> <<>>, rcv_buf |-> <<>>, rcv_queue |-> <<>>,
    acklist |-> <<>>,           \* the numbers to acknowledge
    rmt_wnd |-> WndRcv,        \* the window the peer told last
    cwnd |-> WndSnd, incr |-> 0, ssthresh |-> ThreshMin,
    probe |-> {},               \* IKCP_ASK_SEND, IKCP_ASK_TELL
    probing |-> FALSE,          \* probe_wait # 0
    dead |-> FALSE]             \* state = -1

\* The segments of a message: frg counts the fragments that follow (pvp_ikcp_send).
Fragments(data) ==
    LET count == (Len(data) + Mss - 1) \div Mss
    IN  [i \in 1 .. count |->
            [frg |-> count - i,
             data |-> SubSeq(data, (i - 1) * Mss + 1, Min({i * Mss, Len(data)}))]]

\* ikcp_wnd_unused.
WndUnused(k) == IF Len(k.rcv_queue) < RcvWnd THEN RcvWnd - Len(k.rcv_queue) ELSE 0

\* A segment as ikcp_encode_seg writes it.  sn and una are kept whole, for the
\* properties; the receiver reads their low halves.
Wire(k, cmd, sn, frg, data) ==
    [cmd |-> cmd, frg |-> frg, wnd |-> Short(WndUnused(k)), sn |-> sn,
     una |-> k.rcv_nxt, data |-> data]

Data(k, cmd, seg) == Wire(k, cmd, seg.sn, seg.frg, seg.data)

Acks(k) == [i \in DOMAIN k.acklist |-> Wire(k, "ACK", k.acklist[i], 0, <<>>)]

Size(packet) == FoldLeft(LAMBDA n, seg : n + Overhead + Len(seg.data), 0, packet)

\* Segments are written one after the other into a buffer; the buffer goes out
\* when the next one would not fit.
AddToPackets(packets, seg) ==
    IF packets # <<>> /\ Size(Last(packets)) + Overhead + Len(seg.data) <= Mtu
    THEN Append(Front(packets), Append(Last(packets), seg))
    ELSE Append(packets, <<seg>>)

Packets(segs) == FoldLeft(AddToPackets, <<>>, segs)

-----------------------------------------------------------------------------
(* Receiving.                                                              *)

\* Mutant: the number is not compared with rcv_nxt.
MoveReadyAnyOrder(k) ==
    LET n == Min({Len(k.rcv_buf), Max({0, RcvWnd - Len(k.rcv_queue)})})
    IN  [k EXCEPT !.rcv_queue = @ \o SubSeq(k.rcv_buf, 1, n),
                  !.rcv_buf = SubSeq(@, n + 1, Len(@)),
                  !.rcv_nxt = Plus(@, n)]

\* Segments that have their turn leave rcv_buf for rcv_queue while it has room.
MoveReady(k) ==
    LET n == Max({m \in 0 .. Len(k.rcv_buf) :
                    /\ Len(k.rcv_queue) + m <= RcvWnd \/ m = 0
                    /\ \A i \in 1 .. m : k.rcv_buf[i].sn = Plus(k.rcv_nxt, i - 1)})
    IN  [k EXCEPT !.rcv_queue = @ \o SubSeq(k.rcv_buf, 1, n),
                  !.rcv_buf = SubSeq(@, n + 1, Len(@)),
                  !.rcv_nxt = Plus(@, n)]

\* Mutant: one fragment more is waited for.
PeekCountMore(k) ==
    IF k.rcv_queue = <<>> \/ Len(k.rcv_queue) <= Head(k.rcv_queue).frg + 1 THEN 0
    ELSE Min({i \in DOMAIN k.rcv_queue : k.rcv_queue[i].frg = 0} \cup {Len(k.rcv_queue)})

\* The number of fragments of the first message, 0 while it is not complete
\* (pvp_ikcp_peeksize).
PeekCount(k) ==
    IF k.rcv_queue = <<>> \/ Len(k.rcv_queue) < Head(k.rcv_queue).frg + 1 THEN 0
    ELSE Min({i \in DOMAIN k.rcv_queue : k.rcv_queue[i].frg = 0} \cup {Len(k.rcv_queue)})

FirstMessage(k) ==
    FlattenSeq([i \in 1 .. PeekCount(k) |-> k.rcv_queue[i].data])

\* pvp_ikcp_recv of a complete message.
Recv(k) ==
    LET n == PeekCount(k)
        full == Len(k.rcv_queue) >= RcvWnd
        k1 == MoveReady([k EXCEPT !.rcv_queue = SubSeq(@, n + 1, Len(@))])
    IN  IF full /\ Len(k1.rcv_queue) < RcvWnd
        THEN [k1 EXCEPT !.probe = @ \cup {"TELL"}]
        ELSE k1

\* InputToKcp: messages are taken until none is complete.
Drain(k) ==
    FoldLeft(LAMBDA r, i : IF PeekCount(r.k) = 0 THEN r
                           ELSE [k |-> Recv(r.k), out |-> Append(r.out, FirstMessage(r.k))],
             [k |-> k, out |-> <<>>],
             [i \in 1 .. Len(k.rcv_queue) + Len(k.rcv_buf) |-> i])

\* ikcp_shrink_buf.
ShrinkBuf(k) ==
    [k EXCEPT !.snd_una = IF k.snd_buf = <<>> THEN k.snd_nxt ELSE Head(k.snd_buf).sn]

\* Mutant: una itself is taken as arrived.
ParseUnaMore(k, una) ==
    LET n == Max({m \in 0 .. Len(k.snd_buf) :
                    \A i \in 1 .. m : Diff(una, k.snd_buf[i].sn) >= 0})
    IN  [k EXCEPT !.snd_buf = SubSeq(@, n + 1, Len(@))]

\* ikcp_parse_una: everything before una has arrived.
ParseUna(k, una) ==
    LET n == Max({m \in 0 .. Len(k.snd_buf) :
                    \A i \in 1 .. m : Diff(una, k.snd_buf[i].sn) > 0})
    IN  [k EXCEPT !.snd_buf = SubSeq(@, n + 1, Len(@))]

InFlight(k, sn) == Diff(sn, k.snd_una) >= 0 /\ Diff(sn, k.snd_nxt) < 0

\* ikcp_parse_ack.
ParseAck(k, sn) ==
    IF InFlight(k, sn) /\ \E i \in DOMAIN k.snd_buf : k.snd_buf[i].sn = sn
    THEN [k EXCEPT !.snd_buf = RemoveAt(@, CHOOSE i \in DOMAIN @ : @[i].sn = sn)]
    ELSE k

\* ikcp_parse_fastack: the segments that an acknowledged one has overtaken.  The
\* count is kept up to the threshold it is compared with.
ParseFastack(k, sn) ==
    LET passed(seg) == IF Diff(sn, seg.sn) > 0
                       THEN [seg EXCEPT !.fastack = Min({@ + 1, FastResend})] ELSE seg
    IN  IF InFlight(k, sn)
        THEN [k EXCEPT !.snd_buf = [i \in DOMAIN @ |-> passed(@[i])]] ELSE k

\* ikcp_parse_data.
ParseData(k, seg) ==
    LET before == {i \in DOMAIN k.rcv_buf : Diff(seg.sn, k.rcv_buf[i].sn) > 0}
        repeat == \E i \in DOMAIN k.rcv_buf : k.rcv_buf[i].sn = seg.sn
    IN  IF \/ Diff(seg.sn, Plus(k.rcv_nxt, RcvWnd)) >= 0
           \/ Diff(seg.sn, k.rcv_nxt) < 0
        THEN k
        ELSE MoveReady(IF repeat THEN k
                       ELSE [k EXCEPT !.rcv_buf = InsertAt(@, Max(before \cup {0}) + 1, seg)])

\* What every segment of a packet does first: the peer's window, and what it has.
InputHead(k, seg) ==
    ShrinkBuf(ParseUna([k EXCEPT !.rmt_wnd = seg.wnd], GetId(k.snd_nxt, Short(seg.una))))

InputAck(k, seg) == ShrinkBuf(ParseAck(k, GetId(k.snd_nxt, Short(seg.sn))))

\* A data segment is acknowledged when it is inside the window or already taken.
InputPush(k, seg) ==
    LET sn == GetId(k.rcv_nxt, Short(seg.sn))
        k1 == IF seg.cmd = "PUSH" \/ DupAck
              THEN [k EXCEPT !.acklist = Append(@, sn)] ELSE k
    IN  IF Diff(sn, Plus(k.rcv_nxt, RcvWnd)) >= 0 THEN k
        ELSE ParseData(k1, [sn |-> sn, frg |-> seg.frg, data |-> seg.data])

\* r.acked: the acknowledgements read so far from this packet.
InputSeg(r, seg) ==
    LET k == InputHead(r.k, seg)
    IN  CASE seg.cmd = "ACK" ->
               [k |-> InputAck(k, seg), acked |-> r.acked \cup {GetId(k.snd_nxt, Short(seg.sn))}]
          [] seg.cmd \in {"PUSH", "DUPS"} -> [r EXCEPT !.k = InputPush(k, seg)]
          [] seg.cmd = "WASK" -> [r EXCEPT !.k = [k EXCEPT !.probe = @ \cup {"TELL"}]]
          [] seg.cmd = "WINS" -> [r EXCEPT !.k = k]

\* The congestion window after new data has been acknowledged.
Grow(k) ==
    LET slow == [k EXCEPT !.cwnd = @ + 1, !.incr = @ + Mss]
        incr0 == Max({k.incr, Mss})
        incr1 == incr0 + (Mss * Mss) \div incr0 + Mss \div 16
        avoid == [k EXCEPT !.incr = incr1,
                           !.cwnd = IF (@ + 1) * Mss <= incr1 THEN @ + 1 ELSE @]
        k1 == IF k.cwnd < k.ssthresh THEN slow ELSE avoid
    IN  IF k.cwnd >= k.rmt_wnd THEN k
        ELSE IF k1.cwnd > k.rmt_wnd
        THEN [k1 EXCEPT !.cwnd = k.rmt_wnd, !.incr = k.rmt_wnd * Mss]
        ELSE k1

\* pvp_ikcp_input.
Input(k, packet) ==
    LET k0 == [k EXCEPT !.dead = FALSE]
        r  == FoldLeft(InputSeg, [k |-> k0, acked |-> {}], packet)
        latest == CHOOSE sn \in r.acked : \A other \in r.acked : Diff(sn, other) >= 0
        k1 == IF r.acked = {} THEN r.k ELSE ParseFastack(r.k, latest)
    IN  IF Diff(k1.snd_una, k.snd_una) > 0 THEN Grow(k1) ELSE k1

-----------------------------------------------------------------------------
(* Sending.                                                                *)

\* The window a flush sends with.
Window(k) ==
    IF NoCwnd THEN Min({SndWnd, k.rmt_wnd}) ELSE Min({SndWnd, k.rmt_wnd, k.cwnd})

\* Mutant: <= for <.
AdmittedMore(k) ==
    Min({Len(k.snd_queue), Max({0, Diff(Plus(k.snd_una, Window(k)), k.snd_nxt) + 1})})

\* How many segments of snd_queue the window admits.
Admitted(k) ==
    Min({Len(k.snd_queue), Max({0, Diff(Plus(k.snd_una, Window(k)), k.snd_nxt)})})

\* snd_queue -> snd_buf.
MoveToBuf(k) ==
    LET n == Admitted(k)
    IN  [k EXCEPT
            !.snd_queue = SubSeq(@, n + 1, Len(@)),
            !.snd_nxt = Plus(@, n),
            !.snd_buf = @ \o [i \in 1 .. n |->
                [sn |-> Plus(k.snd_nxt, i - 1), frg |-> k.snd_queue[i].frg,
                 data |-> k.snd_queue[i].data, xmit |-> 0, fastack |-> 0, dups |-> 0]]]

\* xmit is kept up to the count at which the link is dead.
SentOnce(seg) == [seg EXCEPT !.xmit = Min({@ + 1, DeadLink})]

\* pvp_ikcp_update_dupsend_on, which update runs just before it flushes.
DupsendOn(k) ==
    /\ DupCount > 0
    /\ DupDynamic => IF k.cwnd < k.ssthresh THEN k.cwnd < DupWndOn
                     ELSE k.cwnd < k.ssthresh + DupWndOn

\* Mutant: the timer is started again instead of asking.
ProbeNever(k, probeDue) == [k EXCEPT !.probing = k.rmt_wnd = 0]

\* The window probes of a flush: whether to ask is decided by a timer.
Probe(k, probeDue) ==
    IF k.rmt_wnd # 0 THEN [k EXCEPT !.probing = FALSE]
    ELSE [k EXCEPT !.probing = TRUE,
                   !.probe = IF k.probing /\ probeDue THEN @ \cup {"SEND"} ELSE @]

\* Mutant: the probes stay due.
ClearedAcks(k) == [k EXCEPT !.acklist = <<>>]

\* What a flush has written is due no more.
Cleared(k) == [k EXCEPT !.acklist = <<>>, !.probe = {}]

Probes(k) ==
    (IF "SEND" \in k.probe THEN <<Wire(k, "WASK", 0, 0, <<>>)>> ELSE <<>>)
        \o (IF "TELL" \in k.probe THEN <<Wire(k, "WINS", 0, 0, <<>>)>> ELSE <<>>)

\* The congestion window after a flush that resent something.
Shrink(k, window, changed, lost) ==
    LET inflight == Diff(k.snd_nxt, k.snd_una)
        thresh == Max({inflight \div 2, ThreshMin})
        k1 == IF changed
              THEN [k EXCEPT !.ssthresh = thresh, !.cwnd = thresh + FastResend,
                             !.incr = (thresh + FastResend) * Mss]
              ELSE k
        k2 == IF lost
              THEN [k1 EXCEPT !.ssthresh = Max({window \div 2, ThreshMin}),
                              !.cwnd = 1, !.incr = Mss]
              ELSE k1
    IN  IF k2.cwnd < 1 THEN [k2 EXCEPT !.cwnd = 1, !.incr = Mss] ELSE k2

\* The segments of buf at these places, behind what is in the packets.
Written(k, cmd, buf, places, packets) ==
    FoldLeftDomain(LAMBDA r, i : IF i \in places THEN AddToPackets(r, Data(k, cmd, buf[i])) ELSE r,
                   packets, buf)

\* pvp_ikcp_flush.  due: the numbers whose resendts has come; aged: those sent so
\* long ago that a duplicate may go.
Flush(k, due, aged, probeDue) ==
    LET probed == Probe(k, probeDue)
        moved  == MoveToBuf(Cleared(probed))
        timedOut(seg) == seg.xmit > 0 /\ seg.sn \in due
        overtaken(seg) == /\ seg.xmit > 0 /\ seg.sn \notin due
                          /\ FastResend > 0 /\ seg.fastack >= FastResend
        needsend(seg) == seg.xmit = 0 \/ timedOut(seg) \/ overtaken(seg)
        dup(seg) == /\ DupsendOn(k) /\ ~needsend(seg)
                    /\ seg.dups < DupCount /\ seg.sn \in aged
        after(seg) ==
            IF needsend(seg)
            THEN [SentOnce(seg) EXCEPT !.fastack = IF overtaken(seg) THEN 0 ELSE @]
            ELSE IF dup(seg) THEN [SentOnce(seg) EXCEPT !.dups = @ + 1]
            ELSE seg
        some(P(_)) == \E i \in DOMAIN moved.snd_buf : P(moved.snd_buf[i])
        pushes == {i \in DOMAIN moved.snd_buf : needsend(moved.snd_buf[i])}
        dups   == {i \in DOMAIN moved.snd_buf : dup(moved.snd_buf[i])}
        k1 == [moved EXCEPT
                  !.snd_buf = [i \in DOMAIN @ |-> after(@[i])],
                  !.dead = @ \/ \E i \in pushes : SentOnce(moved.snd_buf[i]).xmit >= DeadLink]
    IN  [k |-> Shrink(k1, Window(k), some(overtaken), some(timedOut)),
         out |-> Written(k, "DUPS", moved.snd_buf, dups,
                    Written(k, "PUSH", moved.snd_buf, pushes, Packets(Acks(k) \o Probes(probed))))]

\* The packets of send_ex: older segments of buf, the youngest first, fill the last one.
WithDuplicates(k, packets, older) ==
    FoldLeft(LAMBDA r, seg :
                IF /\ ~r.full /\ r.count < DupCount
                   /\ Size(Last(r.packets)) + Overhead + Len(seg.data) <= Mtu
                THEN [r EXCEPT !.packets = AddToPackets(@, Data(k, "DUPS", seg)),
                               !.count = @ + 1]
                ELSE [r EXCEPT !.full = TRUE],
             [packets |-> packets, count |-> 0, full |-> FALSE], Reverse(older))

\* pvp_ikcp_send_ex: the message is queued and what the window admits goes out at
\* once, after the acknowledgements that are due.
SendEx(k, data) ==
    LET queued == [k EXCEPT !.snd_queue = @ \o Fragments(data)]
        n      == Admitted(queued)
        moved  == MoveToBuf([queued EXCEPT !.acklist = <<>>])
        old    == Len(k.snd_buf)
        fresh  == SubSeq(moved.snd_buf, old + 1, old + n)
        packets == Packets(Acks(k) \o [i \in 1 .. n |-> Data(k, "PUSH", fresh[i])])
        r == IF n = 0 THEN [packets |-> packets, count |-> 0]
             ELSE WithDuplicates(k, packets, k.snd_buf)
    IN  [k |-> [moved EXCEPT !.snd_buf = [i \in DOMAIN @ |->
                   IF i > old - r.count THEN SentOnce(@[i]) ELSE @[i]]],
         out |-> r.packets]

-----------------------------------------------------------------------------
(* The session.                                                            *)

Init ==
    /\ kcp = [e \in Ends |-> NewKcp]
    /\ net = [e \in Ends |-> <<>>]
    /\ faults = 0
    /\ sent = [e \in Ends |-> <<>>]
    /\ got = [e \in Ends |-> <<>>]

Output(e, out) == net' = [net EXCEPT ![Peer(e)] = @ \o out]

\* Packets of e may leave.
CanOutput(e) == Len(net[Peer(e)]) < MaxNet

\* KcpSession::Send of the next message; one of too many fragments is refused.
Send(e) ==
    LET i == Len(sent[e]) + 1
    IN  /\ i <= Len(Lengths[e])
        /\ Len(Fragments(Message(e, i))) < FragLimit
        /\ CanOutput(e)
        /\ \E r \in {SendEx(kcp[e], Message(e, i))} :
             kcp' = [kcp EXCEPT ![e] = r.k] /\ Output(e, r.out)
        /\ sent' = [sent EXCEPT ![e] = Append(@, Message(e, i))]
        /\ UNCHANGED <<faults, got>>

\* The numbers that a timer can make due.
Old(k) == {k.snd_buf[i].sn : i \in DOMAIN k.snd_buf}

\* KcpSession::Update when the flush interval has passed.
Update(e, due, aged, probeDue) ==
    /\ CanOutput(e)
    /\ \E r \in {Flush(kcp[e], due, aged, probeDue)} :
         kcp' = [kcp EXCEPT ![e] = r.k] /\ Output(e, r.out)
    /\ UNCHANGED <<faults, sent, got>>

\* Every timer that runs has run out.
LateUpdate(e) == Update(e, Old(kcp[e]), {}, TRUE)

\* KcpSession::Recv by a user that takes messages when it likes.
Receive(e) ==
    /\ e \notin Eager
    /\ PeekCount(kcp[e]) > 0
    /\ kcp' = [kcp EXCEPT ![e] = Recv(@)]
    /\ got' = [got EXCEPT ![e] = Append(@, FirstMessage(kcp[e]))]
    /\ UNCHANGED <<net, faults, sent>>

\* KcpSession::Input of the i-th packet on the way, which stays there when the
\* network duplicates it; only the first one, once, is no fault of the network.
Arrive(e, i, again) ==
    LET taken(k) == IF e \in Eager THEN Drain(k) ELSE [k |-> k, out |-> <<>>]
        fault == i > 1 \/ again
    IN  /\ Len(kcp[e].acklist) < MaxAcks
        /\ fault => faults < MaxFaults
        /\ faults' = IF fault THEN faults + 1 ELSE faults
        /\ net' = IF again THEN net ELSE [net EXCEPT ![e] = RemoveAt(@, i)]
        /\ \E r \in {taken(Input(kcp[e], net[e][i]))} :
             kcp' = [kcp EXCEPT ![e] = r.k] /\ got' = [got EXCEPT ![e] = @ \o r.out]
        /\ UNCHANGED sent

Lose(e, i) ==
    /\ faults < MaxFaults
    /\ faults' = faults + 1
    /\ net' = [net EXCEPT ![e] = RemoveAt(@, i)]
    /\ UNCHANGED <<kcp, sent, got>>

Next == \E e \in Ends :
    \/ Send(e)
    \/ \E due \in SUBSET Old(kcp[e]) : \E aged \in SUBSET (Old(kcp[e]) \ due) :
         \E probeDue \in BOOLEAN : Update(e, due, aged, probeDue)
    \/ Receive(e)
    \/ \E i \in DOMAIN net[e], again \in BOOLEAN : Arrive(e, i, again)
    \/ \E i \in DOMAIN net[e] : Lose(e, i)

\* The net thread ticks for ever, timers run out, the network delivers and the
\* users read; nobody has to send.  This is weak fairness with the enabling condition
\* of each action spelled out.
CanUpdate(e) ==
    LET r == Flush(kcp[e], Old(kcp[e]), {}, TRUE)
    IN  CanOutput(e) /\ (r.k # kcp[e] \/ r.out # <<>>)

Fairness == \A e \in Ends :
    /\ []<>~CanUpdate(e) \/ []<><<LateUpdate(e)>>_vars
    /\ []<>~(net[e] # <<>> /\ Len(kcp[e].acklist) < MaxAcks) \/ []<><<Arrive(e, 1, FALSE)>>_vars
    /\ []<>~(e \notin Eager /\ PeekCount(kcp[e]) > 0) \/ []<><<Receive(e)>>_vars

Spec == Init /\ [][Next]_vars /\ Fairness

-----------------------------------------------------------------------------
(* Properties.                                                             *)

Numbers(segs) == {segs[i].sn : i \in DOMAIN segs}

\* Every number the sender has used and the receiver has not passed is still
\* held: by the sender, who will repeat it, or by the receiver's reorder buffer.
\* (parse_una, parse_ack and the window tests of input: a segment is let go only
\* when the peer has it, and acknowledged only when it is kept.)
NothingForgotten == \A e \in Ends :
    LET k == kcp[e]
        p == kcp[Peer(e)]
    IN  /\ Diff(p.rcv_nxt, k.snd_nxt) <= 0
        /\ \A sn \in SeqNums :
             Diff(sn, p.rcv_nxt) >= 0 /\ Diff(sn, k.snd_nxt) < 0
                 => sn \in Numbers(k.snd_buf) \cup Numbers(p.rcv_buf)

\* The windows hold: of the sender (in flight), of the receiver (queue and reorder
\* buffer), and of the packet.
WindowsHold == \A e \in Ends :
    LET k == kcp[e]
    IN  /\ Diff(k.snd_nxt, k.snd_una) <= SndWnd
        /\ Len(k.rcv_queue) <= RcvWnd /\ Len(k.rcv_buf) <= RcvWnd
        /\ \A i \in DOMAIN net[e] : Size(net[e][i]) <= Mtu

\* get_id rebuilds the number that was sent from the half of it that travels, for
\* everything still on its way.
DecodesRight == \A e \in Ends : \A i \in DOMAIN net[e] : \A j \in DOMAIN net[e][i] :
    LET seg == net[e][i][j]
        k == kcp[e]
    IN  /\ GetId(k.snd_nxt, Short(seg.una)) = seg.una
        /\ seg.cmd = "ACK" => GetId(k.snd_nxt, Short(seg.sn)) = seg.sn
        /\ seg.cmd \in {"PUSH", "DUPS"} => GetId(k.rcv_nxt, Short(seg.sn)) = seg.sn

\* The receive queue is never full of one message that is not complete: recv
\* would wait for fragments that the window keeps out for ever.
NoWedge == \A e \in Ends :
    ~ (Len(kcp[e].rcv_queue) >= RcvWnd /\ PeekCount(kcp[e]) = 0)

\* The numbers that k will acknowledge.
Due(k) == {k.acklist[i] : i \in 1 .. Len(k.acklist)}

\* A segment on its way to k from p is less than Half numbers behind the newest.
Young(k, p, seg) ==
    /\ Diff(k.snd_nxt, seg.una) < Half
    /\ seg.cmd = "ACK" => Diff(k.snd_nxt, seg.sn) < Half
    /\ seg.cmd \in {"PUSH", "DUPS"} => Diff(p.snd_nxt, seg.sn) < Half

\* The segments of some packets.
Within(packets) == UNION {Range(packets[i]) : i \in DOMAIN packets}

\* Nothing on its way, and no acknowledgement still to be made, is Half numbers
\* (32768 in the code) old.  The code does not see to this, the network has to;
\* NothingForgotten and DecodesRight rest on it.
Timely == \A e \in Ends :
    /\ \A x \in Due(kcp[Peer(e)]) : Diff(kcp[e].snd_nxt, x) < Half
    /\ \A seg \in Within(net[e]) : Young(kcp[e], kcp[Peer(e)], seg)

\* The two ends implement a reliable channel: each message sent is received once,
\* whole, in order, and in the end.
Channel == INSTANCE ReliableChannel
ReliableDelivery == Channel!Spec

\* A closed window opens again, though the packet that says so may be lost: the
\* user reads, and flush asks (IKCP_CMD_WASK) until it is told.
WindowReopens == \A e \in Ends : kcp[e].rmt_wnd = 0 ~> kcp[e].rmt_wnd > 0

\* When the users have nothing more to send both ends fall silent: everything is
\* acknowledged, and neither acknowledgements, duplicates nor probes go on.
Idle(e) == kcp[e].snd_buf = <<>> /\ kcp[e].snd_queue = <<>> /\ net[e] = <<>>
FallsSilent == <>[](\A e \in Ends : Idle(e))
=============================================================================
