------------------------------ MODULE KcpTimer ------------------------------
(***************************************************************************)
(* The clock of one end of a session: when KcpSession::Tick runs           *)
(* pvp_ikcp_update, when update flushes, and which timers a flush then     *)
(* finds expired.  The time is the low word of gettimeofday's milliseconds *)
(* (TimeAPI::GetTimeMs), so it wraps, and it steps back when the wall      *)
(* clock is set.  What the segments carry and the windows are in Kcp.      *)
(***************************************************************************)
EXTENDS SeqNum, SequencesExt, FiniteSetsExt

CONSTANTS
    Start,         \* the time at the start, as GetTimeMs gives it
    Horizon,       \* bound: how long the clock runs
    Steps,         \* how long a pass of the net thread's loop may take
    MaxBack,       \* bound: how far the wall clock is set back, once
    Interval,      \* interval
    Slack,         \* a distance from ts_flush that is taken for a jump (10000)
    RtoDef,        \* IKCP_RTO_DEF
    RtoMin,        \* rx_minrto
    RtoMax,        \* IKCP_RTO_MAX
    Nodelay,       \* nodelay
    FastResend,    \* fastresend; 0: never
    DupCount,      \* dupsendcount; dupsend_on is then set: without dup_dynamic
    DupWait,       \* dupsend_wait
    DupLen,        \* IKCP_DUPSEND_LEN
    SndWnd,        \* snd_wnd
    ProbeInit,     \* IKCP_PROBE_INIT
    ProbeLimit,    \* IKCP_PROBE_LIMIT
    IntervalLost,  \* interval_lost
    MaxSends,      \* bound: segments sent
    Windows        \* the windows the peer may tell: open, or not, or both

ASSUME TimerAssumption ==
    /\ {Start, Interval, Slack, RtoDef, RtoMin, RtoMax, ProbeInit} \subseteq Nat \ {0}
    /\ {Horizon, MaxBack, FastResend, DupCount, DupWait, DupLen, SndWnd} \subseteq Nat
    /\ {ProbeLimit, IntervalLost, MaxSends} \subseteq Nat
    /\ ProbeInit <= ProbeLimit
    /\ Steps \subseteq Nat /\ Nodelay \in BOOLEAN /\ Windows \subseteq BOOLEAN

VARIABLES
    now,        \* GetTimeMs
    back,       \* how far the clock has been set back
    phase,      \* "work": between select and Tick; "idle": after Tick
    k,          \* the timers of the control block
    next,       \* next_time_ms_
    update_now  \* update_now_

vars == <<now, back, phase, k, next, update_now>>

Later(t, d) == Plus(t, d)
Clock == now % Word

\* pvp_ikcp_create, then Update from CreateKCP: the first flush is at once.
NewTimers(t) == [
    current |-> t, ts_flush |-> Later(t, Interval),
    segs |-> <<>>, snd_nxt |-> 0,   \* snd_buf
    rx_srtt |-> 0, rx_rttval |-> 0, rx_rto |-> RtoDef,
    closed |-> FALSE,           \* rmt_wnd = 0
    probe_wait |-> 0, ts_probe |-> 0, asked |-> FALSE,
    ts_lost |-> t, cursendcount |-> 0, curlostcount |-> 0, totallostcount |-> 0,
    lastlostrate |-> 0]

\* The time a call passes on: 0 means none.
SetCurrent(b, t) == IF t > 0 THEN [b EXCEPT !.current = t] ELSE b

\* ikcp_update_rtt.
UpdateRtt(b, rtt) ==
    LET delta == IF rtt >= b.rx_srtt THEN rtt - b.rx_srtt ELSE b.rx_srtt - rtt
        first == b.rx_srtt = 0
        val  == IF first THEN rtt \div 2 ELSE (3 * b.rx_rttval + delta) \div 4
        srtt == IF first THEN rtt ELSE Max({1, (7 * b.rx_srtt + rtt) \div 8})
        rto  == srtt + Max({Interval, 4 * val})
    IN  [b EXCEPT !.rx_srtt = srtt, !.rx_rttval = val,
                  !.rx_rto = Min({Max({RtoMin, rto}), RtoMax})]

\* A segment leaves for the first time (flush and send_ex alike).
FirstSend(b, sn) ==
    [sn |-> sn, rto |-> b.rx_rto, ts |-> b.current, first_ts |-> b.current, fastack |-> 0,
     dups |-> 0, lost |-> FALSE,
     resendts |-> Later(b.current, b.rx_rto + (IF Nodelay THEN 0 ELSE b.rx_rto \div 8))]

\* n segments move from snd_queue to snd_buf and leave.
Moved(b, n) ==
    [b EXCEPT !.segs = @ \o [j \in 1 .. n |-> FirstSend(b, b.snd_nxt + j - 1)],
              !.snd_nxt = @ + n, !.cursendcount = @ + n]

\* The last d segments of snd_buf go along once more, in the same packet.
SentAlong(b, d) ==
    [b EXCEPT !.segs = [i \in DOMAIN @ |-> IF i > Len(@) - d
                                           THEN [@[i] EXCEPT !.ts = b.current] ELSE @[i]]]

\* KcpSession::Send, pvp_ikcp_send_ex.
SendSegs(b, t, n, d) == Moved(SentAlong(SetCurrent(b, t), d), n)

\* The i-th segment is acknowledged (parse_ack, parse_una).
Acked(b, i) ==
    LET rtt == Diff(b.current, b.segs[i].first_ts)
        b1 == IF rtt > 0 THEN UpdateRtt(b, rtt) ELSE b
    IN  [b1 EXCEPT !.segs = RemoveAt(@, i)]

\* ikcp_parse_fastack; fastack counts up to fastresend, above which it acts the same.
FastAcked(b, maxack) ==
    [b EXCEPT !.segs = [i \in DOMAIN b.segs |->
        IF b.segs[i].sn < maxack /\ b.segs[i].fastack < FastResend
        THEN [b.segs[i] EXCEPT !.fastack = @ + 1] ELSE b.segs[i]]]

TimedOut(b, seg) == Diff(b.current, seg.resendts) >= 0

Overtaken(seg) == FastResend > 0 /\ seg.fastack = FastResend

\* A flush that does not send the segment again anyway would send a copy.
DupDue(b, seg) ==
    LET delta == Diff(b.current, seg.ts)
    IN  /\ ~TimedOut(b, seg) /\ ~Overtaken(seg)
        /\ seg.dups < DupCount /\ (delta >= DupWait \/ delta < 0)

\* Mutant: room for one less.
HasLessRoom(b, i) == Cardinality({j \in 1 .. i - 1 : DupDue(b, b.segs[j])}) < DupLen - 1

\* There is room in dup_segs for the i-th segment.
HasRoom(b, i) == Cardinality({j \in 1 .. i - 1 : DupDue(b, b.segs[j])}) < DupLen

\* Mutant: the old timeout is kept, so the segment is due for ever.
ResendAtOnce(b, i) ==
    LET seg == b.segs[i]
    IN  IF TimedOut(b, seg) THEN [seg EXCEPT !.ts = b.current, !.lost = TRUE]
        ELSE IF Overtaken(seg) THEN [seg EXCEPT !.ts = b.current, !.fastack = 0]
        ELSE IF DupDue(b, seg) /\ HasRoom(b, i)
        THEN [seg EXCEPT !.ts = b.current, !.dups = @ + 1]
        ELSE seg

\* A flush's treatment of the i-th segment, sent before.
Resend(b, i) ==
    LET seg == b.segs[i]
        rto == seg.rto + (IF Nodelay THEN b.rx_rto \div 2 ELSE b.rx_rto)
    IN  IF TimedOut(b, seg)
        THEN [seg EXCEPT !.rto = rto, !.resendts = Later(b.current, rto),
                         !.ts = b.current, !.lost = TRUE]
        ELSE IF Overtaken(seg)
        THEN [seg EXCEPT !.resendts = Later(b.current, seg.rto), !.ts = b.current,
                         !.fastack = 0]
        ELSE IF DupDue(b, seg) /\ HasRoom(b, i)
        THEN [seg EXCEPT !.ts = b.current, !.dups = @ + 1]
        ELSE seg

\* Mutant: the wait does not start again.
AskWithoutDelay(b) ==
    LET due == b.probe_wait # 0 /\ Diff(b.current, b.ts_probe) >= 0
    IN  IF ~b.closed THEN [b EXCEPT !.probe_wait = 0, !.ts_probe = 0, !.asked = FALSE]
        ELSE IF b.probe_wait = 0
        THEN [b EXCEPT !.probe_wait = ProbeInit, !.ts_probe = Later(b.current, ProbeInit),
                       !.asked = FALSE]
        ELSE [b EXCEPT !.asked = due]

\* The probe timer of a flush; asked: IKCP_CMD_WASK goes out.
Ask(b) ==
    LET due  == b.probe_wait # 0 /\ Diff(b.current, b.ts_probe) >= 0
        wait == IF b.probe_wait = 0 THEN ProbeInit
                ELSE Min({Max({b.probe_wait, ProbeInit}) + Max({b.probe_wait, ProbeInit}) \div 2,
                          ProbeLimit})
    IN  IF ~b.closed THEN [b EXCEPT !.probe_wait = 0, !.ts_probe = 0, !.asked = FALSE]
        ELSE IF b.probe_wait = 0 \/ due
        THEN [b EXCEPT !.probe_wait = wait, !.ts_probe = Later(b.current, wait), !.asked = due]
        ELSE [b EXCEPT !.asked = FALSE]

\* The segments that a flush counts as lost.
NewlyLost(b) ==
    Cardinality({i \in DOMAIN b.segs : TimedOut(b, b.segs[i]) /\ ~b.segs[i].lost})

\* pvp_ikcp_flush, which moves n segments.
Flush(b, n) ==
    LET b1 == [Ask(b) EXCEPT !.segs = [i \in DOMAIN @ |-> Resend(b, i)],
                             !.totallostcount = @ + NewlyLost(b),
                             !.curlostcount = @ + NewlyLost(b)]
    IN  Moved(b1, n)

\* pvp_ikcp_update_lost.
UpdateLost(b, t) ==
    LET b1 == IF b.ts_lost = 0 THEN [b EXCEPT !.ts_lost = t] ELSE b
        slap == Diff(t, b1.ts_lost)
        b2 == [b1 EXCEPT !.ts_lost = b.current]
    IN  IF slap <= IntervalLost /\ slap >= 0 THEN b1
        ELSE IF b2.cursendcount = 0 THEN b2
        ELSE [b2 EXCEPT !.lastlostrate = (b2.curlostcount * 100) \div b2.cursendcount,
                        !.cursendcount = 0, !.curlostcount = 0]

\* When to flush again: a period later, unless that is past as well.
NextFlush(ts_flush, t) ==
    LET ts == Later(ts_flush, Interval)
    IN  IF Diff(t, ts) >= 0 THEN Later(t, Interval) ELSE ts

\* pvp_ikcp_update.
UpdateKcp(b, t, n) ==
    LET jump == Diff(t, b.ts_flush) >= Slack \/ Diff(t, b.ts_flush) < -Slack
        ts == IF jump THEN t ELSE b.ts_flush
        b1 == [b EXCEPT !.current = t, !.ts_flush = ts]
        b2 == IF Diff(t, ts) >= 0 THEN Flush([b1 EXCEPT !.ts_flush = NextFlush(ts, t)], n)
              ELSE b1
    IN  UpdateLost(b2, t)

\* Mutant: the flush's own time is forgotten.
CheckSegments(b, t) ==
    LET waits == {Diff(b.segs[i].resendts, t) : i \in DOMAIN b.segs}
    IN  IF \E w \in waits : w <= 0 THEN t
        ELSE Later(t, Min(waits \cup {2 * Interval}))

\* pvp_ikcp_check.
Check(b, t) ==
    LET jump == Diff(t, b.ts_flush) >= Slack \/ Diff(t, b.ts_flush) < -Slack
        waits == {Diff(b.segs[i].resendts, t) : i \in DOMAIN b.segs}
            \cup {Diff(Later(b.segs[i].ts, DupWait), t) :
                    i \in {j \in DOMAIN b.segs : b.segs[j].dups < DupCount}}
    IN  IF jump \/ Diff(t, b.ts_flush) >= 0 \/ \E w \in waits : w <= 0 THEN t
        ELSE Later(t, Min(waits \cup {Diff(b.ts_flush, t), Interval}))

-----------------------------------------------------------------------------
Init ==
    /\ now = Start
    /\ back = 0
    /\ phase = "idle"
    /\ k = NewTimers(Start % Word)
    /\ next = 0
    /\ update_now = FALSE

\* select returns.
Elapse(d) ==
    /\ phase = "idle"
    /\ now + d <= Start + Horizon
    /\ now' = now + d
    /\ phase' = "work"
    /\ UNCHANGED <<back, k, next, update_now>>

\* The wall clock is set back.
StepBack(d) ==
    /\ phase = "idle"
    /\ back = 0
    /\ now - d > 0
    /\ now' = now - d
    /\ back' = d
    /\ UNCHANGED <<phase, k, next, update_now>>

\* The segments that a call may move: as many as wait in snd_queue, within the
\* windows of the peer and of the congestion control, which are in Kcp.
Movable == 0 .. (IF k.closed THEN 0 ELSE Min({SndWnd - Len(k.segs), MaxSends - k.snd_nxt}))

\* SendMsg reaches the session.  If any segment leaves, as many of the last ones
\* before it go along as dupsendcount allows and the packet has room for.
Send(n, d) ==
    /\ phase = "work"
    /\ n = 0 => d = 0
    /\ k' = SendSegs(k, Clock, n, d)
    /\ UNCHANGED <<now, back, phase, next, update_now>>

\* A packet comes in: it tells the window, may acknowledge the i-th segment, and its
\* greatest acknowledgement may be for maxack (-1: it has none).  A packet
\* that acknowledges several segments is several of these in a row.
Input(closed, i, maxack) ==
    /\ phase = "work"
    /\ LET b == [SetCurrent(k, Clock) EXCEPT !.closed = closed]
           b1 == IF i = 0 THEN b ELSE Acked(b, i)
       IN  /\ \A j \in DOMAIN b1.segs : b1.segs[j].sn # maxack
           /\ k' = FastAcked(b1, maxack)
    /\ update_now' = TRUE
    /\ UNCHANGED <<now, back, phase, next>>

\* KcpSession::Tick.
Tick(n) ==
    /\ phase = "work"
    /\ phase' = "idle"
    /\ IF next <= Clock \/ update_now
       THEN /\ k' = UpdateKcp(k, Clock, n)
            /\ next' = Check(k', Clock)
            /\ update_now' = FALSE
       ELSE UNCHANGED <<k, next, update_now>>
    /\ UNCHANGED <<now, back>>

Next ==
    \/ \E d \in Steps : Elapse(d)
    \/ \E d \in 1 .. MaxBack : StepBack(d)
    \/ \E n \in Movable, d \in 0 .. Min({DupCount, Len(k.segs)}) : Send(n, d)
    \/ \E w \in Windows, i \in 0 .. Len(k.segs), maxack \in -1 .. k.snd_nxt - 1 :
          Input(~w, i, maxack)
    \/ \E n \in Movable : Tick(n)

Spec == Init /\ [][Next]_vars

-----------------------------------------------------------------------------
(* Properties.  They are about the moment after Tick, when the net thread  *)
(* goes back to select.                                                    *)

\* No flush is overdue when Tick is done: it calls update at the time that check
\* returned, as ikcp.h:377-383 asks, and check does not return too late a time.
OnSchedule == phase = "idle" /\ next > 0 => Diff(k.ts_flush, Clock) > 0

\* A segment whose timeout has come is sent again within one flush interval, whatever
\* moved the timeout before: the first send, an earlier timeout or a fast resend.
ResentInTime == phase = "idle" =>
    \A i \in DOMAIN k.segs : Diff(Clock, k.segs[i].resendts) < Interval

\* While a copy is still allowed, one goes out within the wait and a flush interval:
\* fast resends, timeouts and the segments that go along with new ones put it off only
\* by sending the segment themselves.  The window is no larger than a flush copies.
DupInTime == phase = "idle" =>
    \A i \in DOMAIN k.segs :
        k.segs[i].dups < DupCount => Diff(Clock, k.segs[i].ts) < DupWait + Interval

\* A closed window is asked about within a flush interval of the end of the wait,
\* and the wait stays within its limit.
ProbeInTime == phase = "idle" /\ k.probe_wait # 0 =>
    Diff(Clock, k.ts_probe) < Interval /\ k.probe_wait <= ProbeLimit
=============================================================================
