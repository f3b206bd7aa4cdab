--------------------------- MODULE KcpTimer_proofs ---------------------------
(***************************************************************************)
(* The times of a session, for any interval, timeouts and waits, while the *)
(* clock does not wrap and the differences fit the signed word: no flush   *)
(* is overdue after Tick, and what a flush does is late by less than an    *)
(* interval, if the wall clock is set back by no more than the least       *)
(* timeout or wait.                                                        *)
(***************************************************************************)
EXTENDS KcpTimer, FiniteSetTheorems, WellFoundedInduction, TLAPS

-----------------------------------------------------------------------------
(* Remainders                                                              *)

\* Division with remainder.
LEMMA DivMod ==
    ASSUME NEW x \in Int, NEW M \in Nat \ {0}
    PROVE  /\ x % M \in 0 .. M - 1
           /\ x \div M \in Int
           /\ x = M * (x \div M) + (x % M)
OBVIOUS

\* A multiple of M between -2M and 2M.
LEMMA NearMultiple ==
    ASSUME NEW q \in Int, NEW M \in Nat \ {0}, q * M < 2 * M, q * M > -2 * M
    PROVE  q \in {-1, 0, 1}
<1>1. q < 2
  <2> SUFFICES ASSUME q >= 2 PROVE FALSE
    OBVIOUS
  <2>1. (q - 2) * M >= 0
    OBVIOUS
  <2> QED BY <2>1
<1>2. q > -2
  <2> SUFFICES ASSUME q <= -2 PROVE FALSE
    OBVIOUS
  <2>1. (-2 - q) * M >= 0
    OBVIOUS
  <2> QED BY <2>1
<1> QED BY <1>1, <1>2

\* The remainder is unique.
LEMMA ModUnique ==
    ASSUME NEW M \in Nat \ {0}, NEW q \in Int, NEW r \in 0 .. M - 1, NEW x \in Int,
           x = M * q + r
    PROVE  x % M = r
<1> DEFINE d == x \div M
           e == x % M
<1>1. d \in Int /\ e \in 0 .. M - 1 /\ x = M * d + e
  BY DivMod
<1> HIDE DEF d, e
<1>2. (q - d) * M = e - r
  BY <1>1
<1>3. (q - d) * M < M /\ (q - d) * M > -M
  BY <1>1, <1>2
<1>4. q - d \in {-1, 0, 1}
  BY <1>1, <1>3, NearMultiple
<1>5. q - d = 0
  BY <1>1, <1>3, <1>4
<1>6. e = r
  BY <1>1, <1>2, <1>5
<1> QED BY <1>6 DEF e

-----------------------------------------------------------------------------
(* Times                                                                   *)

\* What a timeout is never above.
Cap == RtoMax + RtoDef

\* What the times of a session differ by at most.
Span == 2 * (Horizon + MaxBack) + 4 * Cap + DupWait + Interval + ProbeLimit

\* The clock neither reads 0 nor wraps, and _itimediff tells before from after.
NoWrap == 2 * Span < Word /\ Start + Span < Word

\* The clock is set back by no more than a segment waits at least, or a duplicate.
BackInRto == MaxBack <= RtoMin /\ MaxBack <= RtoDef /\ MaxBack <= RtoMax
BackInWait == MaxBack <= DupWait

\* No more segments can be due for a copy than a flush copies.
CopiesFit == SndWnd <= DupLen

\* What the clock may read.
Reading == {t \in Nat : t > 0 /\ Start - MaxBack <= t /\ t <= Start + Horizon}

Rto == {r \in Nat : r > 0 /\ r <= Cap /\ (BackInRto => MaxBack <= r)}

Segment == [sn : Nat, rto : Nat, ts : Reading, first_ts : Reading, fastack : Nat, dups : Nat,
            lost : BOOLEAN, resendts : Nat]

\* The times of a segment, when the next flush is at f: the timeout was set when the
\* segment was sent, and has grown by no more than a segment has waited; f is early
\* enough for what is due.
SegTimes(s, f) ==
    /\ s.rto > 0 /\ s.rto <= Cap + Horizon + MaxBack
    /\ Start - MaxBack <= s.resendts - s.rto /\ s.resendts - s.rto <= Start + Horizon + Cap
    /\ BackInRto => f <= s.resendts + Interval
    /\ BackInWait /\ CopiesFit /\ s.dups < DupCount => f <= s.ts + DupWait + Interval

SegsFor(f) == {s \in Segment : SegTimes(s, f)}

\* A time of the schedule: no more than d later than the clock may read.
Ahead(d) == {t \in Nat : Start - MaxBack <= t /\ t <= Start + Horizon + d}

Times == Ahead(Span - Horizon - MaxBack)

Timers == [current : Reading, ts_flush : Ahead(Interval), segs : Seq(Segment), snd_nxt : Nat,
           rx_srtt : Nat, rx_rttval : Nat, rx_rto : Rto, closed : BOOLEAN,
           probe_wait : 0 .. ProbeLimit, ts_probe : Nat, asked : BOOLEAN,
           ts_lost : Nat, cursendcount : Nat, curlostcount : Nat,
           totallostcount : Nat, lastlostrate : Nat]

\* The timers fit the next flush.
Good(b) ==
    /\ b \in Timers
    /\ b.segs \in Seq(SegsFor(b.ts_flush)) /\ Len(b.segs) <= SndWnd
    /\ b.probe_wait # 0 => b.ts_probe \in Ahead(ProbeLimit) /\ b.ts_flush <= b.ts_probe + Interval

\* When the loop is between two Ticks, the next flush is ahead, and check said so;
\* it is never further ahead than an interval and what the clock was set back.
Scheduled ==
    /\ next <= k.ts_flush
    /\ k.ts_flush <= now + back + Interval
    /\ phase = "idle" => now < k.ts_flush

TypeInv ==
    /\ now \in Reading /\ back \in 0 .. MaxBack /\ Start - back <= now
    /\ phase \in {"work", "idle"}
    /\ next \in Nat
    /\ update_now \in BOOLEAN

IInv == TypeInv /\ Good(k) /\ Scheduled
-----------------------------------------------------------------------------
(* Numbers                                                                 *)

\* Some numbers have a least one.
LEMMA LeastNumber ==
    ASSUME NEW T, T \subseteq Nat, T # {}
    PROVE  \E m0 \in T : \A n \in T : m0 <= n
<1> DEFINE U == {0 .. n : n \in T}
           R == StrictSubsetOrdering(Nat)
<1>1. IsWellFoundedOn(R, FiniteSubsetsOf(Nat))
  BY FS_StrictSubsetOrderingWellFounded
<1>2. U \subseteq FiniteSubsetsOf(Nat) /\ U # {}
  <2>1. \A n \in T : 0 .. n \in FiniteSubsetsOf(Nat)
    <3> TAKE n \in T
    <3>1. IsFiniteSet(0 .. n) /\ 0 .. n \subseteq Nat
      BY FS_Interval
    <3> QED BY <3>1 DEF FiniteSubsetsOf
  <2> QED BY <2>1
<1>3. PICK A \in U : \A B \in U : ~ (<<B, A>> \in R)
  <2> HIDE DEF U, R
  <2> QED BY <1>1, <1>2, WFMin
<1>4. PICK m0 \in T : A = 0 .. m0
  OBVIOUS
<1>5. \A n \in T : m0 <= n
  <2> SUFFICES ASSUME NEW n \in T, n < m0 PROVE FALSE
    OBVIOUS
  <2>1. 0 .. n \in U /\ 0 .. n \subseteq 0 .. m0 /\ 0 .. n # 0 .. m0
    OBVIOUS
  <2>2. <<0 .. n, A>> \in R
    BY <1>2, <1>4, <2>1 DEF StrictSubsetOrdering, FiniteSubsetsOf
  <2> QED BY <1>3, <2>1, <2>2
<1> QED BY <1>5

\* The least of some numbers is one of them.
LEMMA MinFact ==
    ASSUME NEW T, T \subseteq Nat, T # {}
    PROVE  Min(T) \in T /\ \A n \in T : Min(T) <= n
<1>1. \E m0 \in T : \A n \in T : m0 <= n
  BY LeastNumber
<1> QED BY <1>1 DEF Min

\* The bounds of _ibound_ and _imax_, of two numbers.
LEMMA OfTwo ==
    ASSUME NEW x \in Int, NEW y \in Int
    PROVE  /\ Min({x, y}) = IF x <= y THEN x ELSE y
           /\ Max({x, y}) = IF x <= y THEN y ELSE x
<1> DEFINE T == {x, y}
           a == IF x <= y THEN x ELSE y
           b == IF x <= y THEN y ELSE x
<1>1. a \in T /\ b \in T /\ \A n \in T : a <= n /\ n <= b
  OBVIOUS
<1>2. /\ \A n \in T : (\A u \in T : n <= u) => n = a
      /\ \A n \in T : (\A u \in T : u <= n) => n = b
  OBVIOUS
<1> HIDE DEF T, a, b
<1>3. Min(T) \in T /\ \A u \in T : Min(T) <= u
  BY <1>1 DEF Min
<1>4. Max(T) \in T /\ \A u \in T : u <= Max(T)
  BY <1>1 DEF Max
<1>5. Min(T) = a /\ Max(T) = b
  BY <1>2, <1>3, <1>4
<1> QED BY <1>5 DEF T, a, b

\* _itimediff of times that are near each other is their difference.
LEMMA DiffExact ==
    ASSUME NEW x \in Int, NEW y \in Int, 2 * (x - y) < Word, 2 * (y - x) < Word
    PROVE  Diff(x, y) = x - y
<1> DEFINE d == x - y
           e == d % Word
<1>1. Word \in Nat \ {0} /\ d \in Int /\ 2 * d < Word /\ -(2 * d) < Word
  BY HalfAssumption, WordAssumption
<1>2. CASE d >= 0
  <2>1. d \in 0 .. Word - 1 /\ d = Word * 0 + d
    BY <1>1, <1>2
  <2>2. e = d
    BY <1>1, <2>1, ModUnique
  <2> QED BY <1>1, <2>2 DEF Diff
<1>3. CASE d < 0
  <2>1. d + Word \in 0 .. Word - 1 /\ d = Word * (-1) + (d + Word)
    BY <1>1, <1>3
  <2>2. e = d + Word
    <3> HIDE DEF d
    <3> QED BY <1>1, <2>1, ModUnique
  <2>3. ~ (2 * e < Word) /\ e - Word = d
    BY <1>1, <2>2
  <2> QED BY <2>3 DEF Diff
<1> QED BY <1>1, <1>2, <1>3

\* A number of the word is its own remainder.
LEMMA InWord ==
    ASSUME NEW x \in Nat, x < Word
    PROVE  x % Word = x
<1>1. Word \in Nat \ {0} /\ x \in 0 .. Word - 1 /\ x = Word * 0 + x
  BY HalfAssumption, WordAssumption
<1> QED BY <1>1, ModUnique

\* The constants.
LEMMA Constants ==
    /\ Start \in Nat \ {0} /\ Horizon \in Nat /\ MaxBack \in Nat
    /\ Interval \in Nat \ {0} /\ Slack \in Nat \ {0}
    /\ RtoDef \in Nat \ {0} /\ RtoMin \in Nat \ {0} /\ RtoMax \in Nat \ {0} /\ Cap \in Nat \ {0}
    /\ DupCount \in Nat /\ DupWait \in Nat /\ IntervalLost \in Nat
    /\ FastResend \in Nat /\ DupLen \in Nat /\ SndWnd \in Nat /\ MaxSends \in Nat
    /\ ProbeInit \in Nat \ {0} /\ ProbeLimit \in Nat /\ ProbeInit <= ProbeLimit
    /\ Steps \subseteq Nat /\ Nodelay \in BOOLEAN /\ Windows \subseteq BOOLEAN
    /\ Word \in Nat \ {0}
BY TimerAssumption, HalfAssumption, WordAssumption DEF Cap

\* The times of a session, by how far they may be ahead of the clock.
LEMMA TimesExact ==
    ASSUME NoWrap, NEW x \in Times, NEW y \in Times
    PROVE  Diff(x, y) = x - y /\ x % Word = x
<1>1. /\ x \in Nat /\ y \in Nat /\ Span \in Nat
      /\ Start - MaxBack <= x /\ x <= Start + Span - MaxBack
      /\ Start - MaxBack <= y /\ y <= Start + Span - MaxBack
  BY Constants DEF Times, Ahead, Span
<1>2. 2 * (x - y) < Word /\ 2 * (y - x) < Word /\ x < Word
  BY <1>1, Constants DEF NoWrap
<1> QED BY <1>1, <1>2, DiffExact, InWord

\* Where the times of a session are.
LEMMA InTimes ==
    /\ Reading \subseteq Times /\ Ahead(Interval) \subseteq Times /\ Ahead(ProbeLimit) \subseteq Times
    /\ \A x \in Reading : x + DupWait \in Times
    /\ \A f, s : s \in SegsFor(f) => s.resendts \in Times
<1>1. /\ Span - Horizon - MaxBack \in Nat
      /\ Span - Horizon - MaxBack = Horizon + MaxBack + 4 * Cap + DupWait + Interval + ProbeLimit
  BY Constants DEF Span
<1>2. /\ Reading \subseteq Times /\ Ahead(Interval) \subseteq Times /\ Ahead(ProbeLimit) \subseteq Times
      /\ \A x \in Reading : x + DupWait \in Times
  BY <1>1, Constants DEF Times, Ahead, Reading
<1>3. ASSUME NEW f, NEW s \in SegsFor(f)
      PROVE  s.resendts \in Times
  <2>1. /\ s.resendts \in Nat /\ s.rto \in Nat /\ s.rto > 0 /\ s.rto <= Cap + Horizon + MaxBack
        /\ Start - MaxBack <= s.resendts - s.rto /\ s.resendts - s.rto <= Start + Horizon + Cap
    BY DEF SegsFor, SegTimes, Segment
  <2>2. s.resendts <= Start + Horizon + (Horizon + MaxBack + 4 * Cap)
    BY <2>1, Constants
  <2>3. Start - MaxBack <= s.resendts
    BY <2>1, Constants
  <2> QED BY <1>1, <2>1, <2>2, <2>3, Constants DEF Times, Ahead
<1> QED BY <1>2, <1>3

\* A sum that is one of these times does not wrap.
LEMMA LaterExact ==
    ASSUME NoWrap, NEW x, NEW d, x + d \in Times
    PROVE  Later(x, d) = x + d
BY TimesExact DEF Later, Plus
-----------------------------------------------------------------------------
(* The timers of the control block                                         *)

\* A step that leaves the times alone.
LEMMA SameTimes ==
    ASSUME NEW b, NEW c \in Timers, Good(b), c.ts_flush = b.ts_flush, c.segs = b.segs,
           c.probe_wait = b.probe_wait, c.ts_probe = b.ts_probe
    PROVE  Good(c)
BY DEF Good

\* ikcp_update_rtt keeps the timeout in its bounds.
LEMMA RttFine ==
    ASSUME NEW b, Good(b), NEW rtt \in Nat
    PROVE  /\ Good(UpdateRtt(b, rtt))
           /\ UpdateRtt(b, rtt).ts_flush = b.ts_flush /\ UpdateRtt(b, rtt).segs = b.segs
<1> DEFINE delta == IF rtt >= b.rx_srtt THEN rtt - b.rx_srtt ELSE b.rx_srtt - rtt
           first == b.rx_srtt = 0
           val  == IF first THEN rtt \div 2 ELSE (3 * b.rx_rttval + delta) \div 4
           srtt == IF first THEN rtt ELSE Max({1, (7 * b.rx_srtt + rtt) \div 8})
           rto  == srtt + Max({Interval, 4 * val})
           new  == Min({Max({RtoMin, rto}), RtoMax})
           u == [b EXCEPT !.rx_srtt = srtt, !.rx_rttval = val, !.rx_rto = new]
<1>1. UpdateRtt(b, rtt) = u
  BY DEF UpdateRtt
<1>2. b \in Timers /\ b.rx_srtt \in Nat /\ b.rx_rttval \in Nat
  BY DEF Good, Timers
<1>3. delta \in Nat
  BY <1>2
<1> HIDE DEF delta
<1>4. val \in Nat
  <2>1. rtt \div 2 \in Nat
    OBVIOUS
  <2>2. (3 * b.rx_rttval + delta) \div 4 \in Nat
    BY <1>2, <1>3
  <2> QED BY <2>1, <2>2
<1>5. srtt \in Nat
  <2> DEFINE y == (7 * b.rx_srtt + rtt) \div 8
  <2>1. y \in Nat
    BY <1>2
  <2> HIDE DEF y
  <2>2. Max({1, y}) = IF 1 <= y THEN y ELSE 1
    BY <2>1, OfTwo
  <2>3. Max({1, y}) \in Nat
    BY <2>1, <2>2
  <2> QED BY <2>3 DEF y
<1> HIDE DEF val, srtt
<1>6. rto \in Nat
  <2>1. 4 * val \in Nat /\ Interval \in Nat
    BY <1>4, Constants
  <2> DEFINE y == 4 * val
  <2>2. y \in Nat /\ y \in Int /\ Interval \in Int
    BY <2>1
  <2> HIDE DEF y
  <2>3. Max({Interval, y}) = IF Interval <= y THEN y ELSE Interval
    BY <2>2, OfTwo
  <2>4. Max({Interval, y}) \in Nat
    BY <2>1, <2>2, <2>3
  <2> QED BY <1>5, <2>4 DEF y
<1> HIDE DEF rto
<1>7. new \in Rto
  <2> DEFINE y == Max({RtoMin, rto})
  <2>1. y = IF RtoMin <= rto THEN rto ELSE RtoMin
    <3>1. rto \in Int /\ RtoMin \in Int
      BY <1>6, Constants
    <3> QED BY <3>1, OfTwo
  <2>2. y \in Nat /\ y >= RtoMin
    BY <1>6, <2>1, Constants
  <2> HIDE DEF y
  <2>3. Min({y, RtoMax}) = IF y <= RtoMax THEN y ELSE RtoMax
    BY <2>2, Constants, OfTwo
  <2>4. Min({y, RtoMax}) \in Rto
    BY <2>2, <2>3, Constants DEF Rto, Cap, BackInRto
  <2> QED BY <2>4 DEF y
<1> HIDE DEF new
<1>8. /\ u \in Timers /\ u.ts_flush = b.ts_flush /\ u.segs = b.segs
      /\ u.probe_wait = b.probe_wait /\ u.ts_probe = b.ts_probe
  BY <1>2, <1>4, <1>5, <1>7 DEF Timers
<1> HIDE DEF u
<1>9. Good(u)
  BY <1>8, SameTimes
<1> QED BY <1>1, <1>8, <1>9

\* A new segment is in time when the next flush is no further ahead than an
\* interval and what the clock was set back.
LEMMA FirstFine ==
    ASSUME NoWrap, NEW b, b.current \in Reading, b.rx_rto \in Rto, NEW sn \in Nat,
           NEW f \in Nat, f <= b.current + MaxBack + Interval
    PROVE  FirstSend(b, sn) \in SegsFor(f)
<1> DEFINE t == b.current
           r == b.rx_rto
           w == IF Nodelay THEN 0 ELSE b.rx_rto \div 8
           s == FirstSend(b, sn)
<1>1. /\ t \in Reading /\ t \in Nat /\ t <= Start + Horizon /\ Start - MaxBack <= t
      /\ r \in Nat /\ r > 0 /\ r <= Cap
      /\ BackInRto => MaxBack <= r
  BY DEF Reading, Rto
<1>2. w \in Nat /\ w <= r
  <2>1. r \div 8 \in Nat /\ r \div 8 <= r
    <3> HIDE DEF r
    <3> QED BY <1>1
  <2> QED BY <1>1, <2>1
<1>3. t + (r + w) \in Times
  <2>1. /\ Span - Horizon - MaxBack \in Nat
        /\ Span - Horizon - MaxBack = Horizon + MaxBack + 4 * Cap + DupWait + Interval + ProbeLimit
    BY Constants DEF Span
  <2> HIDE DEF t, r, w
  <2> QED BY <1>1, <1>2, <2>1, Constants DEF Times, Ahead
<1>4. s = [sn |-> sn, rto |-> r, ts |-> t, first_ts |-> t, fastack |-> 0, dups |-> 0,
           lost |-> FALSE, resendts |-> t + (r + w)]
  BY <1>3, LaterExact DEF FirstSend
<1> HIDE DEF s, w
<1>5. s \in Segment
  BY <1>1, <1>2, <1>4 DEF Segment
<1>6. SegTimes(s, f)
  BY <1>1, <1>2, <1>4, Constants DEF SegTimes, BackInWait
<1> QED BY <1>5, <1>6 DEF SegsFor, s

\* A sequence of n elements.
LEMMA SequenceOf ==
    ASSUME NEW S, NEW n \in Nat, NEW q \in [1 .. n -> S]
    PROVE  q \in Seq(S) /\ Len(q) = n
OBVIOUS

\* Other segments that fit the next flush.
LEMMA NewSegs ==
    ASSUME NEW b, Good(b), NEW q \in Seq(SegsFor(b.ts_flush)), Len(q) <= SndWnd
    PROVE  /\ Good([b EXCEPT !.segs = q])
           /\ [b EXCEPT !.segs = q].ts_flush = b.ts_flush
           /\ [b EXCEPT !.segs = q].current = b.current
           /\ [b EXCEPT !.segs = q].segs = q
<1> DEFINE u == [b EXCEPT !.segs = q]
<1>1. q \in Seq(Segment)
  <2>1. SegsFor(b.ts_flush) \subseteq Segment
    BY DEF SegsFor
  <2> QED BY <2>1
<1>2. /\ u \in Timers /\ u.ts_flush = b.ts_flush /\ u.segs = q /\ u.current = b.current
      /\ u.probe_wait = b.probe_wait /\ u.ts_probe = b.ts_probe
  BY <1>1 DEF Good, Timers
<1> HIDE DEF u
<1>3. Good(u)
  BY <1>2 DEF Good
<1> QED BY <1>2, <1>3 DEF u

\* Segments that move from snd_queue while the window has room.
LEMMA MovedFine ==
    ASSUME NoWrap, NEW b, Good(b), b.ts_flush <= b.current + MaxBack + Interval,
           NEW n \in Nat, Len(b.segs) + n <= SndWnd
    PROVE  /\ Good(Moved(b, n)) /\ Moved(b, n).ts_flush = b.ts_flush
           /\ Moved(b, n).current = b.current
<1> DEFINE f == b.ts_flush
           S == SegsFor(f)
           p == b.segs
           new == [j \in 1 .. n |-> FirstSend(b, b.snd_nxt + j - 1)]
           q == p \o new
           b1 == [b EXCEPT !.segs = q]
           x == b.snd_nxt + n
           y == b.cursendcount + n
           u == Moved(b, n)
<1>1. /\ f \in Nat /\ b.current \in Reading /\ b.rx_rto \in Rto /\ b \in Timers
      /\ b.snd_nxt \in Nat /\ b.cursendcount \in Nat /\ p \in Seq(S) /\ Len(p) \in Nat
  BY DEF Good, Timers, Ahead
<1>2. \A j \in 1 .. n : FirstSend(b, b.snd_nxt + j - 1) \in S
  <2> TAKE j \in 1 .. n
  <2>1. b.snd_nxt + j - 1 \in Nat
    BY <1>1
  <2> QED BY <1>1, <2>1, FirstFine
<1>3. new \in Seq(S) /\ Len(new) = n
  <2>1. new \in [1 .. n -> S]
    BY <1>2
  <2> HIDE DEF new, S
  <2> QED BY <2>1, SequenceOf
<1>4. q \in Seq(S) /\ Len(q) <= SndWnd
  <2> HIDE DEF new, S, p
  <2> QED BY <1>1, <1>3 DEF p
<1>5. u = [b1 EXCEPT !.snd_nxt = x, !.cursendcount = y]
  BY <1>1 DEF Moved, Timers
<1> HIDE DEF q, S
<1>6. Good(b1) /\ b1.ts_flush = f /\ b1.current = b.current
  BY <1>4, NewSegs DEF S
<1> HIDE DEF b1, u, f
<1>7. x \in Nat /\ y \in Nat /\ b1 \in Timers
  BY <1>1, <1>6 DEF Good
<1> HIDE DEF x, y
<1>8. /\ u \in Timers /\ u.ts_flush = b1.ts_flush /\ u.segs = b1.segs /\ u.current = b1.current
      /\ u.probe_wait = b1.probe_wait /\ u.ts_probe = b1.ts_probe
  BY <1>5, <1>7 DEF Timers
<1>9. Good(u)
  BY <1>6, <1>8, SameTimes
<1> QED BY <1>6, <1>8, <1>9 DEF u, f

\* Segments that go along with new ones are sent later than before, which their
\* copies may wait for.
LEMMA AlongFine ==
    ASSUME NoWrap, NEW b, Good(b), b.ts_flush <= b.current + MaxBack + Interval, NEW d \in Nat
    PROVE  /\ Good(SentAlong(b, d)) /\ SentAlong(b, d).ts_flush = b.ts_flush
           /\ SentAlong(b, d).current = b.current
           /\ Len(SentAlong(b, d).segs) = Len(b.segs)
<1> DEFINE f == b.ts_flush
           S == SegsFor(f)
           m == Len(b.segs)
           t == b.current
           q == [i \in DOMAIN b.segs |-> IF i > Len(b.segs) - d
                                         THEN [b.segs[i] EXCEPT !.ts = b.current] ELSE b.segs[i]]
<1>1. /\ m \in Nat /\ DOMAIN b.segs = 1 .. m /\ f \in Nat /\ t \in Reading /\ m <= SndWnd
      /\ \A i \in 1 .. m : b.segs[i] \in S
  BY DEF Good, Timers, Ahead
<1>2. ASSUME NEW s \in S PROVE [s EXCEPT !.ts = t] \in S
  <2> DEFINE u == [s EXCEPT !.ts = t]
  <2>1. s \in Segment /\ SegTimes(s, f)
    BY DEF SegsFor
  <2>2. /\ u \in Segment /\ u.rto = s.rto /\ u.resendts = s.resendts /\ u.ts = t
        /\ u.dups = s.dups
    BY <1>1, <2>1 DEF Segment
  <2> HIDE DEF u
  <2>3. BackInWait => f <= t + DupWait + Interval
    <3>1. t \in Nat
      BY <1>1 DEF Reading
    <3> QED BY <1>1, <3>1, Constants DEF BackInWait
  <2>4. SegTimes(u, f)
    BY <2>1, <2>2, <2>3 DEF SegTimes
  <2> QED BY <2>2, <2>4 DEF SegsFor, u
<1>3. q \in [1 .. m -> S]
  <2> HIDE DEF S, t
  <2> QED BY <1>1, <1>2 DEF t
<1> HIDE DEF S
<1>4. q \in Seq(S) /\ Len(q) = m
  <2> HIDE DEF q, m
  <2> QED BY <1>1, <1>3, SequenceOf
<1>5. SentAlong(b, d) = [b EXCEPT !.segs = q]
  BY DEF SentAlong, Good, Timers
<1> HIDE DEF q
<1> QED BY <1>1, <1>4, <1>5, NewSegs DEF S

\* A segment that was overtaken keeps its times.
LEMMA FastAckedFine ==
    ASSUME NEW b, Good(b), NEW maxack
    PROVE  Good(FastAcked(b, maxack)) /\ FastAcked(b, maxack).ts_flush = b.ts_flush
<1> DEFINE f == b.ts_flush
           S == SegsFor(f)
           m == Len(b.segs)
           q == [i \in DOMAIN b.segs |->
                   IF b.segs[i].sn < maxack /\ b.segs[i].fastack < FastResend
                   THEN [b.segs[i] EXCEPT !.fastack = @ + 1] ELSE b.segs[i]]
<1>1. /\ m \in Nat /\ DOMAIN b.segs = 1 .. m /\ m <= SndWnd
      /\ \A i \in 1 .. m : b.segs[i] \in S
  BY DEF Good, Timers
<1>2. ASSUME NEW s \in S PROVE [s EXCEPT !.fastack = @ + 1] \in S
  <2> DEFINE x == s.fastack + 1
             u == [s EXCEPT !.fastack = x]
  <2>1. s \in Segment /\ SegTimes(s, f) /\ x \in Nat
    BY DEF SegsFor, Segment
  <2> HIDE DEF x
  <2>2. /\ u \in Segment /\ u.rto = s.rto /\ u.resendts = s.resendts /\ u.ts = s.ts
        /\ u.dups = s.dups
    BY <2>1 DEF Segment
  <2> HIDE DEF u
  <2>3. SegTimes(u, f)
    BY <2>1, <2>2 DEF SegTimes
  <2>4. u \in S
    BY <2>2, <2>3 DEF SegsFor
  <2> QED BY <2>4 DEF u, x
<1>3. q \in [1 .. m -> S]
  <2> HIDE DEF S
  <2> QED BY <1>1, <1>2
<1> HIDE DEF S
<1>4. q \in Seq(S) /\ Len(q) = m
  <2> HIDE DEF q, m
  <2> QED BY <1>1, <1>3, SequenceOf
<1>5. FastAcked(b, maxack) = [b EXCEPT !.segs = q]
  BY DEF FastAcked
<1> HIDE DEF q
<1> QED BY <1>1, <1>4, <1>5, NewSegs DEF S

\* A flush has room for the copies of as many segments as the window holds.
LEMMA RoomFine ==
    ASSUME CopiesFit, NEW b, NEW i \in Nat, i >= 1, i <= SndWnd
    PROVE  HasRoom(b, i)
<1> DEFINE T == {j \in 1 .. i - 1 : DupDue(b, b.segs[j])}
<1>1. i - 1 \in Nat /\ i - 1 < DupLen /\ DupLen \in Nat
  BY Constants DEF CopiesFit
<1>2. IsFiniteSet(1 .. i - 1) /\ Cardinality(1 .. i - 1) = i - 1
  BY <1>1, FS_Interval
<1>3. T \subseteq 1 .. i - 1
  OBVIOUS
<1> HIDE DEF T
<1>4. Cardinality(T) <= i - 1 /\ IsFiniteSet(T)
  BY <1>2, <1>3, FS_Subset
<1>5. Cardinality(T) \in Nat
  BY <1>4, FS_CardinalityType
<1> QED BY <1>1, <1>4, <1>5 DEF HasRoom, T

\* A segment after a flush at the time of b, when the next one is within an interval.
LEMMA ResendFine ==
    ASSUME NoWrap, NEW b, b.current \in Reading, b.rx_rto \in Rto, NEW f0,
           NEW i \in Nat, i >= 1, i <= SndWnd, b.segs[i] \in SegsFor(f0),
           NEW f \in Nat, f <= b.current + Interval
    PROVE  Resend(b, i) \in SegsFor(f)
<1> DEFINE s == b.segs[i]
           t == b.current
           x == IF Nodelay THEN b.rx_rto \div 2 ELSE b.rx_rto
           r == s.rto + x
           u == Resend(b, i)
<1>1. /\ t \in Nat /\ t <= Start + Horizon /\ Start - MaxBack <= t /\ t > 0 /\ t \in Reading
      /\ b.rx_rto \in Nat /\ b.rx_rto > 0 /\ b.rx_rto <= Cap
  BY DEF Reading, Rto
<1>2. x \in Nat /\ x <= Cap
  <2> DEFINE y == b.rx_rto
  <2>1. y \in Nat /\ y <= Cap /\ Cap \in Nat
    BY <1>1, Constants
  <2> HIDE DEF y
  <2>2. y \div 2 \in Nat /\ y \div 2 <= y
    BY <2>1
  <2>3. x = y \div 2 \/ x = y
    BY DEF y
  <2> QED BY <2>1, <2>2, <2>3
<1>3. /\ s \in Segment /\ SegTimes(s, f0) /\ s.rto \in Nat /\ s.ts \in Nat
      /\ s.resendts \in Nat /\ s.dups \in Nat /\ s.ts \in Reading
  BY DEF SegsFor, Segment, Reading
<1>4. s.resendts \in Times /\ s.ts \in Times /\ t \in Times
  BY <1>3, InTimes
<1>5. TimedOut(b, s) <=> t >= s.resendts
  <2>1. Diff(t, s.resendts) = t - s.resendts
    BY <1>4, TimesExact
  <2> QED BY <1>1, <1>3, <2>1 DEF TimedOut
<1>6. DupDue(b, s) <=> /\ ~ TimedOut(b, s) /\ ~ Overtaken(s)
                       /\ s.dups < DupCount /\ (t - s.ts >= DupWait \/ t - s.ts < 0)
  BY <1>4, TimesExact DEF DupDue
<1>7. CopiesFit => HasRoom(b, i)
  BY RoomFine
<1>8. u = IF TimedOut(b, s)
          THEN [s EXCEPT !.rto = r, !.resendts = Later(t, r), !.ts = t, !.lost = TRUE]
          ELSE IF Overtaken(s)
          THEN [s EXCEPT !.resendts = Later(t, s.rto), !.ts = t, !.fastack = 0]
          ELSE IF DupDue(b, s) /\ HasRoom(b, i)
          THEN [s EXCEPT !.ts = t, !.dups = @ + 1]
          ELSE s
  BY DEF Resend
<1> HIDE DEF x, u, s
<1>9. CASE TimedOut(b, s)
  <2>1. r \in Nat /\ r > 0 /\ r <= Cap + Horizon + MaxBack
    <3>1. t >= s.resendts /\ s.rto > 0 /\ Start - MaxBack <= s.resendts - s.rto
      BY <1>3, <1>5, <1>9 DEF SegTimes
    <3> QED BY <1>1, <1>2, <1>3, <3>1, Constants
  <2>2. t + r \in Times
    <3>1. /\ Span - Horizon - MaxBack \in Nat
          /\ Span - Horizon - MaxBack = Horizon + MaxBack + 4 * Cap + DupWait + Interval + ProbeLimit
      BY Constants DEF Span
    <3> HIDE DEF r
    <3> QED BY <1>1, <2>1, <3>1, Constants DEF Times, Ahead
  <2>3. Later(t, r) = t + r
    BY <2>2, LaterExact
  <2>4. u = [s EXCEPT !.rto = r, !.resendts = t + r, !.ts = t, !.lost = TRUE]
    BY <1>8, <1>9, <2>3
  <2>5. r \in Nat /\ t + r \in Nat
    BY <1>1, <2>1
  <2> HIDE DEF r
  <2>6. u.rto = r /\ u.resendts = t + r /\ u.ts = t /\ u.dups = s.dups /\ u \in Segment
    BY <1>1, <1>3, <2>4, <2>5 DEF Segment
  <2>7. SegTimes(u, f)
    BY <1>1, <2>1, <2>6, Constants DEF SegTimes
  <2> QED BY <2>6, <2>7 DEF SegsFor, u
<1>10. CASE ~ TimedOut(b, s) /\ Overtaken(s)
  <2>1. s.rto > 0 /\ s.rto <= Cap + Horizon + MaxBack
    BY <1>3 DEF SegTimes
  <2>2. t + s.rto \in Times
    <3>1. /\ Span - Horizon - MaxBack \in Nat
          /\ Span - Horizon - MaxBack = Horizon + MaxBack + 4 * Cap + DupWait + Interval + ProbeLimit
      BY Constants DEF Span
    <3> QED BY <1>1, <1>3, <2>1, <3>1, Constants DEF Times, Ahead
  <2>3. Later(t, s.rto) = t + s.rto
    BY <2>2, LaterExact
  <2>4. u = [s EXCEPT !.resendts = t + s.rto, !.ts = t, !.fastack = 0]
    BY <1>8, <1>10, <2>3
  <2>5. t + s.rto \in Nat
    BY <1>1, <1>3
  <2>6. /\ u.rto = s.rto /\ u.resendts = t + s.rto /\ u.ts = t /\ u.dups = s.dups
        /\ u \in Segment
    BY <1>1, <1>3, <2>4, <2>5 DEF Segment
  <2>7. SegTimes(u, f)
    BY <1>1, <1>3, <2>1, <2>6, Constants DEF SegTimes
  <2> QED BY <2>6, <2>7 DEF SegsFor, u
<1>11. CASE ~ TimedOut(b, s) /\ ~ Overtaken(s) /\ DupDue(b, s) /\ HasRoom(b, i)
  <2> DEFINE d == s.dups + 1
  <2>1. u = [s EXCEPT !.ts = t, !.dups = d] /\ d \in Nat
    BY <1>3, <1>8, <1>11 DEF Segment
  <2> HIDE DEF d
  <2>2. /\ u.rto = s.rto /\ u.resendts = s.resendts /\ u.ts = t
        /\ u.dups = d /\ u \in Segment
    BY <1>1, <1>3, <2>1 DEF Segment
  <2>3. SegTimes(u, f)
    BY <1>1, <1>3, <1>5, <1>11, <2>2, Constants DEF SegTimes, d
  <2> QED BY <2>2, <2>3 DEF SegsFor, u
<1>12. CASE ~ TimedOut(b, s) /\ ~ Overtaken(s) /\ ~ (DupDue(b, s) /\ HasRoom(b, i))
  <2>1. u = s
    BY <1>8, <1>12
  <2>2. CopiesFit /\ s.dups < DupCount => t - s.ts < DupWait
    BY <1>1, <1>3, <1>6, <1>7, <1>12, Constants
  <2>3. SegTimes(s, f)
    BY <1>1, <1>3, <1>5, <1>12, <2>2, Constants DEF SegTimes
  <2> QED BY <1>3, <2>1, <2>3 DEF SegsFor, u
<1> QED BY <1>9, <1>10, <1>11, <1>12 DEF u

\* The probe timer after a flush at the time of b, when the next one is within an
\* interval.
LEMMA AskFine ==
    ASSUME NoWrap, NEW b, b \in Timers, NEW f \in Nat, f <= b.current + Interval,
           b.probe_wait # 0 => b.ts_probe \in Ahead(ProbeLimit)
    PROVE  LET u == Ask(b)
           IN  /\ \E w \in 0 .. ProbeLimit, t \in Nat, a \in BOOLEAN :
                      u = [b EXCEPT !.probe_wait = w, !.ts_probe = t, !.asked = a]
               /\ u.probe_wait # 0 => u.ts_probe \in Ahead(ProbeLimit) /\ f <= u.ts_probe + Interval
<1> DEFINE t == b.current
           p == b.probe_wait
           q == b.ts_probe
           due == p # 0 /\ Diff(t, q) >= 0
           wait == IF p = 0 THEN ProbeInit
                   ELSE Min({Max({p, ProbeInit}) + Max({p, ProbeInit}) \div 2, ProbeLimit})
           u == Ask(b)
<1>1. /\ t \in Nat /\ t \in Times /\ t <= Start + Horizon /\ Start - MaxBack <= t
      /\ p \in 0 .. ProbeLimit /\ q \in Nat
  BY InTimes DEF Timers, Reading
<1>2. wait \in 1 .. ProbeLimit
  <2> DEFINE y == Max({p, ProbeInit})
             z == y + y \div 2
  <2>1. y = IF p <= ProbeInit THEN ProbeInit ELSE p
    <3>1. p \in Int /\ ProbeInit \in Int
      BY <1>1, Constants
    <3> HIDE DEF p
    <3> QED BY <3>1, OfTwo
  <2>2. y \in Nat /\ y > 0
    BY <1>1, <2>1, Constants
  <2> HIDE DEF y
  <2>3. z \in Nat /\ z > 0
    <3>1. y \div 2 \in Nat
      BY <2>2
    <3> QED BY <2>2, <3>1
  <2> HIDE DEF z
  <2>4. Min({z, ProbeLimit}) = IF z <= ProbeLimit THEN z ELSE ProbeLimit
    <3>1. z \in Int /\ ProbeLimit \in Int
      BY <2>3, Constants
    <3> QED BY <3>1, OfTwo
  <2>5. Min({z, ProbeLimit}) \in 1 .. ProbeLimit
    BY <2>3, <2>4, Constants
  <2>6. wait = ProbeInit \/ wait = Min({z, ProbeLimit})
    BY DEF y, z
  <2> QED BY <2>5, <2>6, Constants
<1> HIDE DEF wait
<1>3. p # 0 => (due <=> t >= q) /\ q \in Nat /\ q \in Ahead(ProbeLimit)
  <2> SUFFICES ASSUME p # 0 PROVE (due <=> t >= q) /\ q \in Nat /\ q \in Ahead(ProbeLimit)
    OBVIOUS
  <2>1. q \in Ahead(ProbeLimit) /\ q \in Times
    BY InTimes
  <2>2. Diff(t, q) = t - q
    <3> HIDE DEF t, q
    <3> QED BY <1>1, <2>1, TimesExact
  <2> QED BY <1>1, <2>1, <2>2
<1>4. t + wait \in Nat /\ t + wait \in Ahead(ProbeLimit) /\ Later(t, wait) = t + wait
  <2>1. t + wait \in Nat /\ t + wait \in Ahead(ProbeLimit)
    BY <1>1, <1>2, Constants DEF Ahead
  <2>2. t + wait \in Times
    BY <2>1, InTimes
  <2> QED BY <2>1, <2>2, LaterExact
<1>5. CASE ~ b.closed
  <2>1. u = [b EXCEPT !.probe_wait = 0, !.ts_probe = 0, !.asked = FALSE]
    BY <1>5 DEF Ask
  <2>2. 0 \in 0 .. ProbeLimit /\ 0 \in Nat /\ FALSE \in BOOLEAN /\ u.probe_wait = 0
    BY <2>1, Constants DEF Timers
  <2> HIDE DEF u
  <2> QED BY <2>1, <2>2 DEF u
<1>6. CASE b.closed /\ (p = 0 \/ due)
  <2>1. u = [b EXCEPT !.probe_wait = wait, !.ts_probe = t + wait, !.asked = due]
    BY <1>4, <1>6 DEF Ask, wait
  <2>2. due \in BOOLEAN /\ wait \in 0 .. ProbeLimit
    BY <1>2
  <2> HIDE DEF due
  <2>3. u.ts_probe = t + wait
    BY <2>1 DEF Timers
  <2>4. f <= (t + wait) + Interval
    BY <1>1, <1>2, Constants
  <2> HIDE DEF u
  <2> QED BY <1>4, <2>1, <2>2, <2>3, <2>4 DEF u
<1>7. CASE b.closed /\ p # 0 /\ ~ due
  <2>1. u = [b EXCEPT !.asked = FALSE]
    BY <1>7 DEF Ask
  <2>2. u = [b EXCEPT !.probe_wait = p, !.ts_probe = q, !.asked = FALSE]
    BY <2>1 DEF Timers
  <2>3. u.probe_wait = p /\ u.ts_probe = q
    BY <2>1 DEF Timers
  <2>4. f <= q + Interval
    BY <1>1, <1>3, <1>7, Constants
  <2> HIDE DEF u
  <2> QED BY <1>1, <1>3, <1>7, <2>2, <2>3, <2>4 DEF u
<1> HIDE DEF due
<1> QED BY <1>5, <1>6, <1>7

\* How many segments a flush counts as lost is a number.
LEMMA LostFine ==
    ASSUME NEW b, b \in Timers
    PROVE  NewlyLost(b) \in Nat
<1> DEFINE T == {i \in DOMAIN b.segs : TimedOut(b, b.segs[i]) /\ ~ b.segs[i].lost}
<1>1. DOMAIN b.segs = 1 .. Len(b.segs) /\ Len(b.segs) \in Nat
  BY DEF Timers
<1>2. IsFiniteSet(1 .. Len(b.segs))
  BY <1>1, FS_Interval
<1>3. T \subseteq 1 .. Len(b.segs)
  BY <1>1
<1>4. IsFiniteSet(T)
  BY <1>2, <1>3, FS_Subset
<1> QED BY <1>4, FS_CardinalityType DEF NewlyLost

\* pvp_ikcp_flush: when the next one is within an interval, all is in time for it.
LEMMA FlushFine ==
    ASSUME NoWrap, NEW b, b \in Timers, NEW f0, b.segs \in Seq(SegsFor(f0)),
           b.probe_wait # 0 => b.ts_probe \in Ahead(ProbeLimit),
           b.ts_flush <= b.current + Interval,
           NEW m \in Nat, Len(b.segs) + m <= SndWnd
    PROVE  Good(Flush(b, m)) /\ Flush(b, m).ts_flush = b.ts_flush
<1> DEFINE f == b.ts_flush
           a == Ask(b)
           q == [i \in DOMAIN b.segs |-> Resend(b, i)]
           n == NewlyLost(b)
           u == [a EXCEPT !.segs = q, !.totallostcount = a.totallostcount + n,
                          !.curlostcount = a.curlostcount + n]
<1>1. f \in Nat /\ f \in Ahead(Interval) /\ b.current \in Reading /\ b.rx_rto \in Rto
      /\ b.current \in Nat
  BY DEF Timers, Ahead, Reading
<1>2. PICK w \in 0 .. ProbeLimit, t \in Nat, x \in BOOLEAN :
          a = [b EXCEPT !.probe_wait = w, !.ts_probe = t, !.asked = x]
  BY <1>1, AskFine
<1>3. a.probe_wait # 0 => a.ts_probe \in Ahead(ProbeLimit) /\ f <= a.ts_probe + Interval
  BY <1>1, AskFine
<1> HIDE DEF a
<1>4. /\ a \in Timers /\ a.current = b.current /\ a.rx_rto = b.rx_rto /\ a.segs = b.segs
      /\ a.ts_flush = f /\ a.totallostcount = b.totallostcount /\ a.curlostcount = b.curlostcount
  BY <1>2 DEF Timers
<1>5. DOMAIN b.segs = 1 .. Len(b.segs) /\ Len(b.segs) \in Nat
      /\ \A i \in 1 .. Len(b.segs) : b.segs[i] \in SegsFor(f0) /\ i \in Nat /\ i >= 1 /\ i <= SndWnd
  <2>1. DOMAIN b.segs = 1 .. Len(b.segs) /\ Len(b.segs) \in Nat
        /\ \A i \in 1 .. Len(b.segs) : b.segs[i] \in SegsFor(f0)
    BY DEF Timers
  <2> QED BY <2>1, Constants
<1>6. \A i \in 1 .. Len(b.segs) : Resend(b, i) \in SegsFor(f)
  BY <1>1, <1>5, ResendFine
<1>7. q \in Seq(SegsFor(f)) /\ Len(q) = Len(b.segs)
  <2>1. q \in [1 .. Len(b.segs) -> SegsFor(f)]
    BY <1>5, <1>6
  <2> HIDE DEF q, f
  <2> QED BY <1>5, <2>1, SequenceOf
<1>8. SegsFor(f) \subseteq Segment
  BY DEF SegsFor
<1>9. q \in Seq(Segment)
  <2> HIDE DEF q, f
  <2> QED BY <1>7, <1>8
<1>10. n \in Nat
  BY LostFine
<1>11. Flush(b, m) = Moved(u, m)
  <2> HIDE DEF n
  <2>1. [a EXCEPT !.segs = [i \in DOMAIN @ |-> Resend(b, i)], !.totallostcount = @ + n,
                  !.curlostcount = @ + n] = u
    BY <1>4 DEF Timers
  <2> HIDE DEF u
  <2> QED BY <2>1 DEF Flush, a, n
<1> HIDE DEF q, n
<1>12. a.totallostcount + n \in Nat /\ a.curlostcount + n \in Nat
  <2>1. a.totallostcount \in Nat /\ a.curlostcount \in Nat
    BY <1>4 DEF Timers
  <2> QED BY <1>10, <2>1
<1>13. /\ u \in Timers /\ u.ts_flush = f /\ u.current = b.current /\ u.segs = q
       /\ u.probe_wait = a.probe_wait /\ u.ts_probe = a.ts_probe
  <2> DEFINE x1 == a.totallostcount + n
             x2 == a.curlostcount + n
  <2> HIDE DEF x1, x2
  <2>1. x1 \in Nat /\ x2 \in Nat /\ u = [a EXCEPT !.segs = q, !.totallostcount = x1, !.curlostcount = x2]
    BY <1>12 DEF x1, x2
  <2> QED BY <1>4, <1>9, <2>1 DEF Timers
<1> HIDE DEF u
<1>14. Good(u)
  BY <1>3, <1>5, <1>7, <1>13, Constants DEF Good
<1>15. u.ts_flush <= u.current + MaxBack + Interval /\ Len(u.segs) + m <= SndWnd
  BY <1>1, <1>7, <1>13, Constants
<1> QED BY <1>11, <1>13, <1>14, <1>15, MovedFine

\* pvp_ikcp_update_lost counts, and leaves the times alone.
LEMMA UpdateLostFine ==
    ASSUME NEW b, Good(b), NEW t \in Nat
    PROVE  Good(UpdateLost(b, t)) /\ UpdateLost(b, t).ts_flush = b.ts_flush
<1> DEFINE b1 == IF b.ts_lost = 0 THEN [b EXCEPT !.ts_lost = t] ELSE b
           b2 == [b1 EXCEPT !.ts_lost = b.current]
           rate == (b2.curlostcount * 100) \div b2.cursendcount
           b3 == [b2 EXCEPT !.lastlostrate = rate, !.cursendcount = 0, !.curlostcount = 0]
           slap == Diff(t, b1.ts_lost)
           u == UpdateLost(b, t)
<1>1. b \in Timers /\ b.current \in Nat
  BY DEF Good, Timers, Reading
<1>2. u = IF slap <= IntervalLost /\ slap >= 0 THEN b1
          ELSE IF b2.cursendcount = 0 THEN b2 ELSE b3
  BY DEF UpdateLost
<1>3. /\ b1 \in Timers /\ b1.ts_flush = b.ts_flush /\ b1.segs = b.segs
      /\ b1.probe_wait = b.probe_wait /\ b1.ts_probe = b.ts_probe
  BY <1>1 DEF Timers
<1> HIDE DEF b1
<1>4. /\ b2 \in Timers /\ b2.ts_flush = b.ts_flush /\ b2.segs = b.segs
      /\ b2.probe_wait = b.probe_wait /\ b2.ts_probe = b.ts_probe
  BY <1>1, <1>3 DEF Timers
<1> HIDE DEF b2
<1>5. CASE b2.cursendcount # 0
  <2> DEFINE x == b2.curlostcount
             y == b2.cursendcount
  <2>1. x \in Nat /\ y \in Nat /\ y > 0
    BY <1>4, <1>5 DEF Timers
  <2> HIDE DEF x, y
  <2>2. (x * 100) \div y \in Nat
    BY <2>1
  <2>3. rate \in Nat
    BY <2>2 DEF x, y
  <2> HIDE DEF rate
  <2>4. /\ b3 \in Timers /\ b3.ts_flush = b.ts_flush /\ b3.segs = b.segs
        /\ b3.probe_wait = b.probe_wait /\ b3.ts_probe = b.ts_probe
    BY <1>4, <2>3 DEF Timers
  <2> HIDE DEF b3
  <2>5. Good(b1) /\ Good(b2) /\ Good(b3)
    BY <1>3, <1>4, <2>4, SameTimes
  <2> QED BY <1>2, <1>3, <1>4, <2>4, <2>5
<1>6. CASE b2.cursendcount = 0
  <2>1. Good(b1) /\ Good(b2)
    BY <1>3, <1>4, SameTimes
  <2> QED BY <1>2, <1>3, <1>4, <1>6, <2>1
<1> QED BY <1>5, <1>6

\* The next flush is ahead, by no more than an interval.
LEMMA NextFlushFine ==
    ASSUME NoWrap, NEW t \in Reading, NEW f \in Ahead(Interval), f <= t
    PROVE  /\ NextFlush(f, t) \in Ahead(Interval)
           /\ t < NextFlush(f, t) /\ NextFlush(f, t) <= t + Interval
<1>1. /\ t \in Nat /\ f \in Nat /\ t <= Start + Horizon /\ Start - MaxBack <= t /\ Start - MaxBack <= f
      /\ t \in Times
  BY InTimes DEF Reading, Ahead
<1>2. f + Interval \in Ahead(Interval) /\ t + Interval \in Ahead(Interval)
  BY <1>1, Constants DEF Ahead
<1>3. Later(f, Interval) = f + Interval /\ Later(t, Interval) = t + Interval
  BY <1>2, InTimes, LaterExact
<1>4. Diff(t, f + Interval) = t - (f + Interval)
  BY <1>1, <1>2, InTimes, TimesExact
<1> QED BY <1>1, <1>2, <1>3, <1>4, Constants DEF NextFlush

\* pvp_ikcp_update leaves the next flush ahead, whether it flushes or not.
LEMMA UpdateFine ==
    ASSUME NoWrap, NEW b, Good(b), NEW t \in Reading, NEW m \in Nat, Len(b.segs) + m <= SndWnd
    PROVE  LET u == UpdateKcp(b, t, m)
           IN  /\ Good(u) /\ t < u.ts_flush
               /\ u.ts_flush <= t + Interval \/ u.ts_flush = b.ts_flush
<1> DEFINE jump == Diff(t, b.ts_flush) >= Slack \/ Diff(t, b.ts_flush) < -Slack
           f == IF jump THEN t ELSE b.ts_flush
           g == NextFlush(f, t)
           b1 == [b EXCEPT !.current = t, !.ts_flush = f]
           b2 == [b EXCEPT !.current = t, !.ts_flush = g]
           u == UpdateKcp(b, t, m)
<1>1. /\ t \in Nat /\ t \in Times /\ b \in Timers /\ b.ts_flush \in Ahead(Interval)
      /\ t \in Ahead(Interval) /\ b.segs \in Seq(SegsFor(b.ts_flush))
      /\ b.probe_wait # 0 => b.ts_probe \in Ahead(ProbeLimit)
  <2>1. t \in Ahead(Interval)
    BY Constants DEF Reading, Ahead
  <2> QED BY <2>1, InTimes DEF Reading, Good, Timers
<1> HIDE DEF jump
<1>2. f \in Ahead(Interval) /\ f \in Nat
  BY <1>1 DEF Ahead
<1>3. Diff(t, f) = t - f
  BY <1>1, <1>2, InTimes, TimesExact
<1>4. u = UpdateLost(IF Diff(t, f) >= 0 THEN Flush(b2, m) ELSE b1, t)
  <2>1. [b1 EXCEPT !.ts_flush = g] = b2
    BY <1>1 DEF Timers
  <2> HIDE DEF b1, b2, g
  <2> QED BY <2>1 DEF UpdateKcp, jump, b1, g
<1> HIDE DEF u
<1>5. CASE f <= t
  <2>1. g \in Ahead(Interval) /\ t < g /\ g <= t + Interval
    BY <1>2, <1>5, NextFlushFine
  <2> HIDE DEF g, f
  <2>2. /\ b2 \in Timers /\ b2.ts_flush = g /\ b2.current = t /\ b2.segs = b.segs
        /\ b2.probe_wait = b.probe_wait /\ b2.ts_probe = b.ts_probe
    BY <1>1, <2>1 DEF Timers
  <2> HIDE DEF b2
  <2>3. Good(Flush(b2, m)) /\ Flush(b2, m).ts_flush = g
    <3>1. b2.ts_flush <= b2.current + Interval
      BY <2>1, <2>2
    <3> QED BY <1>1, <2>2, <3>1, FlushFine
  <2>4. u = UpdateLost(Flush(b2, m), t)
    BY <1>1, <1>2, <1>3, <1>4, <1>5
  <2>5. Good(u) /\ u.ts_flush = g
    BY <1>1, <2>3, <2>4, UpdateLostFine
  <2> QED BY <2>1, <2>5 DEF u
<1>6. CASE t < f
  <2>1. f = b.ts_flush
    BY <1>1, <1>6
  <2> HIDE DEF f
  <2>2. /\ b1 \in Timers /\ b1.ts_flush = f /\ b1.segs = b.segs
        /\ b1.probe_wait = b.probe_wait /\ b1.ts_probe = b.ts_probe
    BY <1>1, <1>2 DEF Timers
  <2> HIDE DEF b1
  <2>3. Good(b1)
    BY <2>1, <2>2, SameTimes
  <2>4. u = UpdateLost(b1, t)
    BY <1>1, <1>2, <1>3, <1>4, <1>6
  <2>5. Good(u) /\ u.ts_flush = f
    BY <1>1, <2>2, <2>3, <2>4, UpdateLostFine
  <2> QED BY <1>6, <2>1, <2>5 DEF u
<1> QED BY <1>1, <1>2, <1>5, <1>6

\* pvp_ikcp_check returns no time behind the next flush.
LEMMA CheckFine ==
    ASSUME NoWrap, NEW b, Good(b), NEW t \in Reading, t < b.ts_flush
    PROVE  Check(b, t) \in Nat /\ Check(b, t) <= b.ts_flush
<1> DEFINE f == b.ts_flush
           jump == Diff(t, f) >= Slack \/ Diff(t, f) < -Slack
           Waits == {Diff(b.segs[i].resendts, t) : i \in DOMAIN b.segs}
               \cup {Diff(Later(b.segs[i].ts, DupWait), t) :
                       i \in {j \in DOMAIN b.segs : b.segs[j].dups < DupCount}}
           W == Waits \cup {Diff(f, t), Interval}
<1>1. /\ t \in Nat /\ t \in Times /\ f \in Nat /\ f \in Times /\ t < f
      /\ f \in Ahead(Interval)
      /\ \A i \in DOMAIN b.segs : b.segs[i] \in SegsFor(f)
  BY InTimes DEF Reading, Good, Timers, Ahead
<1>2. Diff(f, t) = f - t
  BY <1>1, TimesExact
<1>3. \A i \in DOMAIN b.segs : /\ Diff(b.segs[i].resendts, t) \in Int
                               /\ Diff(Later(b.segs[i].ts, DupWait), t) \in Int
  <2> SUFFICES ASSUME NEW s \in SegsFor(f)
               PROVE  Diff(s.resendts, t) \in Int /\ Diff(Later(s.ts, DupWait), t) \in Int
    BY <1>1
  <2>1. s.resendts \in Times /\ s.ts + DupWait \in Times
    BY InTimes DEF SegsFor, Segment
  <2>2. Later(s.ts, DupWait) = s.ts + DupWait
    BY <2>1, LaterExact
  <2>3. Diff(s.resendts, t) = s.resendts - t /\ Diff(s.ts + DupWait, t) = (s.ts + DupWait) - t
    BY <1>1, <2>1, TimesExact
  <2>4. s.resendts \in Nat /\ s.ts + DupWait \in Nat
    BY <2>1 DEF Times, Ahead
  <2> QED BY <1>1, <2>2, <2>3, <2>4
<1>4. Waits \subseteq Int
  BY <1>3
<1>5. Check(b, t) = IF jump \/ Diff(t, f) >= 0 \/ \E w \in Waits : w <= 0 THEN t ELSE Later(t, Min(W))
  BY DEF Check
<1> HIDE DEF Waits, jump
<1>6. CASE \A w \in Waits : ~ (w <= 0)
  <2>1. W \subseteq Nat /\ Diff(f, t) \in W
    <3>1. Waits \subseteq Nat
      BY <1>4, <1>6
    <3>2. Diff(f, t) \in Nat /\ Interval \in Nat
      BY <1>1, <1>2, Constants
    <3> QED BY <3>1, <3>2
  <2>2. Min(W) \in Nat /\ Min(W) <= f - t
    <3> HIDE DEF W
    <3> QED BY <1>2, <2>1, MinFact
  <2> DEFINE n == Min(W)
  <2> HIDE DEF n
  <2>3. n \in Nat /\ n <= f - t
    BY <2>2 DEF n
  <2>4. t + n \in Nat /\ t + n <= f /\ t + n \in Ahead(Interval)
    BY <1>1, <2>3, Constants DEF Ahead, Reading
  <2>5. Later(t, n) = t + n
    BY <2>4, InTimes, LaterExact
  <2> QED BY <1>1, <1>5, <2>4, <2>5 DEF n
<1>7. CASE ~ \A w \in Waits : ~ (w <= 0)
  BY <1>1, <1>5, <1>7
<1> QED BY <1>6, <1>7

\* A packet that acknowledges a segment.
LEMMA AckedFine ==
    ASSUME NoWrap, NEW b, Good(b), NEW i \in 1 .. Len(b.segs)
    PROVE  Good(Acked(b, i)) /\ Acked(b, i).ts_flush = b.ts_flush
<1> DEFINE rtt == Diff(b.current, b.segs[i].first_ts)
           b1 == IF rtt > 0 THEN UpdateRtt(b, rtt) ELSE b
           q == RemoveAt(b.segs, i)
           u == Acked(b, i)
<1>1. b.current \in Reading /\ b.segs[i] \in Segment /\ b.segs \in Seq(SegsFor(b.ts_flush))
  BY DEF Good, Timers
<1>2. rtt \in Int
  <2>1. b.current \in Times /\ b.segs[i].first_ts \in Times
    BY <1>1, InTimes DEF Segment
  <2>2. rtt = b.current - b.segs[i].first_ts
    BY <2>1, TimesExact
  <2> QED BY <2>1, <2>2 DEF Times, Ahead
<1> HIDE DEF rtt
<1>3. Good(b1) /\ b1.ts_flush = b.ts_flush /\ b1.segs = b.segs
  <2>1. CASE rtt > 0
    BY <1>2, <2>1, RttFine
  <2>2. CASE ~ (rtt > 0)
    BY <2>2
  <2> QED BY <2>1, <2>2
<1> HIDE DEF b1
<1>4. q \in Seq(SegsFor(b.ts_flush)) /\ q \in Seq(Segment) /\ Len(q) <= SndWnd
  <2> DEFINE S == SegsFor(b.ts_flush)
             p == b.segs
  <2>1. p \in Seq(S) /\ i \in 1 .. Len(p) /\ Len(p) \in Nat /\ S \subseteq Segment
    BY <1>1 DEF SegsFor
  <2> HIDE DEF S, p
  <2>2. SubSeq(p, 1, i - 1) \in Seq(S) /\ SubSeq(p, i + 1, Len(p)) \in Seq(S)
    BY <2>1
  <2>3. RemoveAt(p, i) \in Seq(S)
    BY <2>2 DEF RemoveAt
  <2>4. RemoveAt(p, i) \in Seq(Segment)
    BY <2>1, <2>3
  <2>5. Len(RemoveAt(p, i)) <= Len(p)
    <3> DEFINE x == SubSeq(p, 1, i - 1)
               y == SubSeq(p, i + 1, Len(p))
    <3>1. Len(x) = i - 1 /\ Len(y) = Len(p) - i
      BY <2>1
    <3>2. x \in Seq(S) /\ y \in Seq(S) /\ RemoveAt(p, i) = x \o y
      BY <2>2 DEF RemoveAt
    <3> HIDE DEF x, y
    <3>3. Len(x \o y) = Len(x) + Len(y)
      BY <3>2
    <3> QED BY <2>1, <3>1, <3>2, <3>3
  <2>6. Len(p) <= SndWnd /\ Len(RemoveAt(p, i)) \in Nat
    BY <2>3 DEF Good, p
  <2> QED BY <2>1, <2>3, <2>4, <2>5, <2>6, Constants DEF S, p
<1> HIDE DEF q
<1>5. u = [b1 EXCEPT !.segs = q]
  <2>1. u = [b1 EXCEPT !.segs = RemoveAt(b1.segs, i)]
    BY <1>3 DEF Acked, b1, rtt, Good, Timers
  <2> QED BY <1>3, <2>1 DEF q
<1> HIDE DEF u
<1>6. /\ u \in Timers /\ u.ts_flush = b.ts_flush /\ u.segs = q
      /\ u.probe_wait = b1.probe_wait /\ u.ts_probe = b1.ts_probe
  BY <1>3, <1>4, <1>5 DEF Good, Timers
<1>7. Good(u)
  BY <1>3, <1>4, <1>6 DEF Good
<1> QED BY <1>6, <1>7 DEF u
-----------------------------------------------------------------------------
(* Steps                                                                   *)

\* The clock is what the model's time is.
LEMMA ClockFine ==
    ASSUME NoWrap, now \in Reading
    PROVE  Clock = now /\ Clock \in Reading
BY InTimes, TimesExact DEF Clock

\* pvp_ikcp_create: the first flush is an interval ahead.
LEMMA InitKeeps ==
    ASSUME NoWrap, Init
    PROVE  IInv
<1>1. Start \in Reading /\ now = Start /\ Clock = Start
  <2>1. Start \in Reading
    BY Constants DEF Reading
  <2> QED BY <2>1, ClockFine DEF Init
<1>2. Start + Interval \in Ahead(Interval) /\ Later(Start, Interval) = Start + Interval
  <2>1. Start + Interval \in Ahead(Interval)
    BY Constants DEF Ahead
  <2> QED BY <2>1, InTimes, LaterExact
<1>3. k = NewTimers(Start)
  BY <1>1 DEF Init, Clock
<1>4. RtoDef \in Rto
  BY Constants DEF Rto, Cap, BackInRto
<1>5. <<>> \in Seq(Segment) /\ <<>> \in Seq(SegsFor(Start + Interval)) /\ Start \in Nat
      /\ 0 \in 0 .. ProbeLimit
  BY Constants
<1>6. k \in Timers /\ k.ts_flush = Start + Interval /\ k.segs = <<>> /\ k.probe_wait = 0
  BY <1>1, <1>2, <1>3, <1>4, <1>5 DEF NewTimers, Timers
<1>7. Good(k)
  <2>1. k.segs \in Seq(SegsFor(k.ts_flush)) /\ Len(k.segs) <= SndWnd
    BY <1>5, <1>6, Constants
  <2>2. k.probe_wait = 0
    BY <1>6
  <2> QED BY <1>6, <2>1, <2>2 DEF Good
<1>8. now = Start /\ back = 0 /\ phase = "idle" /\ next = 0 /\ update_now = FALSE
  BY DEF Init
<1>9. TypeInv
  <2>1. back \in 0 .. MaxBack /\ Start - back <= now /\ next \in Nat
    BY <1>8, Constants
  <2> QED BY <1>1, <1>8, <2>1 DEF TypeInv
<1>10. Scheduled
  <2>1. k.ts_flush = now + Interval /\ now \in Nat
    BY <1>1, <1>6, Constants
  <2> QED BY <1>8, <2>1, Constants DEF Scheduled
<1> QED BY <1>7, <1>9, <1>10 DEF IInv

\* Time passes.
LEMMA ElapseKeeps ==
    ASSUME IInv, NEW d \in Steps, Elapse(d)
    PROVE  IInv'
<1>1. d \in Nat /\ now \in Nat /\ back \in Nat /\ k.ts_flush \in Nat
  BY Constants DEF IInv, TypeInv, Good, Timers, Reading, Ahead
<1>2. now' \in Reading /\ Start - back <= now'
  BY <1>1, Constants DEF Elapse, IInv, TypeInv, Reading
<1>3. Scheduled'
  BY <1>1, Constants DEF Elapse, IInv, Scheduled
<1>4. Good(k)'
  BY DEF Elapse, IInv
<1> QED BY <1>2, <1>3, <1>4 DEF Elapse, IInv, TypeInv

\* The clock is set back: the next flush is further ahead.
LEMMA StepBackKeeps ==
    ASSUME IInv, NEW d \in 1 .. MaxBack, StepBack(d)
    PROVE  IInv'
<1>1. d \in Nat /\ d > 0 /\ d <= MaxBack /\ now \in Nat /\ back = 0 /\ k.ts_flush \in Nat
      /\ now <= Start + Horizon /\ Start - back <= now /\ now - d > 0
  BY Constants DEF StepBack, IInv, TypeInv, Good, Timers, Reading, Ahead
<1>2. /\ now' = now - d /\ back' = d /\ phase = "idle"
      /\ UNCHANGED <<phase, k, next, update_now>>
  BY DEF StepBack
<1>3. now' \in Reading /\ Start - back' <= now' /\ back' \in 0 .. MaxBack
  BY <1>1, <1>2, Constants DEF Reading
<1>4. Scheduled'
  BY <1>1, <1>2, Constants DEF IInv, Scheduled
<1>5. Good(k)'
  BY <1>2 DEF IInv
<1> QED BY <1>2, <1>3, <1>4, <1>5 DEF IInv, TypeInv

\* What a call may move is within the window.
LEMMA MovableFine ==
    ASSUME Good(k), NEW n \in Movable
    PROVE  n \in Nat /\ Len(k.segs) + n <= SndWnd
<1> DEFINE x == SndWnd - Len(k.segs)
           y == MaxSends - k.snd_nxt
<1>1. /\ Len(k.segs) \in Nat /\ k.snd_nxt \in Nat /\ Len(k.segs) <= SndWnd
      /\ x \in Nat /\ y \in Int
  <2>1. Len(k.segs) \in Nat /\ k.snd_nxt \in Nat /\ Len(k.segs) <= SndWnd
    BY DEF Good, Timers
  <2> QED BY <2>1, Constants
<1>2. n \in 0 .. (IF k.closed THEN 0 ELSE Min({x, y}))
  BY DEF Movable
<1> HIDE DEF x, y
<1>3. Min({x, y}) = IF x <= y THEN x ELSE y
  BY <1>1, OfTwo
<1>4. n \in Nat /\ n <= x
  BY <1>1, <1>2, <1>3
<1> QED BY <1>1, <1>4, Constants DEF x

\* Segments leave.
LEMMA SendKeeps ==
    ASSUME NoWrap, IInv, NEW n \in Movable, NEW d \in Nat, Send(n, d)
    PROVE  IInv'
<1> DEFINE t == Clock
           b == SetCurrent(k, t)
           c == SentAlong(b, d)
<1>1. /\ t = now /\ t \in Reading /\ t > 0 /\ Good(k) /\ k \in Timers /\ now \in Nat
      /\ back \in 0 .. MaxBack /\ n \in Nat /\ Len(k.segs) + n <= SndWnd
  BY ClockFine, MovableFine DEF IInv, TypeInv, Good, Reading
<1>2. b = [k EXCEPT !.current = t]
  BY <1>1 DEF SetCurrent
<1>3. k' = Moved(c, n) /\ UNCHANGED <<now, back, phase, next, update_now>>
  BY DEF Send, SendSegs
<1> HIDE DEF t, b
<1>4. /\ b \in Timers /\ b.current = t /\ b.ts_flush = k.ts_flush /\ b.segs = k.segs
      /\ b.probe_wait = k.probe_wait /\ b.ts_probe = k.ts_probe
  BY <1>1, <1>2 DEF Timers
<1>5. Good(b)
  BY <1>1, <1>4, SameTimes
<1>6. b.ts_flush <= b.current + MaxBack + Interval
  <2>1. k.ts_flush <= now + back + Interval /\ k.ts_flush \in Nat
    BY <1>1 DEF IInv, Scheduled, Timers, Ahead
  <2> QED BY <1>1, <1>4, <2>1, Constants
<1>7. Good(c) /\ c.ts_flush = b.ts_flush /\ c.current = b.current /\ Len(c.segs) = Len(b.segs)
  BY <1>5, <1>6, AlongFine
<1> HIDE DEF c
<1>8. Good(k') /\ k'.ts_flush = k.ts_flush
  BY <1>1, <1>3, <1>4, <1>6, <1>7, MovedFine
<1>9. Scheduled' /\ TypeInv'
  BY <1>3, <1>8 DEF IInv, Scheduled, TypeInv
<1> QED BY <1>8, <1>9 DEF IInv

\* A packet comes in.
LEMMA InputKeeps ==
    ASSUME NoWrap, IInv, NEW w \in BOOLEAN, NEW i \in 0 .. Len(k.segs), NEW maxack,
           Input(w, i, maxack)
    PROVE  IInv'
<1> DEFINE t == Clock
           b == [SetCurrent(k, t) EXCEPT !.closed = w]
           c == IF i = 0 THEN b ELSE Acked(b, i)
<1>1. t \in Reading /\ t > 0 /\ Good(k) /\ k \in Timers
  BY ClockFine DEF IInv, TypeInv, Good, Reading
<1>2. b = [k EXCEPT !.current = t, !.closed = w]
  BY <1>1 DEF SetCurrent, Timers
<1>3. k' = FastAcked(c, maxack) /\ UNCHANGED <<now, back, phase, next>> /\ update_now' = TRUE
  BY DEF Input
<1> HIDE DEF t, b
<1>4. /\ b \in Timers /\ b.ts_flush = k.ts_flush /\ b.segs = k.segs
      /\ b.probe_wait = k.probe_wait /\ b.ts_probe = k.ts_probe
  BY <1>1, <1>2 DEF Timers
<1>5. Good(b)
  BY <1>1, <1>4, SameTimes
<1>6. Good(c) /\ c.ts_flush = k.ts_flush
  <2>1. CASE i = 0
    BY <1>4, <1>5, <2>1
  <2>2. CASE i # 0
    <3>1. i \in 1 .. Len(b.segs)
      <4>1. Len(k.segs) \in Nat
        BY <1>1 DEF Timers
      <4> QED BY <1>4, <2>2, <4>1
    <3> QED BY <1>4, <1>5, <2>2, <3>1, AckedFine
  <2> QED BY <2>1, <2>2
<1> HIDE DEF c
<1>7. Good(k') /\ k'.ts_flush = k.ts_flush
  BY <1>3, <1>6, FastAckedFine
<1>8. Scheduled' /\ TypeInv'
  BY <1>3, <1>7 DEF IInv, Scheduled, TypeInv
<1> QED BY <1>7, <1>8 DEF IInv

\* Tick: with an update the next flush is ahead of the clock, and without one the
\* time that check returned is, and the flush is not before it.
LEMMA TickKeeps ==
    ASSUME NoWrap, IInv, NEW n \in Movable, Tick(n)
    PROVE  IInv'
<1>1. /\ Clock = now /\ Clock \in Reading /\ Good(k) /\ now \in Nat /\ back \in 0 .. MaxBack
      /\ phase' = "idle" /\ UNCHANGED <<now, back>> /\ next \in Nat
      /\ k.ts_flush \in Nat
  BY ClockFine DEF Tick, IInv, TypeInv, Reading, Good, Timers, Ahead
<1>2. CASE next <= Clock \/ update_now
  <2>1. k' = UpdateKcp(k, Clock, n) /\ next' = Check(k', Clock) /\ update_now' = FALSE
    BY <1>2 DEF Tick
  <2>2. /\ Good(k') /\ Clock < k'.ts_flush
        /\ k'.ts_flush <= Clock + Interval \/ k'.ts_flush = k.ts_flush
    <3>1. n \in Nat /\ Len(k.segs) + n <= SndWnd
      BY <1>1, MovableFine
    <3> QED BY <1>1, <2>1, <3>1, UpdateFine
  <2>3. next' \in Nat /\ next' <= k'.ts_flush
    BY <1>1, <2>1, <2>2, CheckFine
  <2>4. k'.ts_flush \in Nat
    BY <2>2 DEF Good, Timers, Ahead
  <2>5. Scheduled'
    BY <1>1, <2>2, <2>3, <2>4, Constants DEF IInv, Scheduled
  <2>6. TypeInv'
    BY <1>1, <2>1, <2>3 DEF IInv, TypeInv
  <2> QED BY <2>2, <2>5, <2>6 DEF IInv
<1>3. CASE ~ (next <= Clock \/ update_now)
  <2>1. UNCHANGED <<k, next, update_now>>
    BY <1>3 DEF Tick
  <2>2. Scheduled'
    BY <1>1, <1>3, <2>1 DEF IInv, Scheduled
  <2> QED BY <1>1, <2>1, <2>2 DEF IInv, TypeInv
<1> QED BY <1>2, <1>3

\* Every step keeps the invariant.
LEMMA StepKeeps ==
    ASSUME NoWrap
    PROVE  IInv /\ [Next]_vars => IInv'
<1> SUFFICES ASSUME IInv, [Next]_vars PROVE IInv'
  OBVIOUS
<1>1. ASSUME NEW d \in Steps, Elapse(d) PROVE IInv'
  BY <1>1, ElapseKeeps
<1>2. ASSUME NEW d \in 1 .. MaxBack, StepBack(d) PROVE IInv'
  BY <1>2, StepBackKeeps
<1>3. ASSUME NEW n \in Movable, NEW d \in 0 .. Min({DupCount, Len(k.segs)}), Send(n, d) PROVE IInv'
  <2>1. d \in Nat
    <3>1. DupCount \in Int /\ Len(k.segs) \in Int
      BY Constants DEF IInv, Good, Timers
    <3>2. Min({DupCount, Len(k.segs)}) \in Int
      BY <3>1, OfTwo
    <3> QED BY <3>2
  <2> QED BY <1>3, <2>1, SendKeeps
<1>4. ASSUME NEW w \in Windows, NEW i \in 0 .. Len(k.segs), NEW maxack \in -1 .. k.snd_nxt - 1,
             Input(~w, i, maxack)
      PROVE  IInv'
  <2>1. (~w) \in BOOLEAN
    BY Constants
  <2> QED BY <1>4, <2>1, InputKeeps
<1>5. ASSUME NEW n \in Movable, Tick(n) PROVE IInv'
  BY <1>5, TickKeeps
<1>6. CASE UNCHANGED vars
  BY <1>6 DEF vars, IInv, TypeInv, Scheduled
<1> QED BY <1>1, <1>2, <1>3, <1>4, <1>5, <1>6 DEF Next

\* The invariant, while the clock does not wrap.
THEOREM Invariant ==
    ASSUME NoWrap
    PROVE  Spec => []IInv
<1>1. Init => IInv
  BY InitKeeps
<1>2. IInv /\ [Next]_vars => IInv'
  BY StepKeeps
<1> QED BY <1>1, <1>2, PTL DEF Spec

\* Tick calls update in time: when it is done no flush is overdue, however the
\* loop's passes fall, whatever is sent and received, and wherever the wall clock
\* is set back to (kcp_session.cpp:173-180, ikcp.cpp:1478-1562).
THEOREM FlushOnSchedule ==
    ASSUME NoWrap
    PROVE  Spec => []OnSchedule
<1>1. IInv => OnSchedule
  <2> SUFFICES ASSUME IInv, phase = "idle" PROVE Diff(k.ts_flush, Clock) > 0
    BY DEF OnSchedule
  <2>1. /\ Clock = now /\ now \in Nat /\ now < k.ts_flush /\ k.ts_flush \in Nat
        /\ now \in Times /\ k.ts_flush \in Times
    BY ClockFine, InTimes DEF IInv, TypeInv, Scheduled, Good, Timers, Reading, Ahead
  <2>2. Diff(k.ts_flush, now) = k.ts_flush - now
    BY <2>1, TimesExact
  <2> QED BY <2>1, <2>2
<1>2. Spec => []IInv
  BY Invariant
<1> QED BY <1>1, <1>2, PTL

\* A segment whose timeout has come is sent again within an interval, if the clock
\* was set back by no more than the least timeout: otherwise the flush stays where
\* it was scheduled before that (ikcp.cpp:1148-1180, 1490-1504).
THEOREM TimeoutsInTime ==
    ASSUME NoWrap, BackInRto
    PROVE  Spec => []ResentInTime
<1>1. IInv => ResentInTime
  <2> SUFFICES ASSUME IInv, phase = "idle", NEW i \in DOMAIN k.segs
               PROVE  Diff(Clock, k.segs[i].resendts) < Interval
    BY DEF ResentInTime
  <2> DEFINE s == k.segs[i]
  <2>1. /\ Clock = now /\ now \in Nat /\ now < k.ts_flush /\ k.ts_flush \in Nat
        /\ now \in Times /\ s \in SegsFor(k.ts_flush)
    <3>1. Clock = now /\ now \in Reading /\ now \in Times
      BY ClockFine, InTimes DEF IInv, TypeInv
    <3>2. now < k.ts_flush /\ k.ts_flush \in Nat
      BY <3>1 DEF IInv, TypeInv, Scheduled, Good, Timers, Reading, Ahead
    <3>3. s \in SegsFor(k.ts_flush)
      BY DEF IInv, TypeInv, Good
    <3> QED BY <3>1, <3>2, <3>3 DEF Reading
  <2> HIDE DEF s
  <2>2. s.resendts \in Times /\ s.resendts \in Nat /\ k.ts_flush <= s.resendts + Interval
    BY <2>1, InTimes DEF SegsFor, Segment, SegTimes
  <2>3. Diff(now, s.resendts) = now - s.resendts
    BY <2>1, <2>2, TimesExact
  <2> QED BY <2>1, <2>2, <2>3, Constants DEF s
<1>2. Spec => []IInv
  BY Invariant
<1> QED BY <1>1, <1>2, PTL

\* While a copy is allowed it goes out within the wait and an interval, if the clock
\* was set back by no more than the wait, and the send window is no larger than what a
\* flush copies, IKCP_DUPSEND_LEN (ikcp.cpp:1181-1191, 1389-1416, 1547-1555).
THEOREM CopiesInTime ==
    ASSUME NoWrap, BackInWait, CopiesFit
    PROVE  Spec => []DupInTime
<1>1. IInv => DupInTime
  <2> SUFFICES ASSUME IInv, phase = "idle", NEW i \in DOMAIN k.segs, k.segs[i].dups < DupCount
               PROVE  Diff(Clock, k.segs[i].ts) < DupWait + Interval
    BY DEF DupInTime
  <2> DEFINE s == k.segs[i]
  <2>1. /\ Clock = now /\ now \in Nat /\ now < k.ts_flush /\ k.ts_flush \in Nat
        /\ now \in Times /\ s \in SegsFor(k.ts_flush)
    <3>1. Clock = now /\ now \in Reading /\ now \in Times
      BY ClockFine, InTimes DEF IInv, TypeInv
    <3>2. now < k.ts_flush /\ k.ts_flush \in Nat
      BY <3>1 DEF IInv, TypeInv, Scheduled, Good, Timers, Reading, Ahead
    <3>3. s \in SegsFor(k.ts_flush)
      BY DEF IInv, TypeInv, Good
    <3> QED BY <3>1, <3>2, <3>3 DEF Reading
  <2>2. s.dups < DupCount
    OBVIOUS
  <2> HIDE DEF s
  <2>3. s.ts \in Times /\ s.ts \in Nat /\ k.ts_flush <= s.ts + DupWait + Interval
    BY <2>1, <2>2, InTimes DEF SegsFor, Segment, SegTimes, Reading
  <2>4. Diff(now, s.ts) = now - s.ts
    BY <2>1, <2>3, TimesExact
  <2> QED BY <2>1, <2>3, <2>4, Constants DEF s
<1>2. Spec => []IInv
  BY Invariant
<1> QED BY <1>1, <1>2, PTL

\* A closed window is asked about within an interval of the end of the wait, and the
\* wait stays within its limit (ikcp.cpp:1053-1070).
THEOREM ProbesInTime ==
    ASSUME NoWrap
    PROVE  Spec => []ProbeInTime
<1>1. IInv => ProbeInTime
  <2> SUFFICES ASSUME IInv, phase = "idle", k.probe_wait # 0
               PROVE  Diff(Clock, k.ts_probe) < Interval /\ k.probe_wait <= ProbeLimit
    BY DEF ProbeInTime
  <2>1. /\ Clock = now /\ now \in Nat /\ now < k.ts_flush /\ k.ts_flush \in Nat
        /\ now \in Times /\ k.ts_probe \in Times /\ k.ts_probe \in Nat
        /\ k.ts_flush <= k.ts_probe + Interval
        /\ k.probe_wait \in 0 .. ProbeLimit
    BY ClockFine, InTimes DEF IInv, TypeInv, Scheduled, Good, Timers, Reading, Ahead
  <2>2. Diff(now, k.ts_probe) = now - k.ts_probe
    BY <2>1, TimesExact
  <2> QED BY <2>1, <2>2, Constants
<1>2. Spec => []IInv
  BY Invariant
<1> QED BY <1>1, <1>2, PTL
=============================================================================
