------------------------- MODULE ConnClient_proofs -------------------------
(***************************************************************************)
(* Proofs about ConnClient.  The first part says what each method may do   *)
(* to the object, in terms of two relations: a method either closes the    *)
(* connection (Closes) or keeps it (Keeps).  The second part proves the    *)
(* invariant from those lemmas, one step per action.                       *)
(***************************************************************************)
EXTENDS ConnClient, SequenceTheorems, TLAPS

\* No byte and no socket of an earlier connection is left.
Empty(c) ==
    /\ c.tcp_sock = "none" /\ c.udp_sock = "none"
    /\ ~ c.write_pending /\ c.frames = 0 /\ ~ c.partial /\ c.tcp_writable

\* d is c after one or more closes, whatever the fields of c were before.
Closes(c, d) ==
    /\ d \in Client
    /\ d.conn_state = CS_INIT
    /\ Empty(d)
    /\ d.relink_count = c.relink_count
    /\ d.lost = c.lost
    /\ d.running => c.running /\ c.relink_count < Len(relink_vec)
    /\ c.running /\ ~ d.running => d.kcp = "null"
    /\ c.kcp = "null" => d.kcp = "null"

\* d is c with other callbacks or, on an open connection, other bytes buffered.
Keeps(c, d) ==
    /\ d \in Client
    /\ d.conn_state = c.conn_state
    /\ d.tcp_sock = c.tcp_sock /\ d.udp_sock = c.udp_sock
    /\ c.tcp_sock = "none" =>
          /\ d.write_pending = c.write_pending /\ d.tcp_writable = c.tcp_writable
          /\ d.frames = c.frames /\ d.partial = c.partial
    /\ d.relink_count = c.relink_count
    /\ d.lost = c.lost
    /\ d.running = c.running
    /\ d.kcp = c.kcp

\* n copies of a callback are a sequence of callbacks.
LEMMA CallbacksType ==
    ASSUME NEW n \in Nat, NEW cb \in Callback
    PROVE  [i \in 1 .. n |-> cb] \in Seq(Callback)
  OBVIOUS

\* SetConnState keeps the object's type and touches four fields.
LEMMA SetConnStateLemma ==
    ASSUME NEW c \in Client, NEW s \in ConnState, NEW d, d = SetConnState(c, s)
    PROVE  /\ d \in Client
           /\ d.conn_state = s /\ d.age = 0
           /\ d.tcp_writable = (s = CS_INIT \/ c.tcp_writable)
           /\ d.relink_count = IF s = CS_LOGIC_CONNECTED THEN 0 ELSE c.relink_count
           /\ d.running = c.running /\ d.kcp = c.kcp /\ d.lost = c.lost
           /\ d.tcp_sock = c.tcp_sock /\ d.udp_sock = c.udp_sock
           /\ d.frames = c.frames /\ d.partial = c.partial
           /\ d.write_pending = c.write_pending
           /\ d.out = c.out
<1> DEFINE tw == IF s = CS_INIT THEN TRUE ELSE c.tcp_writable
           rc == IF s = CS_LOGIC_CONNECTED THEN 0 ELSE c.relink_count
<1>1. tw \in BOOLEAN /\ rc \in Nat
  BY DEF Client
<1>2. d = [c EXCEPT !.conn_state = s, !.age = 0, !.tcp_writable = tw, !.relink_count = rc]
  BY DEF SetConnState
<1>3. 0 \in 0 .. AgeCap
  BY AgeCapAssumption
<1>4. tw = (s = CS_INIT \/ c.tcp_writable)
  BY DEF Client
<1> HIDE DEF tw, rc
<1>5. d \in Client
  BY <1>1, <1>2, <1>3 DEF Client
<1>6. /\ d.conn_state = s /\ d.age = 0 /\ d.tcp_writable = tw /\ d.relink_count = rc
      /\ d.running = c.running /\ d.kcp = c.kcp /\ d.lost = c.lost
  BY <1>2 DEF Client
<1>7. /\ d.tcp_sock = c.tcp_sock /\ d.udp_sock = c.udp_sock
      /\ d.frames = c.frames /\ d.partial = c.partial
      /\ d.write_pending = c.write_pending
      /\ d.out = c.out
  BY <1>2 DEF Client
<1> QED
  BY <1>4, <1>5, <1>6, <1>7 DEF rc

\* In CS_INIT the socket is watched for writing and the count is kept.
LEMMA SetInitLemma ==
    ASSUME NEW c \in Client, NEW d, d = SetConnState(c, CS_INIT)
    PROVE  /\ d \in Client
           /\ d.conn_state = CS_INIT /\ d.tcp_writable
           /\ d.relink_count = c.relink_count
           /\ d.running = c.running /\ d.kcp = c.kcp /\ d.lost = c.lost
<1>1. CS_INIT \in ConnState /\ CS_INIT # CS_LOGIC_CONNECTED /\ 0 \in 0 .. AgeCap
  BY AgeCapAssumption DEF ConnState, CS_INIT, CS_LOGIC_CONNECTED
<1>2. d = [c EXCEPT !.conn_state = CS_INIT, !.age = 0, !.tcp_writable = TRUE,
                    !.relink_count = c.relink_count]
  BY <1>1 DEF SetConnState
<1>3. d \in Client
  BY <1>1, <1>2 DEF Client
<1> QED
  BY <1>2, <1>3 DEF Client

\* The fields InnerClose assigns, for any values of the right types.
LEMMA ClosedType ==
    ASSUME NEW s \in Client, NEW running, running \in BOOLEAN,
           NEW kcp, kcp \in {"null", "live"}, NEW out, out \in Seq(Callback)
    PROVE  [s EXCEPT !.running = running, !.kcp = kcp,
                     !.tcp_sock = "none", !.udp_sock = "none",
                     !.write_pending = FALSE, !.frames = 0, !.partial = FALSE,
                     !.out = out] \in Client
<1>1. 0 \in 0 .. MaxFrames
  BY BoundsAssumption
<1> QED
  BY <1>1 DEF Client

\* CloseWith leaves an empty object in CS_INIT, stopped if the reason is final.
LEMMA CloseWithLemma ==
    ASSUME NEW c \in Client, NEW r \in Reason, NEW cause \in Reason, NEW n \in Nat,
           NEW d, d = CloseWith(c, r, cause, n)
    PROVE  /\ d \in Client
           /\ d.conn_state = CS_INIT
           /\ Empty(d)
           /\ d.relink_count = c.relink_count
           /\ d.lost = c.lost
           /\ d.running <=> (c.running /\ ~ IsFinal(r))
           /\ d.kcp \in {"null", c.kcp} /\ (IsFinal(r) => d.kcp = "null")
<1> DEFINE told == [kind |-> "disconnect", arg |-> r, cause |-> cause]
           s == SetConnState(c, CS_INIT)
           running == s.running /\ ~ IsFinal(r)
           kcp == IF IsFinal(r) THEN "null" ELSE s.kcp
           out == IF r >= 0 THEN s.out \o [i \in 1 .. n |-> told] ELSE s.out
<1>1. told \in Callback
  BY DEF Callback
<1>2. [i \in 1 .. n |-> told] \in Seq(Callback)
  BY <1>1, CallbacksType
<1>3. d = [s EXCEPT !.running = running, !.kcp = kcp,
                    !.tcp_sock = "none", !.udp_sock = "none",
                    !.write_pending = FALSE, !.frames = 0, !.partial = FALSE,
                    !.out = out]
  BY DEF CloseWith
<1>4. /\ s \in Client
      /\ s.conn_state = CS_INIT /\ s.tcp_writable
      /\ s.relink_count = c.relink_count
      /\ s.running = c.running /\ s.kcp = c.kcp /\ s.lost = c.lost
  BY SetInitLemma
<1> HIDE DEF s
<1>5. s.out \in Seq(Callback) /\ s.running \in BOOLEAN /\ s.kcp \in {"null", "live"}
  BY <1>4 DEF Client
<1>6. s.out \o [i \in 1 .. n |-> told] \in Seq(Callback)
  BY <1>2, <1>5, ConcatProperties
<1>7. out \in Seq(Callback)
  BY <1>5, <1>6
<1>8. running \in BOOLEAN /\ kcp \in {"null", "live"}
  BY <1>5
<1> HIDE DEF out, running, kcp
<1>a. s \in Client
  BY <1>4
<1>b. d \in Client
  <2>1. [s EXCEPT !.running = running, !.kcp = kcp,
                  !.tcp_sock = "none", !.udp_sock = "none",
                  !.write_pending = FALSE, !.frames = 0, !.partial = FALSE,
                  !.out = out] \in Client
    BY <1>a, <1>7, <1>8, ClosedType, Zenon
  <2> QED
    BY <1>3, <2>1, Zenon
<1>c. /\ d.conn_state = s.conn_state
      /\ d.tcp_sock = "none" /\ d.udp_sock = "none"
      /\ d.write_pending = FALSE /\ d.frames = 0 /\ d.partial = FALSE
  BY <1>a, <1>3 DEF Client
<1>9. /\ d.tcp_writable = s.tcp_writable
      /\ d.relink_count = s.relink_count /\ d.lost = s.lost
      /\ d.running = running /\ d.kcp = kcp
  BY <1>a, <1>3 DEF Client
<1>10. d.running <=> (c.running /\ ~ IsFinal(r))
  BY <1>4, <1>9 DEF running
<1>11. d.kcp \in {"null", c.kcp} /\ (IsFinal(r) => d.kcp = "null")
  BY <1>4, <1>9 DEF kcp
<1>12. d.conn_state = CS_INIT /\ d.relink_count = c.relink_count /\ d.lost = c.lost
  BY <1>4, <1>9, <1>c
<1>13. Empty(d)
  BY <1>4, <1>9, <1>c DEF Empty
<1> QED
  BY <1>b, <1>10, <1>11, <1>12, <1>13

\* A reason is reported as not final only while the relink vector lasts (:445).
LEMMA ReportedLemma ==
    ASSUME NEW c \in Client, NEW r \in Reason, relink_vec \in Seq(Int)
    PROVE  /\ Reported(c, r) \in Reason
           /\ ~ IsFinal(Reported(c, r)) => c.relink_count < Len(relink_vec)
  BY DEF Reported, Reason, IsFinal, Client, USER_CLOSE, CLIENT_CONNECT_TIMEOUT,
         CLIENT_CONNECT_ERROR, CLIENT_CONNECT_TIMEOUT_CONTINUE

\* The bound on the failures of a flush is a number.
LEMMA MaxFailuresType ==
    ASSUME NEW c \in Client
    PROVE  MaxFailures(c) \in Nat
  BY BoundsAssumption DEF MaxFailures

\* The reasons the client passes to InnerClose are reasons.
LEMMA ReasonFacts ==
    /\ USER_CLOSE \in Reason /\ CLIENT_CONNECT_ERROR \in Reason
    /\ CLIENT_CONNECT_TIMEOUT \in Reason /\ CLIENT_CONNECT_TIMEOUT_CONTINUE \in Reason
    /\ ServerReason \subseteq Reason
    /\ CONTROL_SERVER_CLOSE \in Reason
  BY DEF USER_CLOSE, Reason, ServerReason, CLIENT_CONNECT_ERROR, CLIENT_CONNECT_TIMEOUT,
         CLIENT_CONNECT_TIMEOUT_CONTINUE, CONTROL_SERVER_CLOSE,
         CONTROL_OVERPASS_LIMIT_PKG_PER_SEC

\* Failed segments either were none or closed the connection.
LEMMA FailedSendsLemma ==
    ASSUME NEW c \in Client, relink_vec \in Seq(Int), NEW n \in Nat,
           NEW d, d = FailedSends(c, n)
    PROVE  d = c \/ Closes(c, d)
<1>1. CASE n = 0
  BY <1>1 DEF FailedSends
<1>2. CASE n # 0
  <2> DEFINE r == Reported(c, CLIENT_CONNECT_ERROR)
  <2>1. r \in Reason /\ (~ IsFinal(r) => c.relink_count < Len(relink_vec))
    BY ReasonFacts, ReportedLemma
  <2>2. d = CloseWith(c, r, CLIENT_CONNECT_ERROR, n)
    BY <1>2 DEF FailedSends
  <2> HIDE DEF r
  <2>3. /\ d \in Client /\ d.conn_state = CS_INIT /\ Empty(d)
        /\ d.relink_count = c.relink_count /\ d.lost = c.lost
        /\ d.running <=> (c.running /\ ~ IsFinal(r))
        /\ d.kcp \in {"null", c.kcp} /\ (IsFinal(r) => d.kcp = "null")
    <3>1. CLIENT_CONNECT_ERROR \in Reason
      BY ReasonFacts
    <3>2. r \in Reason
      BY <2>1
    <3> QED
      BY <2>2, <3>1, <3>2, CloseWithLemma
  <2>4. d.running => c.running /\ ~ IsFinal(r)
    BY <2>3
  <2>5. c.running /\ ~ d.running => IsFinal(r)
    BY <2>3
  <2> QED
    BY <2>1, <2>3, <2>4, <2>5 DEF Closes
<1> QED
  BY <1>1, <1>2

\* InnerClose closes, also when the flush inside it already did.
LEMMA InnerCloseLemma ==
    ASSUME NEW c \in Client, relink_vec \in Seq(Int), NEW reason \in Reason,
           NEW d \in InnerClose(c, reason)
    PROVE  Closes(c, d)
<1> DEFINE r == Reported(c, reason)
<1>1. r \in Reason /\ (~ IsFinal(r) => c.relink_count < Len(relink_vec))
  BY ReportedLemma
<1>2. PICK n \in Nat : \/ IsFinal(r) /\ d = CloseWith(FailedSends(c, n), r, reason, 1)
                       \/ ~ IsFinal(r) /\ d = CloseWith(c, r, reason, 1)
  BY MaxFailuresType DEF InnerClose
<1> HIDE DEF r
<1>3. CASE IsFinal(r)
  <2> DEFINE e == FailedSends(c, n)
  <2>1. e = c \/ Closes(c, e)
    BY FailedSendsLemma
  <2>2. e \in Client
    BY <2>1 DEF Closes
  <2>3. d = CloseWith(e, r, reason, 1)
    BY <1>2, <1>3
  <2> HIDE DEF e
  <2>4. /\ d \in Client /\ d.conn_state = CS_INIT /\ Empty(d)
        /\ d.relink_count = e.relink_count /\ d.lost = e.lost
        /\ d.running <=> (e.running /\ ~ IsFinal(r))
        /\ d.kcp = "null"
    BY <1>1, <1>3, <2>2, <2>3, CloseWithLemma
  <2>5. ~ d.running
    BY <1>3, <2>4
  <2> QED
    BY <2>1, <2>4, <2>5 DEF Closes
<1>4. CASE ~ IsFinal(r)
  <2>1. d = CloseWith(c, r, reason, 1)
    BY <1>2, <1>4
  <2>2. /\ d \in Client /\ d.conn_state = CS_INIT /\ Empty(d)
        /\ d.relink_count = c.relink_count /\ d.lost = c.lost
        /\ d.running <=> (c.running /\ ~ IsFinal(r))
        /\ d.kcp \in {"null", c.kcp}
    BY <1>1, <1>4, <2>1, CloseWithLemma
  <2>3. d.running <=> c.running
    BY <1>4, <2>2
  <2> QED
    BY <1>1, <1>4, <2>2, <2>3 DEF Closes
<1> QED
  BY <1>3, <1>4

\* Queueing a callback touches nothing else.
LEMMA EnqueueLemma ==
    ASSUME NEW c \in Client, NEW kind, NEW arg, NEW cause,
           [kind |-> kind, arg |-> arg, cause |-> cause] \in Callback
    PROVE  Keeps(c, Enqueue(c, kind, arg, cause))
<1>1. Append(c.out, [kind |-> kind, arg |-> arg, cause |-> cause]) \in Seq(Callback)
  BY DEF Client
<1> QED
  BY <1>1 DEF Enqueue, Keeps, Client

\* Keeps before Closes is Closes.
LEMMA KeepsThenCloses ==
    ASSUME NEW c \in Client, NEW e, NEW d, Keeps(c, e), Closes(e, d)
    PROVE  Closes(c, d)
  BY DEF Keeps, Closes

\* Sending the write stream (:788) closes the connection or keeps it.
LEMMA OnTcpWriteLemma ==
    ASSUME NEW c \in Client, relink_vec \in Seq(Int), NEW d \in OnTcpWrite(c)
    PROVE  \/ Closes(c, d)
           \/ Keeps(c, d)
<1>1. CASE d \in InnerClose(c, CLIENT_CONNECT_ERROR)
  BY <1>1, InnerCloseLemma, ReasonFacts
<1>2. CASE d = c
  BY <1>2 DEF Keeps
<1>3. CASE c.tcp_sock # "none" /\ d = [c EXCEPT !.write_pending = FALSE]
  BY <1>3 DEF Keeps, Client
<1>4. CASE c.tcp_sock # "none" /\ d = [c EXCEPT !.tcp_writable = TRUE]
  BY <1>4 DEF Keeps, Client
<1> QED
  BY <1>1, <1>2, <1>3, <1>4 DEF OnTcpWrite

\* SendTCPBuf (:495) closes the connection, or keeps it if there is one.
LEMMA SendTCPBufLemma ==
    ASSUME NEW c \in Client, relink_vec \in Seq(Int), NEW d \in SendTCPBuf(c)
    PROVE  \/ Closes(c, d)
           \/ c.tcp_sock # "none" /\ Keeps(c, d)
<1> DEFINE e == [c EXCEPT !.write_pending = TRUE]
<1>1. e \in Client /\ e.write_pending /\ e.tcp_sock = c.tcp_sock
  BY DEF Client
<1>2. d \in OnTcpWrite(e)
  BY DEF SendTCPBuf
<1>3. Closes(e, d) => Closes(c, d)
  BY DEF Closes, Client
<1>4. c.tcp_sock # "none" /\ Keeps(e, d) => Keeps(c, d)
  BY DEF Keeps, Client
<1>5. c.tcp_sock = "none" => d \in InnerClose(e, CLIENT_CONNECT_ERROR)
  BY <1>1, <1>2 DEF OnTcpWrite
<1> HIDE DEF e
<1> QED
  BY <1>1, <1>2, <1>3, <1>4, <1>5, OnTcpWriteLemma, InnerCloseLemma, ReasonFacts

\* The TCP ping (:812) closes the connection or keeps it.
LEMMA SendTcpPingLemma ==
    ASSUME NEW c \in Client, relink_vec \in Seq(Int), NEW now \in BOOLEAN,
           NEW expired \in BOOLEAN, NEW d \in SendTcpPing(c, now, expired)
    PROVE  Closes(c, d) \/ Keeps(c, d)
  BY SendTCPBufLemma DEF SendTcpPing, Keeps

\* Sending a datagram (:537) closes the connection or keeps it.
LEMMA UdpWriteLemma ==
    ASSUME NEW c \in Client, relink_vec \in Seq(Int), NEW d \in UdpWrite(c)
    PROVE  Closes(c, d) \/ Keeps(c, d)
  BY InnerCloseLemma, ReasonFacts DEF UdpWrite, Keeps

\* A flush of kcp closes the connection or keeps it; without kcp it does nothing.
LEMMA KcpFlushLemma ==
    ASSUME NEW c \in Client, relink_vec \in Seq(Int), NEW d \in KcpFlush(c)
    PROVE  /\ Closes(c, d) \/ Keeps(c, d)
           /\ c.kcp = "null" => d = c
<1>1. CASE c.kcp = "null"
  BY <1>1 DEF KcpFlush, Keeps
<1>2. CASE c.kcp # "null" /\ \E n \in 0 .. MaxFailures(c) : d = FailedSends(c, n)
  <2>1. Keeps(c, c)
    BY DEF Keeps
  <2> QED
    BY <1>2, <2>1, MaxFailuresType, FailedSendsLemma
<1>3. CASE /\ c.kcp # "null" /\ c.tcp_sock # "none"
           /\ d = [c EXCEPT !.write_pending = FALSE]
  BY <1>3 DEF Keeps, Client
<1>4. CASE /\ c.kcp # "null" /\ c.tcp_sock # "none"
           /\ d = [c EXCEPT !.write_pending = TRUE, !.tcp_writable = TRUE]
  BY <1>4 DEF Keeps, Client
<1> QED
  BY <1>1, <1>2, <1>3, <1>4 DEF KcpFlush

\* Handing a message to the script (:628) keeps the connection.
LEMMA OutputLemma ==
    ASSUME NEW c \in Client
    PROVE  Keeps(c, Output(c))
<1>1. [kind |-> "output", arg |-> 0, cause |-> 0] \in Callback
  BY DEF Callback
<1> QED
  BY <1>1, EnqueueLemma DEF Output

\* A segment for kcp (:877) closes the connection or keeps it.
LEMMA InputToKcpLemma ==
    ASSUME NEW c \in Client, relink_vec \in Seq(Int), NEW d \in InputToKcp(c)
    PROVE  Closes(c, d) \/ Keeps(c, d)
<1>1. CASE d \in InnerClose(c, CLIENT_CONNECT_ERROR)
  BY <1>1, InnerCloseLemma, ReasonFacts
<1>2. CASE \E e \in {c, Output(c)} : d \in {e} \cup InnerClose(e, CONTROL_SERVER_CLOSE)
                                              \cup InnerClose(e, CLIENT_CONNECT_ERROR)
  <2>1. PICK e \in {c, Output(c)} : \/ d = e
                                    \/ d \in InnerClose(e, CONTROL_SERVER_CLOSE)
                                    \/ d \in InnerClose(e, CLIENT_CONNECT_ERROR)
    BY <1>2
  <2>2. Keeps(c, e)
    BY OutputLemma DEF Keeps
  <2>3. e \in Client
    BY <2>2 DEF Keeps
  <2> QED
    BY <2>1, <2>2, <2>3, InnerCloseLemma, ReasonFacts, KeepsThenCloses
<1> QED
  BY <1>1, <1>2 DEF InputToKcp

\* d is c after an attempt to connect: under way, or failed and closed.
Connects(c, d) ==
    /\ d \in Client
    /\ \/ /\ d.conn_state = CS_CONNECTING
          /\ d.tcp_sock = "open" /\ d.udp_sock = "open"
          /\ d.running = c.running /\ d.kcp = c.kcp
       \/ /\ d.conn_state = CS_INIT
          /\ Empty(d)
          /\ d.running => c.running /\ d.relink_count < Len(relink_vec)
          /\ c.running /\ ~ d.running => d.kcp = "null"
          /\ c.kcp = "null" => d.kcp = "null"
    /\ c.tcp_sock = "none" /\ c.udp_sock = "none" => d.lost = c.lost

\* Keeps after Connects is Connects.
LEMMA ConnectsThenKeeps ==
    ASSUME NEW c, NEW d, NEW e, Connects(c, d), Keeps(d, e)
    PROVE  Connects(c, e)
  BY DEF Connects, Keeps, Empty

\* Keeps after Closes is Closes.
LEMMA ClosesThenKeeps ==
    ASSUME NEW c, NEW d, NEW e, Closes(c, d), Keeps(d, e)
    PROVE  Closes(c, e)
  BY DEF Closes, Keeps, Empty

\* A new timeout (:352) keeps the connection.
LEMMA WithTimeoutLemma ==
    ASSUME NEW c \in Client, NEW t \in Int, NEW d, d = WithTimeout(c, t)
    PROVE  Keeps(c, d)
<1>1. CASE d = c
  BY <1>1 DEF Keeps
<1>2. CASE \E u \in Nat : d = [c EXCEPT !.connect_timeout = u]
  BY <1>2 DEF Keeps, Client
<1> QED
  BY <1>1, <1>2, TimeoutCapAssumption DEF WithTimeout

\* InnerConnect (:351) leaves both sockets open, or none.
LEMMA InnerConnectLemma ==
    ASSUME NEW c \in Client, relink_vec \in Seq(Int), NEW t \in Int,
           NEW d \in InnerConnect(c, t)
    PROVE  Connects(c, d)
<1> DEFINE b == WithTimeout(c, t)
           lt == IF b.tcp_sock = "open" THEN b.lost + 1 ELSE b.lost
           n == NewSock(b)
           lu == IF n.udp_sock = "open" THEN n.lost + 1 ELSE n.lost
<1>1. Keeps(c, b)
  BY WithTimeoutLemma
<1>2. b \in Client /\ lt \in Nat /\ (b.tcp_sock = "none" => lt = b.lost)
  BY <1>1 DEF Keeps, Client
<1>3. n = [b EXCEPT !.tcp_sock = "open", !.lost = lt]
  BY DEF NewSock
<1>4. /\ n \in Client /\ n.tcp_sock = "open" /\ n.udp_sock = b.udp_sock /\ n.lost = lt
      /\ n.relink_count = b.relink_count /\ n.running = b.running /\ n.kcp = b.kcp
  <2> HIDE DEF b, lt, n
  <2> QED BY <1>2, <1>3 DEF Client
<1>5. lu \in Nat /\ (n.udp_sock = "none" => lu = n.lost)
  BY <1>4 DEF Client
<1>6. ASSUME NEW sock \in {"none", "open"}, NEW w, w = WithUdp(n, sock)
      PROVE  /\ w \in Client /\ w.tcp_sock = "open" /\ w.udp_sock = sock /\ w.lost = lu
             /\ w.relink_count = n.relink_count /\ w.running = n.running /\ w.kcp = n.kcp
  <2>1. w = [n EXCEPT !.udp_sock = sock, !.lost = lu]
    BY <1>6 DEF WithUdp
  <2> HIDE DEF n, lu
  <2> QED BY <1>4, <1>5, <2>1 DEF Client
<1>7. CASE d \in InnerClose(NoTcp(b), CLIENT_CONNECT_ERROR)
  <2> DEFINE e == NoTcp(b)
  <2>1. e = [b EXCEPT !.tcp_sock = "none", !.lost = lt]
    BY DEF NoTcp
  <2>2. /\ e \in Client /\ e.lost = lt
        /\ e.relink_count = b.relink_count /\ e.running = b.running /\ e.kcp = b.kcp
    <3> HIDE DEF b, lt, e
    <3> QED BY <1>2, <2>1 DEF Client
  <2>3. Closes(e, d)
    BY <1>7, <2>2, InnerCloseLemma, ReasonFacts
  <2> HIDE DEF e, b, lt
  <2> QED
    BY <1>1, <1>2, <2>2, <2>3 DEF Keeps, Closes, Connects
<1>8. CASE d \in InnerClose(WithUdp(n, "none"), CLIENT_CONNECT_ERROR)
  <2> DEFINE e == WithUdp(n, "none")
  <2>1. /\ e \in Client /\ e.lost = lu
        /\ e.relink_count = n.relink_count /\ e.running = n.running /\ e.kcp = n.kcp
    BY <1>6
  <2>2. Closes(e, d)
    BY <1>8, <2>1, InnerCloseLemma, ReasonFacts
  <2> HIDE DEF e, b, lt, n, lu
  <2> QED
    BY <1>1, <1>2, <1>4, <1>5, <2>1, <2>2 DEF Keeps, Closes, Connects
<1>9. CASE d = SetConnState(WithUdp(n, "open"), CS_CONNECTING)
  <2> DEFINE e == WithUdp(n, "open")
  <2>1. /\ e \in Client /\ e.tcp_sock = "open" /\ e.udp_sock = "open" /\ e.lost = lu
        /\ e.relink_count = n.relink_count /\ e.running = n.running /\ e.kcp = n.kcp
    BY <1>6
  <2> HIDE DEF e
  <2>2. CS_CONNECTING \in ConnState /\ CS_CONNECTING # CS_LOGIC_CONNECTED
    BY DEF ConnState, CS_INIT, CS_CONNECTING, CS_LOGIC_CONNECTED
  <2>3. d = SetConnState(e, CS_CONNECTING)
    BY <1>9 DEF e
  <2>4. /\ d \in Client /\ d.conn_state = CS_CONNECTING
        /\ d.tcp_sock = "open" /\ d.udp_sock = "open" /\ d.lost = lu
        /\ d.relink_count = n.relink_count /\ d.running = n.running /\ d.kcp = n.kcp
    BY <2>1, <2>2, <2>3, SetConnStateLemma
  <2> HIDE DEF b, lt, n, lu
  <2> QED
    BY <1>1, <1>2, <1>4, <1>5, <2>4 DEF Keeps, Connects
<1> QED
  BY <1>7, <1>8, <1>9 DEF InnerConnect

\* A timeout (:845) closes the connection, or nothing changes.
LEMMA CheckTimeoutLemma ==
    ASSUME NEW c \in Client, relink_vec \in Seq(Int), NEW d \in CheckTimeout(c)
    PROVE  d = c \/ (Closes(c, d) /\ c.conn_state # CS_INIT)
  BY InnerCloseLemma, ReasonFacts DEF CheckTimeout, CS_INIT

-----------------------------------------------------------------------------
(* The inductive invariant *)

\* Where the net thread is, and what it then holds.
AtStart ==
    /\ ~ Started => ~ m.running /\ m.conn_state = CS_INIT /\ m.kcp = "null"
    /\ pc = "start" => ConnectWaits
    /\ pc \in {"success", "reconnect"} => m.frames > 0

\* The only connect is served before anything else can happen.
FirstConnect ==
    /\ connects = 0 => pc = "none" /\ ~ ConnectWaits /\ (~ closed => in_queue = <<>>)
    /\ connects = 1 =>
          \A i \in 1 .. Len(in_queue) : in_queue[i].kind = "connect" =>
              /\ i = 1
              /\ pc \in {"start", "loop", "udp", "drain"}
              /\ m.conn_state = CS_INIT /\ m.kcp = "null"
              /\ Started => m.running
    /\ ~ closed => \A i \in 1 .. Len(in_queue) : in_queue[i].kind # "close"

IInv ==
    /\ TypeOK
    /\ SocketsMatchState
    /\ NoLimbo
    /\ AtStart
    /\ FirstConnect
    /\ StopIsClean
    /\ NoLostSocket

\* A step of the object inside a state of the connection.
Goes(c, d) ==
    /\ d \in Client
    /\ (d.conn_state = CS_INIT) <=> (c.conn_state = CS_INIT)
    /\ d.tcp_sock = c.tcp_sock /\ d.udp_sock = c.udp_sock
    /\ d.lost = c.lost
    /\ d.running = c.running
    /\ c.tcp_sock = "none" =>
          /\ d.write_pending = c.write_pending /\ d.tcp_writable = c.tcp_writable
          /\ d.frames = c.frames /\ d.partial = c.partial
          /\ d.relink_count = c.relink_count /\ d.kcp = c.kcp

\* What keeps the connection is a step inside a state of it.
LEMMA KeepsGoes ==
    ASSUME NEW c, NEW d, Keeps(c, d)
    PROVE  Goes(c, d)
  BY DEF Keeps, Goes

\* Dropping a frame (:782) keeps the connection.
LEMMA SkipLemma ==
    ASSUME NEW c \in Client, c.tcp_sock = "none" => c.frames = 0
    PROVE  Keeps(c, Skip(c))
<1> DEFINE f == IF c.frames = 0 THEN 0 ELSE c.frames - 1
<1>1. f \in 0 .. MaxFrames /\ (c.tcp_sock = "none" => f = c.frames)
  BY BoundsAssumption DEF Client
<1>2. Skip(c) = [c EXCEPT !.frames = f]
  BY DEF Skip
<1> HIDE DEF f
<1> QED
  BY <1>1, <1>2 DEF Keeps, Client

\* What the handling of a frame leaves, less that frame.
LEMMA SkippedLemma ==
    ASSUME m \in Client, SocketsMatchState, m.frames > 0, NEW e,
           Closes(m, e) \/ Goes(m, e), m' = Skip(e)
    PROVE  Closes(m, m') \/ Goes(m, m')
<1>1. CASE Closes(m, e)
  <2>1. e \in Client /\ e.frames = 0
    BY <1>1 DEF Closes, Empty
  <2> QED
    BY <1>1, <2>1, SkipLemma, ClosesThenKeeps
<1>2. CASE Goes(m, e)
  <2>1. e \in Client /\ e.tcp_sock = m.tcp_sock /\ m.tcp_sock # "none"
    BY <1>2 DEF Goes, SocketsMatchState
  <2>2. Keeps(e, m')
    BY <2>1, SkipLemma
  <2> QED
    BY <1>2, <2>1, <2>2 DEF Goes, Keeps
<1> QED
  BY <1>1, <1>2

\* The rest of the state when the object closes: nothing is expected of it but
\* that the only connect is not among the requests left.
LEMMA ClosesStep ==
    ASSUME IInv, Closes(m, m'), Started,
           pc' \in NetPc \ {"none", "start", "success", "reconnect"},
           in_queue' \in Seq(Request),
           connects = 1 => ~ ConnectWaits',
           ~ closed => \A i \in 1 .. Len(in_queue') : in_queue'[i].kind # "close",
           UNCHANGED main_vars
    PROVE  IInv'
<1>1. TypeOK'
  BY DEF IInv, TypeOK, Closes, main_vars
<1>2. SocketsMatchState'
  BY DEF SocketsMatchState, Closes, Empty
<1>3. NoLimbo'
  BY DEF NoLimbo, Closes, main_vars
<1>4. AtStart' /\ Started'
  BY DEF AtStart, Started
<1>5. connects # 0 /\ (connects <= 1 => m.lost = 0)
  BY DEF IInv, FirstConnect, Started, NoLostSocket
<1>6. FirstConnect'
  BY <1>5 DEF FirstConnect, ConnectWaits, main_vars
<1>7. NoLostSocket'
  BY <1>5 DEF NoLostSocket, Closes, main_vars
<1>8. StopIsClean'
  BY <1>5 DEF IInv, StopIsClean, Closes, main_vars
<1> QED
  BY <1>1, <1>2, <1>3, <1>4, <1>6, <1>7, <1>8 DEF IInv

\* The rest of the state when the object stays as it is, but for its buffers.
LEMMA GoesStep ==
    ASSUME IInv, Goes(m, m'),
           pc' = pc \/ (Started /\ pc' \in NetPc \ {"none", "start"}),
           pc' \in {"success", "reconnect"} => m'.frames > 0,
           in_queue' \in Seq(Request),
           ConnectWaits => ConnectWaits',
           connects = 1 => \/ ~ ConnectWaits'
                           \/ in_queue' = in_queue /\ (pc' = pc \/ pc' \in {"loop", "udp", "drain"}),
           connects = 0 => in_queue' = in_queue,
           ~ closed => \A i \in 1 .. Len(in_queue') : in_queue'[i].kind # "close",
           UNCHANGED <<relink_vec, connects, closed>>, updating' \in BOOLEAN
    PROVE  IInv'
<1>1. TypeOK'
  BY DEF IInv, TypeOK, Goes
<1>2. SocketsMatchState'
  BY DEF IInv, SocketsMatchState, Goes
<1>3. NoLimbo'
  BY DEF IInv, NoLimbo, SocketsMatchState, Goes
<1>a. m'.kcp = m.kcp \/ m'.conn_state # CS_INIT
  BY DEF IInv, SocketsMatchState, Goes
<1>4. AtStart'
  BY <1>a DEF IInv, AtStart, Started, Goes
<1>5. FirstConnect'
  <2>1. connects' = 0 => pc' = "none" /\ ~ ConnectWaits' /\ (~ closed' => in_queue' = <<>>)
    BY DEF IInv, FirstConnect, ConnectWaits, Started
  <2>2. ASSUME connects = 1, NEW i \in 1 .. Len(in_queue'), in_queue'[i].kind = "connect"
        PROVE  /\ i = 1 /\ pc' \in {"start", "loop", "udp", "drain"}
               /\ m'.conn_state = CS_INIT /\ m'.kcp = "null"
               /\ Started' => m'.running
    <3>1. ConnectWaits'
      BY <2>2 DEF ConnectWaits
    <3>2. in_queue' = in_queue /\ (pc' = pc \/ pc' \in {"loop", "udp", "drain"})
      BY <2>2, <3>1
    <3>3. /\ i = 1 /\ pc \in {"start", "loop", "udp", "drain"}
          /\ m.conn_state = CS_INIT /\ m.kcp = "null" /\ (Started => m.running)
      BY <2>2, <3>2 DEF IInv, FirstConnect
    <3> QED
      BY <1>a, <3>2, <3>3 DEF Goes, Started
  <2> QED
    BY <2>1, <2>2 DEF FirstConnect
<1>6. NoLostSocket'
  BY DEF IInv, NoLostSocket, Goes
<1>7. StopIsClean'
  BY <1>a DEF IInv, StopIsClean, AtStart, Started, Goes
<1> QED
  BY <1>1, <1>2, <1>3, <1>4, <1>5, <1>6, <1>7 DEF IInv

\* The rest of the state when a connect or a relink is tried from c, which is
\* the object with its relink_count perhaps raised.
LEMMA ConnectsStep ==
    ASSUME IInv, NEW c \in Client, Connects(c, m'),
           c.running = m.running, c.kcp = m.kcp, c.lost = m.lost,
           c.tcp_sock = m.tcp_sock, c.udp_sock = m.udp_sock,
           Started, pc' \in {"drain", "loop"},
           connects <= 1 => m.running /\ m.conn_state = CS_INIT,
           in_queue' \in Seq(Request),
           connects = 1 => ~ ConnectWaits',
           ~ closed => \A i \in 1 .. Len(in_queue') : in_queue'[i].kind # "close",
           UNCHANGED main_vars
    PROVE  IInv'
<1>1. TypeOK'
  BY DEF IInv, TypeOK, Connects, main_vars, NetPc
<1>2. SocketsMatchState'
  BY DEF SocketsMatchState, Connects, Empty, CS_INIT, CS_CONNECTING
<1>3. NoLimbo'
  BY DEF NoLimbo, Connects, main_vars, CS_INIT, CS_CONNECTING
<1>4. AtStart' /\ Started'
  BY DEF AtStart, Started
<1>5. connects # 0
  BY DEF IInv, FirstConnect, Started
<1>6. FirstConnect'
  BY <1>5 DEF FirstConnect, ConnectWaits, main_vars
<1>7. connects <= 1 => m'.lost = 0
  BY DEF IInv, NoLostSocket, SocketsMatchState, Connects
<1>8. NoLostSocket'
  BY <1>7 DEF NoLostSocket, main_vars
<1>9. StopIsClean'
  BY <1>7 DEF StopIsClean, Connects, main_vars
<1> QED
  BY <1>1, <1>2, <1>3, <1>4, <1>6, <1>8, <1>9 DEF IInv

\* The thread starts: only the flag and the count change (:261).
LEMMA NetStartStep == IInv /\ NetStart => IInv'
<1> SUFFICES ASSUME IInv, NetStart
             PROVE  IInv'
  OBVIOUS
<1> USE DEF NetStart, Goto
<1>1. m \in Client /\ m' = [m EXCEPT !.running = TRUE, !.relink_count = 0]
  BY DEF IInv, TypeOK
<1>a. ASSUME NEW c \in Client, NEW d, d = [c EXCEPT !.running = TRUE, !.relink_count = 0]
      PROVE  /\ d \in Client
             /\ d.running = TRUE /\ d.conn_state = c.conn_state /\ d.kcp = c.kcp
             /\ d.lost = c.lost
             /\ d.tcp_sock = c.tcp_sock /\ d.udp_sock = c.udp_sock
             /\ d.write_pending = c.write_pending /\ d.tcp_writable = c.tcp_writable
             /\ d.frames = c.frames /\ d.partial = c.partial
  BY <1>a DEF Client
<1>2. /\ m' \in Client
      /\ m'.running = TRUE /\ m'.conn_state = m.conn_state /\ m'.kcp = m.kcp
      /\ m'.lost = m.lost
      /\ m'.tcp_sock = m.tcp_sock /\ m'.udp_sock = m.udp_sock
      /\ m'.write_pending = m.write_pending /\ m'.tcp_writable = m.tcp_writable
      /\ m'.frames = m.frames /\ m'.partial = m.partial
  BY <1>1, <1>a
<1>3. TypeOK'
  BY <1>2 DEF IInv, TypeOK, main_vars, NetPc
<1>4. SocketsMatchState'
  BY <1>2 DEF IInv, SocketsMatchState
<1>5. ConnectWaits'
  BY DEF IInv, AtStart, ConnectWaits
<1>6. NoLimbo' /\ AtStart' /\ StopIsClean'
  BY <1>2, <1>5 DEF NoLimbo, AtStart, StopIsClean, Started
<1>7. FirstConnect'
  BY <1>2 DEF IInv, FirstConnect, ConnectWaits, main_vars
<1>8. NoLostSocket'
  BY <1>2 DEF IInv, NoLostSocket, main_vars
<1> QED
  BY <1>3, <1>4, <1>6, <1>7, <1>8 DEF IInv

\* Steps of the net thread that only look at the object.
LEMMA SameGoes == ASSUME m \in Client, m' = m PROVE Goes(m, m')
  BY DEF Goes

\* The parts of the invariant that most steps need, with nothing unfolded.
LEMMA QueueFacts ==
    ASSUME IInv
    PROVE  /\ in_queue \in Seq(Request) /\ m \in Client
           /\ relink_vec \in Seq(Int)
           /\ ~ closed => \A i \in 1 .. Len(in_queue) : in_queue[i].kind # "close"
           /\ connects = 0 => pc = "none"
           /\ connects \in Nat
           /\ connects = 1 /\ ConnectWaits =>
                 /\ pc \in {"start", "loop", "udp", "drain"}
                 /\ m.conn_state = CS_INIT /\ m.kcp = "null"
                 /\ m.tcp_sock = "none" /\ m.udp_sock = "none"
                 /\ Started => m.running
  BY DEF IInv, TypeOK, FirstConnect, ConnectWaits, SocketsMatchState

\* A handler that either closes or goes on, in a state where the only connect
\* cannot be waiting.
LEMMA HandlerStep ==
    ASSUME IInv, Closes(m, m') \/ Goes(m, m'),
           Started, pc' \in NetPc \ {"none", "start", "success", "reconnect"},
           connects = 1 => ~ ConnectWaits,
           UNCHANGED <<in_queue, main_vars>>
    PROVE  IInv'
<1>1. ~ (connects = 0)
  BY DEF IInv, FirstConnect, Started
<1>2. /\ in_queue' \in Seq(Request)
      /\ connects = 1 => ~ ConnectWaits'
      /\ ConnectWaits => ConnectWaits'
      /\ ~ closed => \A i \in 1 .. Len(in_queue') : in_queue'[i].kind # "close"
  BY QueueFacts DEF ConnectWaits
<1>3. updating' \in BOOLEAN
  BY DEF IInv, TypeOK, main_vars
<1>4. CASE Closes(m, m')
  BY <1>2, <1>4, ClosesStep
<1>5. CASE Goes(m, m')
  BY <1>1, <1>2, <1>3, <1>5, GoesStep DEF main_vars
<1> QED
  BY <1>4, <1>5

\* A step that only moves the net thread on.
LEMMA IdleStep ==
    ASSUME IInv, m' = m, Started, pc' \in {"udp", "drain"},
           UNCHANGED <<in_queue, main_vars>>
    PROVE  IInv'
<1>1. Goes(m, m')
  BY SameGoes, QueueFacts
<1>2. ~ (connects = 0) /\ updating' \in BOOLEAN
  BY DEF IInv, FirstConnect, Started, TypeOK, main_vars
<1>3. in_queue' \in Seq(Request) /\ (ConnectWaits => ConnectWaits')
      /\ (~ closed => \A i \in 1 .. Len(in_queue') : in_queue'[i].kind # "close")
  BY QueueFacts DEF ConnectWaits
<1> QED
  BY <1>1, <1>2, <1>3, GoesStep DEF main_vars, NetPc

\* The select phase keeps the invariant (:265-300).
LEMMA SelectStep == IInv /\ Select => IInv'
<1> SUFFICES ASSUME IInv, Select
             PROVE  IInv'
  OBVIOUS
<1> USE DEF Goto
<1>0. Started
  BY DEF Select, TcpIdle, TcpBytes, TcpBroken, TcpOverflow, TcpWritable, Started
<1>1. CASE TcpIdle
  BY <1>0, <1>1, IdleStep DEF TcpIdle
<1>2. m.tcp_sock # "none" => m.conn_state # CS_INIT /\ (connects = 1 => ~ ConnectWaits)
  BY QueueFacts DEF IInv, SocketsMatchState
<1>3. CASE TcpBytes
  <2>1. PICK k \in 0 .. MaxFrames, partial \in BOOLEAN :
           m' = [m EXCEPT !.frames = k, !.partial = partial]
    BY <1>3 DEF TcpBytes
  <2>2. m.tcp_sock # "none"
    BY <1>3 DEF TcpBytes
  <2>3. Goes(m, m')
    BY <2>1, <2>2, QueueFacts DEF Goes, Client
  <2> QED
    BY <1>0, <1>2, <1>3, <2>2, <2>3, HandlerStep DEF TcpBytes, NetPc
<1>4. CASE TcpBroken
  <2>1. Closes(m, m')
    BY <1>4, QueueFacts, InnerCloseLemma, ReasonFacts DEF TcpBroken
  <2> QED
    BY <1>0, <1>2, <1>4, <2>1, HandlerStep DEF TcpBroken, NetPc
<1>5. CASE TcpOverflow
  <2>1. PICK c \in InnerClose(m, CLIENT_CONNECT_ERROR) :
           m' \in InnerClose(c, CLIENT_CONNECT_ERROR)
    BY <1>5 DEF TcpOverflow
  <2>2. Closes(m, c)
    BY QueueFacts, InnerCloseLemma, ReasonFacts
  <2>3. c \in Client
    BY <2>2 DEF Closes
  <2>4. Closes(c, m')
    BY <2>1, <2>3, QueueFacts, InnerCloseLemma, ReasonFacts
  <2>5. Closes(m, m')
    BY <2>2, <2>4 DEF Closes
  <2> QED
    BY <1>0, <1>2, <1>5, <2>5, HandlerStep DEF TcpOverflow, NetPc
<1>6. CASE TcpWritable
  <2> DEFINE c == [m EXCEPT !.tcp_writable = FALSE]
  <2>1. m \in Client /\ c \in Client /\ m.tcp_sock # "none"
    BY <1>6, QueueFacts DEF TcpWritable, Client
  <2>2. Keeps(m, c)
    BY <2>1 DEF Keeps, Client
  <2>3. CASE m.conn_state = CS_CONNECTING
    <3>1. m' = SetConnState(c, CS_CONNECTED)
      BY <1>6, <2>3 DEF TcpWritable
    <3>2. CS_CONNECTED \in ConnState /\ CS_CONNECTED # CS_INIT /\ CS_CONNECTING # CS_INIT
      BY DEF ConnState, CS_INIT, CS_CONNECTING, CS_CONNECTED, CS_LOGIC_CONNECTED
    <3> HIDE DEF c
    <3>3. /\ m' \in Client /\ m'.conn_state = CS_CONNECTED
          /\ m'.running = c.running /\ m'.lost = c.lost
          /\ m'.tcp_sock = c.tcp_sock /\ m'.udp_sock = c.udp_sock
      BY <2>1, <3>1, <3>2, SetConnStateLemma
    <3>4. Goes(m, m')
      BY <2>1, <2>2, <2>3, <3>2, <3>3 DEF Goes, Keeps
    <3> QED
      BY <1>0, <1>2, <1>6, <2>1, <3>4, HandlerStep DEF TcpWritable, NetPc
  <2>4. CASE m.conn_state # CS_CONNECTING
    <3>1. m' \in OnTcpWrite(c)
      BY <1>6, <2>4 DEF TcpWritable
    <3> HIDE DEF c
    <3>2. Closes(c, m') \/ Keeps(c, m')
      BY <2>1, <3>1, QueueFacts, OnTcpWriteLemma
    <3>3. Closes(m, m') \/ Goes(m, m')
      BY <2>1, <2>2, <3>2, KeepsThenCloses DEF Keeps, Goes
    <3> QED
      BY <1>0, <1>2, <1>6, <2>1, <3>3, HandlerStep DEF TcpWritable, NetPc
  <2> QED
    BY <2>3, <2>4
<1> QED
  BY <1>1, <1>3, <1>4, <1>5, <1>6 DEF Select

\* Leaving the loop keeps the invariant.
LEMMA LoopEndStep == IInv /\ LoopEnd => IInv'
<1> SUFFICES ASSUME IInv, LoopEnd
             PROVE  IInv'
  OBVIOUS
<1>1. Started /\ m' = m /\ pc' = "done" /\ ~ m.running
  BY DEF LoopEnd, Goto, Started
<1>2. Goes(m, m')
  BY <1>1, SameGoes, QueueFacts
<1>3. connects = 1 => ~ ConnectWaits
  BY <1>1, QueueFacts
<1> QED
  BY <1>1, <1>2, <1>3, HandlerStep DEF LoopEnd, NetPc

\* A frame handled: its bytes belong to an open connection.
LEMMA FrameStep ==
    ASSUME IInv, m.frames > 0, NEW e, Closes(m, e) \/ Goes(m, e), m' = Skip(e),
           Started, pc' = "parse", UNCHANGED <<in_queue, main_vars>>
    PROVE  IInv'
<1>1. m \in Client /\ SocketsMatchState
  BY DEF IInv, TypeOK
<1>2. Closes(m, m') \/ Goes(m, m')
  BY <1>1, SkippedLemma
<1>3. m.conn_state # CS_INIT
  BY <1>1 DEF SocketsMatchState, Client
<1>4. connects = 1 => ~ ConnectWaits
  BY <1>3, QueueFacts
<1> QED
  BY <1>2, <1>4, HandlerStep DEF NetPc

\* A frame whose handler closes the connection or keeps it.
LEMMA ReadFrameStep ==
    ASSUME IInv, NEW outcomes, ReadFrame(outcomes),
           \A e \in outcomes : Closes(m, e) \/ Goes(m, e)
    PROVE  IInv'
<1>1. PICK e \in outcomes : m' = Skip(e)
  BY DEF ReadFrame
<1> QED
  BY <1>1, FrameStep DEF ReadFrame, Goto, Started

\* Every kind of frame keeps the invariant (:708-786).
LEMMA ReadStreamStep == IInv /\ ReadStream => IInv'
<1> SUFFICES ASSUME IInv, ReadStream
             PROVE  IInv'
  OBVIOUS
<1>0. m \in Client /\ relink_vec \in Seq(Int) /\ SocketsMatchState
  BY QueueFacts DEF IInv
<1>1. Goes(m, m)
  BY <1>0 DEF Goes
<1>2. \A r \in Reason : \A e \in InnerClose(m, r) : Closes(m, e)
  BY <1>0, InnerCloseLemma
<1>3. CASE ReadIgnored
  BY <1>1, <1>3, ReadFrameStep DEF ReadIgnored
<1>4. CASE ReadMalformed
  <2>1. \A e \in InnerClose(m, CLIENT_CONNECT_ERROR) \cup InnerClose(m, CONTROL_SERVER_CLOSE) :
           Closes(m, e) \/ Goes(m, e)
    BY <1>2, ReasonFacts
  <2> QED
    BY <1>4, <2>1, ReadFrameStep DEF ReadMalformed
<1>5. CASE ReadReliable
  <2>1. \A e \in InputToKcp(m) : Closes(m, e) \/ Goes(m, e)
    BY <1>0, InputToKcpLemma, KeepsGoes
  <2> QED
    BY <1>5, <2>1, ReadFrameStep DEF ReadReliable
<1>6. CASE ReadUnreliable
  <2>1. Goes(m, Output(m))
    BY <1>0, OutputLemma, KeepsGoes
  <2>2. \A e \in {Output(m)} : Closes(m, e) \/ Goes(m, e)
    BY <2>1
  <2> QED
    BY <1>6, <2>2, ReadFrameStep DEF ReadUnreliable
<1>7. ASSUME NEW udp \in UdpModes, ReadKcpInfo(udp)
      PROVE  IInv'
  <2> DEFINE outcomes == IF m.kcp = "null"
                         THEN {m, [m EXCEPT !.kcp = "live", !.enable_udp = udp]}
                         ELSE InnerClose(m, CLIENT_CONNECT_ERROR)
  <2>1. udp \in BOOLEAN
    BY UdpModesAssumption
  <2>2. m.frames > 0 /\ m.tcp_sock # "none"
    BY <1>0, <1>7 DEF ReadKcpInfo, ReadFrame, SocketsMatchState
  <2>3. Goes(m, [m EXCEPT !.kcp = "live", !.enable_udp = udp])
    BY <1>0, <2>1, <2>2 DEF Goes, Client
  <2>4. \A e \in outcomes : Closes(m, e) \/ Goes(m, e)
    BY <1>0, <1>2, <2>3, SameGoes, ReasonFacts DEF Goes
  <2>5. ReadFrame(outcomes)
    BY <1>7 DEF ReadKcpInfo
  <2> HIDE DEF outcomes
  <2> QED
    BY <2>4, <2>5, ReadFrameStep
<1>8. ASSUME NEW reason \in ServerReason, ReadDisconnect(reason)
      PROVE  IInv'
  <2> DEFINE outcomes == IF reason \in {CONTROL_SERVER_CLOSE, CONTROL_SERVER_FULL,
                                        CONTROL_FLOW_NOT_EXIST}
                         THEN InnerClose(m, reason)
                         ELSE {m}
  <2>1. \A e \in outcomes : Closes(m, e) \/ Goes(m, e)
    BY <1>1, <1>2, ReasonFacts
  <2>2. ReadFrame(outcomes)
    BY <1>8 DEF ReadDisconnect
  <2> HIDE DEF outcomes
  <2> QED
    BY <2>1, <2>2, ReadFrameStep
<1>9. CASE ReadSyncLabel
  <2> DEFINE c == SetConnState(m, CS_LOGIC_CONNECTED)
  <2>1. CS_LOGIC_CONNECTED \in ConnState /\ CS_LOGIC_CONNECTED # CS_INIT
    BY DEF ConnState, CS_INIT, CS_LOGIC_CONNECTED
  <2>2. /\ c \in Client /\ c.conn_state = CS_LOGIC_CONNECTED
        /\ c.running = m.running /\ c.lost = m.lost /\ c.frames = m.frames
        /\ c.tcp_sock = m.tcp_sock /\ c.udp_sock = m.udp_sock
    BY <1>0, <2>1, SetConnStateLemma
  <2>3. m.frames > 0 /\ m.tcp_sock # "none" /\ m.conn_state # CS_INIT
    BY <1>0, <1>9 DEF ReadSyncLabel, SocketsMatchState
  <2>4. m' = [c EXCEPT !.is_first_connect = FALSE]
    BY <1>9 DEF ReadSyncLabel
  <2> HIDE DEF c
  <2>5. Goes(m, m') /\ m'.frames = m.frames
    BY <2>1, <2>2, <2>3, <2>4 DEF Goes, Client
  <2>6. connects = 1 => ~ ConnectWaits
    BY <2>3, QueueFacts
  <2>7. Started /\ pc' \in {"success", "reconnect"}
    BY <1>9 DEF ReadSyncLabel, Goto, Started
  <2>8. /\ in_queue' \in Seq(Request)
        /\ ConnectWaits => ConnectWaits'
        /\ connects = 1 => ~ ConnectWaits'
        /\ in_queue' = in_queue
        /\ ~ closed => \A i \in 1 .. Len(in_queue') : in_queue'[i].kind # "close"
    BY <1>9, <2>6, QueueFacts DEF ReadSyncLabel, ConnectWaits
  <2>9. UNCHANGED <<relink_vec, connects, closed>> /\ updating' \in BOOLEAN
    BY <1>9 DEF ReadSyncLabel, IInv, TypeOK, main_vars
  <2> QED
    BY <2>3, <2>5, <2>7, <2>8, <2>9, GoesStep DEF NetPc
<1>10. ASSUME NEW kind \in {"success", "reconnect"}, TellConnected(kind)
       PROVE  IInv'
  <2>1. PICK c \in SendTcpPing(m, TRUE, FALSE) : m' = Skip(Enqueue(c, kind, 0, 0))
    BY <1>10 DEF TellConnected
  <2>2. pc = kind /\ pc' = "parse" /\ Started /\ m.frames > 0
    BY <1>10 DEF TellConnected, Goto, Started, IInv, AtStart
  <2>3. Closes(m, c) \/ Keeps(m, c)
    BY <1>0, <2>1, SendTcpPingLemma
  <2>4. c \in Client
    BY <2>3 DEF Closes, Keeps
  <2>5. [kind |-> kind, arg |-> 0, cause |-> 0] \in Callback
    BY DEF Callback
  <2>6. Keeps(c, Enqueue(c, kind, 0, 0))
    BY <2>4, <2>5, EnqueueLemma
  <2>7. Closes(m, Enqueue(c, kind, 0, 0)) \/ Goes(m, Enqueue(c, kind, 0, 0))
    BY <2>3, <2>6, ClosesThenKeeps DEF Keeps, Goes
  <2> QED
    BY <1>10, <2>1, <2>2, <2>7, FrameStep DEF TellConnected
<1>11. CASE ReadEnd
  BY <1>11, IdleStep DEF ReadEnd, Goto, Started
<1> QED
  BY <1>3, <1>4, <1>5, <1>6, <1>7, <1>8, <1>9, <1>10, <1>11
  DEF ReadStream, ConnectSuccess, ReConnectSuccess

\* Every kind of datagram keeps the invariant (:657-696).
LEMMA OnUdpReadStep == IInv /\ OnUdpRead => IInv'
<1> SUFFICES ASSUME IInv, OnUdpRead
             PROVE  IInv'
  OBVIOUS
<1>0. m \in Client /\ relink_vec \in Seq(Int)
  BY QueueFacts
<1>1. CASE UdpIdle
  BY <1>1, IdleStep DEF UdpIdle, Goto, Started
<1>2. ASSUME NEW outcomes, UdpRead(outcomes),
             \A e \in outcomes : Closes(m, e) \/ Keeps(m, e)
      PROVE  IInv'
  <2>1. Closes(m, m') \/ Goes(m, m')
    BY <1>2, KeepsGoes DEF UdpRead
  <2>2. connects = 1 => ~ ConnectWaits
    BY <1>2, QueueFacts DEF UdpRead
  <2> QED
    BY <1>2, <2>1, <2>2, HandlerStep DEF UdpRead, Goto, Started, NetPc
<1>3. CASE UdpUnreliable
  <2>1. \A e \in {Output(m)} : Closes(m, e) \/ Keeps(m, e)
    BY <1>0, OutputLemma
  <2> QED
    BY <1>2, <1>3, <2>1 DEF UdpUnreliable
<1>4. CASE UdpReliable
  <2>1. \A e \in InputToKcp(m) : Closes(m, e) \/ Keeps(m, e)
    BY <1>0, InputToKcpLemma
  <2> QED
    BY <1>2, <1>4, <2>1 DEF UdpReliable
<1>5. CASE UdpDisconnect
  <2>1. \A e \in InnerClose(m, CONTROL_SERVER_CLOSE) : Closes(m, e) \/ Keeps(m, e)
    BY <1>0, InnerCloseLemma, ReasonFacts
  <2> QED
    BY <1>2, <1>5, <2>1 DEF UdpDisconnect
<1>6. CASE UdpBroken
  <2>1. \A e \in InnerClose(m, CLIENT_CONNECT_ERROR) : Closes(m, e) \/ Keeps(m, e)
    BY <1>0, InnerCloseLemma, ReasonFacts
  <2> QED
    BY <1>2, <1>6, <2>1 DEF UdpBroken
<1> QED
  BY <1>1, <1>3, <1>4, <1>5, <1>6 DEF OnUdpRead

\* Taking the oldest request off the queue.
LEMMA PopLemma ==
    ASSUME IInv, in_queue # <<>>, in_queue' = Tail(in_queue), closed' = closed
    PROVE  /\ Head(in_queue) \in Request
           /\ in_queue' \in Seq(Request)
           /\ Head(in_queue).kind # "connect" => (ConnectWaits => ConnectWaits')
           /\ connects = 1 => ~ ConnectWaits'
           /\ Head(in_queue).kind = "connect" => ConnectWaits
           /\ ~ closed => \A i \in 1 .. Len(in_queue') : in_queue'[i].kind # "close"
<1>1. in_queue \in Seq(Request) /\ Len(in_queue) > 0
  BY QueueFacts
<1>2. /\ in_queue' \in Seq(Request)
      /\ Len(in_queue') = Len(in_queue) - 1
      /\ \A i \in 1 .. Len(in_queue') : in_queue'[i] = in_queue[i + 1]
      /\ Head(in_queue) = in_queue[1] /\ Head(in_queue) \in Request
  BY <1>1
<1>3. ASSUME Head(in_queue).kind # "connect", ConnectWaits
      PROVE  ConnectWaits'
  <2>1. PICK i \in 1 .. Len(in_queue) : in_queue[i].kind = "connect"
    BY <1>3 DEF ConnectWaits
  <2>2. i - 1 \in 1 .. Len(in_queue') /\ in_queue'[i - 1].kind = "connect"
    BY <1>1, <1>2, <1>3, <2>1
  <2> QED
    BY <2>2 DEF ConnectWaits
<1>4. ASSUME connects = 1, ConnectWaits'
      PROVE  FALSE
  <2>1. PICK i \in 1 .. Len(in_queue') : in_queue'[i].kind = "connect"
    BY <1>4 DEF ConnectWaits
  <2>2. i + 1 \in 1 .. Len(in_queue) /\ in_queue[i + 1].kind = "connect"
    BY <1>1, <1>2, <2>1
  <2>3. i + 1 = 1
    BY <1>4, <2>2 DEF IInv, FirstConnect
  <2> QED
    BY <2>1, <2>3
<1>5. Head(in_queue).kind = "connect" => ConnectWaits
  BY <1>1, <1>2 DEF ConnectWaits
<1>6. ASSUME ~ closed, NEW i \in 1 .. Len(in_queue')
      PROVE  in_queue'[i].kind # "close"
  <2>1. i + 1 \in 1 .. Len(in_queue)
    BY <1>1, <1>2
  <2> QED
    BY <1>2, <1>6, <2>1, QueueFacts
<1> QED
  BY <1>2, <1>3, <1>4, <1>5, <1>6

\* Every request keeps the invariant (:318-321).
LEMMA DrainStep == IInv /\ Drain => IInv'
<1> SUFFICES ASSUME IInv, Drain
             PROVE  IInv'
  OBVIOUS
<1>0. m \in Client /\ relink_vec \in Seq(Int)
  BY QueueFacts
<1>1. /\ in_queue # <<>> /\ in_queue' = Tail(in_queue)
      /\ pc = "drain" /\ pc' = "drain" /\ Started
      /\ UNCHANGED main_vars
  BY DEF Drain, RunConnect, RunSend, RunClose, RunRequest, Goto, Started
<1>2. closed' = closed
  BY <1>1 DEF main_vars
<1>3. connects # 0
  BY <1>1, QueueFacts
<1>4. CASE RunConnect
  <2>1. /\ Head(in_queue).kind = "connect"
        /\ m' \in InnerConnect(m, Head(in_queue).timeout)
    BY <1>4 DEF RunConnect, RunRequest
  <2>2. Head(in_queue).timeout \in Int
    BY <1>1, <1>2, <2>1, PopLemma, TimeoutsAssumption DEF Request
  <2>3. Connects(m, m')
    BY <1>0, <2>1, <2>2, InnerConnectLemma
  <2>4. connects <= 1 => m.running /\ m.conn_state = CS_INIT
    BY <1>1, <1>2, <1>3, <2>1, PopLemma, QueueFacts
  <2> QED
    BY <1>0, <1>1, <1>2, <2>3, <2>4, PopLemma, ConnectsStep
<1>5. CASE RunSend
  <2>1. /\ Head(in_queue).kind = "send"
        /\ m' \in SendKCPBuf(m)
    BY <1>5 DEF RunSend, RunRequest
  <2>2. Closes(m, m') \/ Goes(m, m')
    BY <1>0, <2>1, KcpFlushLemma, KeepsGoes, SameGoes DEF SendKCPBuf
  <2>3. CASE Closes(m, m')
    BY <1>1, <1>2, <2>3, PopLemma, ClosesStep DEF NetPc
  <2>4. CASE Goes(m, m')
    <3>1. updating' \in BOOLEAN
      BY <1>1 DEF IInv, TypeOK, main_vars
    <3> QED
      BY <1>1, <1>2, <1>3, <2>1, <2>4, <3>1, PopLemma, GoesStep DEF NetPc, main_vars
  <2> QED
    BY <2>2, <2>3, <2>4
<1>6. CASE RunClose
  <2>1. m' \in InnerClose(m, USER_CLOSE)
    BY <1>6 DEF RunClose, RunRequest
  <2>2. Closes(m, m')
    BY <1>0, <2>1, InnerCloseLemma, ReasonFacts
  <2> QED
    BY <1>1, <1>2, <2>2, PopLemma, ClosesStep DEF NetPc
<1> QED
  BY <1>4, <1>5, <1>6 DEF Drain

\* The tick of kcp keeps the invariant (:323).
LEMMA KcpTickStep == ASSUME IInv, NEW d \in 0 .. 1, KcpTick(d) PROVE IInv'
<1> DEFINE age == IF m.age + d < AgeCap THEN m.age + d ELSE AgeCap
           c == [m EXCEPT !.age = age]
<1>1. m \in Client /\ relink_vec \in Seq(Int)
  BY QueueFacts
<1>2. age \in 0 .. AgeCap
  BY <1>1, AgeCapAssumption DEF Client
<1>3. m' \in KcpFlush(c)
  BY DEF KcpTick
<1> HIDE DEF age
<1>4. c \in Client /\ Keeps(m, c)
  BY <1>1, <1>2 DEF Client, Keeps
<1> HIDE DEF c
<1>5. Closes(c, m') \/ Keeps(c, m')
  BY <1>1, <1>3, <1>4, KcpFlushLemma
<1>6. Closes(m, m') \/ Goes(m, m')
  BY <1>1, <1>4, <1>5, KeepsThenCloses DEF Keeps, Goes
<1>7. ~ ConnectWaits
  BY DEF KcpTick, ConnectWaits
<1> QED
  BY <1>6, <1>7, HandlerStep DEF KcpTick, Goto, Started, NetPc

\* The periodic work after the tick: no request can be the only connect then.
LEMMA PeriodicStep ==
    ASSUME IInv, pc \in {"tcp_ping", "udp_ping", "timeout"},
           pc' \in {"udp_ping", "timeout", "relink"},
           Closes(m, m') \/ Goes(m, m'), UNCHANGED <<in_queue, main_vars>>
    PROVE  IInv'
<1>1. connects = 1 => ~ ConnectWaits
  BY QueueFacts
<1> QED
  BY <1>1, HandlerStep DEF Started, NetPc

\* The TCP ping keeps the invariant (:324).
LEMMA TcpPingStep == ASSUME IInv, NEW e \in BOOLEAN, TcpPing(e) PROVE IInv'
<1>1. m \in Client /\ relink_vec \in Seq(Int)
  BY QueueFacts
<1>2. Closes(m, m') \/ Goes(m, m')
  BY <1>1, SendTcpPingLemma, KeepsGoes DEF TcpPing
<1> QED
  BY <1>2, PeriodicStep DEF TcpPing, Goto

\* The UDP ping keeps the invariant (:325).
LEMMA UdpPingStep == IInv /\ UdpPing => IInv'
<1> SUFFICES ASSUME IInv, UdpPing
             PROVE  IInv'
  OBVIOUS
<1>1. m \in Client /\ relink_vec \in Seq(Int)
  BY QueueFacts
<1>2. Closes(m, m') \/ Goes(m, m')
  BY <1>1, UdpWriteLemma, KeepsGoes, SameGoes DEF UdpPing, SendUdpPing
<1> QED
  BY <1>2, PeriodicStep DEF UdpPing, Goto

\* CheckTimeout keeps the invariant (:326).
LEMMA TimeoutStep == IInv /\ Timeout => IInv'
<1> SUFFICES ASSUME IInv, Timeout
             PROVE  IInv'
  OBVIOUS
<1>1. m \in Client /\ relink_vec \in Seq(Int)
  BY QueueFacts
<1>2. Closes(m, m') \/ Goes(m, m')
  BY <1>1, CheckTimeoutLemma, SameGoes DEF Timeout
<1> QED
  BY <1>2, PeriodicStep DEF Timeout, Goto

\* CheckRelink keeps the invariant (:327).
LEMMA RelinkStep == IInv /\ Relink => IInv'
<1> SUFFICES ASSUME IInv, Relink
             PROVE  IInv'
  OBVIOUS
<1>1. /\ m \in Client /\ relink_vec \in Seq(Int) /\ Len(relink_vec) <= MaxIntervals
      /\ pc = "relink" /\ pc' = "loop" /\ Started
      /\ UNCHANGED <<in_queue, main_vars>>
  BY DEF Relink, Goto, Started, IInv, TypeOK
<1>2. connects = 1 => ~ ConnectWaits
  BY <1>1, QueueFacts
<1>3. CASE RelinkDue(m)
  <2> DEFINE n == m.relink_count + 1
             c == [m EXCEPT !.relink_count = n]
  <2>1. PICK d \in InnerConnect(c, 0) : m' = Enqueue(d, "relink", 0, n)
    BY <1>3 DEF Relink, CheckRelink
  <2>2. n \in 1 .. MaxIntervals
    BY <1>1, <1>3, MaxIntervalsAssumption DEF RelinkDue, Client
  <2>3. n \in Nat
    BY <1>1 DEF Client
  <2> HIDE DEF n
  <2>4. /\ c \in Client /\ c.running = m.running /\ c.kcp = m.kcp /\ c.lost = m.lost
        /\ c.tcp_sock = m.tcp_sock /\ c.udp_sock = m.udp_sock
    BY <1>1, <2>3 DEF Client
  <2> HIDE DEF c
  <2>5. Connects(c, d)
    BY <1>1, <2>1, <2>4, InnerConnectLemma
  <2>6. d \in Client
    BY <2>5 DEF Connects
  <2>7. [kind |-> "relink", arg |-> 0, cause |-> n] \in Callback
    BY <2>2 DEF Callback
  <2>8. Connects(c, m')
    BY <2>1, <2>5, <2>6, <2>7, EnqueueLemma, ConnectsThenKeeps
  <2>9. connects <= 1 => m.running /\ m.conn_state = CS_INIT
    BY <1>3 DEF RelinkDue
  <2>10. /\ in_queue' \in Seq(Request)
         /\ connects = 1 => ~ ConnectWaits'
         /\ ~ closed => \A i \in 1 .. Len(in_queue') : in_queue'[i].kind # "close"
    BY <1>1, <1>2, QueueFacts DEF ConnectWaits
  <2> QED
    BY <1>1, <2>4, <2>8, <2>9, <2>10, ConnectsStep
<1>4. CASE ~ RelinkDue(m)
  <2>1. m' = m
    BY <1>4 DEF Relink, CheckRelink
  <2> QED
    BY <1>1, <1>2, <2>1, SameGoes, HandlerStep DEF NetPc
<1> QED
  BY <1>3, <1>4

\* Every step of the net thread keeps the invariant.
LEMMA NetThreadStep == IInv /\ NetThreadLoop => IInv'
  BY NetStartStep, LoopEndStep, SelectStep, ReadStreamStep, OnUdpReadStep, DrainStep,
     KcpTickStep, TcpPingStep, UdpPingStep, TimeoutStep, RelinkStep DEF NetThreadLoop

-----------------------------------------------------------------------------
(* The main thread *)

\* What appending a request leaves in the queue.
LEMMA AppendLemma ==
    ASSUME NEW q \in Seq(Request), NEW r \in Request
    PROVE  /\ Append(q, r) \in Seq(Request)
           /\ Len(Append(q, r)) = Len(q) + 1
           /\ Append(q, r)[Len(q) + 1] = r
           /\ \A i \in 1 .. Len(q) : Append(q, r)[i] = q[i]
  OBVIOUS

\* A connect of the script keeps the invariant (:339).
LEMMA ConnectStep == IInv /\ Connect => IInv'
<1> SUFFICES ASSUME IInv, Connect
             PROVE  IInv'
  OBVIOUS
<1>1. PICK t \in Timeouts : in_queue' = Append(in_queue, [kind |-> "connect", timeout |-> t])
  BY DEF Connect
<1> DEFINE r == [kind |-> "connect", timeout |-> t]
<1>2. r \in Request /\ r.kind = "connect"
  BY DEF Request
<1> HIDE DEF r
<1>3. /\ in_queue' \in Seq(Request)
      /\ Len(in_queue') = Len(in_queue) + 1
      /\ in_queue'[Len(in_queue) + 1] = r
      /\ \A i \in 1 .. Len(in_queue) : in_queue'[i] = in_queue[i]
      /\ Len(in_queue) \in Nat
  BY <1>1, <1>2, QueueFacts, AppendLemma DEF r
<1>4. ConnectWaits'
  BY <1>2, <1>3 DEF ConnectWaits
<1>5. /\ ~ closed /\ connects' = connects + 1 /\ m' = m
      /\ pc' = (IF pc = "none" THEN "start" ELSE pc)
      /\ UNCHANGED <<relink_vec, closed, updating>>
  BY DEF Connect, StartNetThreadLoop
<1>6. TypeOK'
  BY <1>3, <1>5 DEF IInv, TypeOK, NetPc
<1>7. SocketsMatchState'
  BY <1>5 DEF IInv, SocketsMatchState
<1>8. NoLimbo'
  BY <1>4 DEF NoLimbo
<1>9. AtStart'
  BY <1>4, <1>5 DEF IInv, AtStart, Started
<1>10. CASE connects = 0
  <2>1. in_queue = <<>> /\ pc = "none" /\ Len(in_queue) = 0 /\ pc' = "start" /\ connects' = 1
    BY <1>5, <1>10 DEF IInv, FirstConnect
  <2>2. m.conn_state = CS_INIT /\ m.kcp = "null" /\ m.lost = 0
    <3>1. connects <= 1
      BY <1>10
    <3>2. m.conn_state = CS_INIT /\ m.kcp = "null"
      BY <2>1 DEF IInv, AtStart, Started
    <3>3. m.lost = 0
      BY <3>1 DEF IInv, NoLostSocket
    <3> QED
      BY <3>2, <3>3
  <2>3. FirstConnect'
    BY <1>2, <1>3, <1>5, <2>1, <2>2 DEF FirstConnect, Started
  <2>4. StopIsClean' /\ NoLostSocket'
    BY <1>5, <2>1, <2>2 DEF StopIsClean, NoLostSocket, Started
  <2> QED
    BY <1>6, <1>7, <1>8, <1>9, <2>3, <2>4 DEF IInv
<1>11. CASE connects # 0
  <2>1. connects' > 1 /\ connects' \in Nat
    BY <1>5, <1>11, QueueFacts
  <2>2. FirstConnect'
    <3>1. ASSUME NEW i \in 1 .. Len(in_queue')
          PROVE  in_queue'[i].kind # "close"
      <4>1. \A j \in 1 .. Len(in_queue) : in_queue[j].kind # "close"
        BY <1>5, QueueFacts
      <4>2. i \in 1 .. Len(in_queue) \/ i = Len(in_queue) + 1
        BY <1>3
      <4> QED
        BY <1>2, <1>3, <4>1, <4>2
    <3> QED
      BY <2>1, <3>1 DEF FirstConnect
  <2>3. StopIsClean' /\ NoLostSocket'
    BY <2>1 DEF StopIsClean, NoLostSocket
  <2> QED
    BY <1>6, <1>7, <1>8, <1>9, <2>2, <2>3 DEF IInv
<1> QED
  BY <1>10, <1>11

\* A close of the script keeps the invariant (:438).
LEMMA CloseStep == IInv /\ Close => IInv'
<1> SUFFICES ASSUME IInv, Close
             PROVE  IInv'
  OBVIOUS
<1> DEFINE r == [kind |-> "close", timeout |-> 0]
<1>1. r \in Request /\ r.kind = "close"
  BY DEF Request
<1>2. in_queue' = Append(in_queue, r)
  BY DEF Close
<1> HIDE DEF r
<1>3. /\ in_queue' \in Seq(Request)
      /\ Len(in_queue') = Len(in_queue) + 1
      /\ in_queue'[Len(in_queue) + 1] = r
      /\ \A i \in 1 .. Len(in_queue) : in_queue'[i] = in_queue[i]
      /\ Len(in_queue) \in Nat
  BY <1>1, <1>2, QueueFacts, AppendLemma
<1>4. /\ closed' /\ m' = m /\ pc' = pc
      /\ UNCHANGED <<relink_vec, connects, updating>>
  BY DEF Close
<1>5. ConnectWaits' <=> ConnectWaits
  BY <1>1, <1>3 DEF ConnectWaits
<1>6. TypeOK'
  BY <1>3, <1>4 DEF IInv, TypeOK, Close
<1>7. SocketsMatchState' /\ NoLimbo' /\ AtStart' /\ StopIsClean' /\ NoLostSocket'
  BY <1>4, <1>5 DEF IInv, SocketsMatchState, NoLimbo, AtStart, StopIsClean, NoLostSocket, Started
<1>8. FirstConnect'
  <2>1. \A i \in 1 .. Len(in_queue') : in_queue'[i].kind = "connect" =>
           i \in 1 .. Len(in_queue) /\ in_queue[i].kind = "connect"
    BY <1>1, <1>3
  <2> QED
    BY <1>4, <1>5, <2>1 DEF IInv, FirstConnect, Started
<1> QED
  BY <1>6, <1>7, <1>8 DEF IInv

\* A send of the script keeps the invariant (:475).
LEMMA SendMsgStep == IInv /\ SendMsg => IInv'
<1> SUFFICES ASSUME IInv, SendMsg
             PROVE  IInv'
  OBVIOUS
<1> DEFINE r == [kind |-> "send", timeout |-> 0]
<1>1. r \in Request /\ r.kind = "send"
  BY DEF Request
<1>2. in_queue' = Append(in_queue, r) /\ m' = m /\ pc' = pc /\ UNCHANGED main_vars
  BY DEF SendMsg
<1>3. m.conn_state # CS_INIT
  BY QueueFacts DEF SendMsg, CS_INIT, CS_LOGIC_CONNECTED
<1> HIDE DEF r
<1>4. /\ in_queue' \in Seq(Request)
      /\ Len(in_queue') = Len(in_queue) + 1
      /\ in_queue'[Len(in_queue) + 1] = r
      /\ \A i \in 1 .. Len(in_queue) : in_queue'[i] = in_queue[i]
      /\ Len(in_queue) \in Nat
  BY <1>1, <1>2, QueueFacts, AppendLemma
<1>5. ConnectWaits' <=> ConnectWaits
  BY <1>1, <1>4 DEF ConnectWaits
<1>6. ~ closed => \A i \in 1 .. Len(in_queue') : in_queue'[i].kind # "close"
  BY <1>1, <1>4, QueueFacts
<1>7. connects # 0
  BY <1>3 DEF IInv, FirstConnect, AtStart, Started
<1>8. connects = 1 => ~ ConnectWaits'
  BY <1>3, <1>5, QueueFacts
<1>9. Goes(m, m')
  BY <1>2, SameGoes, QueueFacts
<1>10. updating' \in BOOLEAN /\ (pc' \in {"success", "reconnect"} => m'.frames > 0)
  BY <1>2 DEF IInv, TypeOK, AtStart, main_vars
<1> QED
  BY <1>2, <1>4, <1>5, <1>6, <1>7, <1>8, <1>9, <1>10, GoesStep DEF main_vars

\* Insertion into the relink vector makes it longer by one.
LEMMA InsertAtLemma ==
    ASSUME NEW v \in Seq(Int), NEW x \in Int, NEW i \in 1 .. Len(v) + 1
    PROVE  InsertAt(v, i, x) \in Seq(Int) /\ Len(InsertAt(v, i, x)) = Len(v) + 1
<1>1. /\ SubSeq(v, 1, i - 1) \in Seq(Int) /\ Len(SubSeq(v, 1, i - 1)) = i - 1
      /\ SubSeq(v, i, Len(v)) \in Seq(Int) /\ Len(SubSeq(v, i, Len(v))) = Len(v) - i + 1
      /\ <<x>> \in Seq(Int) /\ Len(<<x>>) = 1
  OBVIOUS
<1> DEFINE a == SubSeq(v, 1, i - 1)
           b == <<x>>
           c == SubSeq(v, i, Len(v))
<1>2. InsertAt(v, i, x) = (a \o b) \o c
  BY DEF InsertAt
<1>3. /\ a \in Seq(Int) /\ b \in Seq(Int) /\ c \in Seq(Int)
      /\ Len(a) = i - 1 /\ Len(b) = 1 /\ Len(c) = Len(v) - i + 1 /\ Len(v) \in Nat
  BY <1>1
<1> HIDE DEF a, b, c
<1>4. a \o b \in Seq(Int) /\ Len(a \o b) = i
  <2>1. a \o b \in Seq(Int) /\ Len(a \o b) = Len(a) + Len(b)
    BY <1>3, ConcatProperties
  <2> QED
    BY <1>3, <2>1
<1>5. (a \o b) \o c \in Seq(Int) /\ Len((a \o b) \o c) = Len(a \o b) + Len(c)
  BY <1>3, <1>4, ConcatProperties
<1> QED
  BY <1>2, <1>3, <1>4, <1>5

\* A longer relink vector keeps the invariant (:1033).
LEMMA AddRelinkIntervalStep == IInv /\ AddRelinkInterval => IInv'
<1> SUFFICES ASSUME IInv, AddRelinkInterval
             PROVE  IInv'
  OBVIOUS
<1> DEFINE v == IF relink_vec = <<>> THEN <<0>> ELSE relink_vec
<1>1. v \in Seq(Int) /\ Len(v) < MaxIntervals /\ Len(relink_vec) <= Len(v)
  BY QueueFacts DEF AddRelinkInterval
<1>2. PICK x \in Intervals, i \in 1 .. Len(v) + 1 : relink_vec' = InsertAt(v, i, x)
  BY DEF AddRelinkInterval
<1>3. UNCHANGED <<m, pc, in_queue, connects, closed, updating>>
  BY DEF AddRelinkInterval
<1> HIDE DEF v
<1>4. x \in Int /\ Len(v) \in Nat /\ Len(relink_vec) \in Nat
  BY <1>1, QueueFacts, IntervalsAssumption
<1>5. /\ relink_vec' \in Seq(Int) /\ Len(relink_vec') <= MaxIntervals
      /\ Len(relink_vec) < Len(relink_vec')
  BY <1>1, <1>2, <1>4, InsertAtLemma, MaxIntervalsAssumption
<1>6. TypeOK'
  BY <1>3, <1>5 DEF IInv, TypeOK
<1>7. NoLimbo'
  <2>1. m.relink_count \in Nat
    BY QueueFacts DEF Client
  <2> QED
    BY <1>3, <1>4, <1>5, <2>1 DEF IInv, NoLimbo, ConnectWaits
<1>8. SocketsMatchState' /\ AtStart' /\ StopIsClean' /\ NoLostSocket' /\ FirstConnect'
  BY <1>3 DEF IInv, SocketsMatchState, AtStart, StopIsClean, NoLostSocket, FirstConnect,
              Started, ConnectWaits
<1> QED
  BY <1>6, <1>7, <1>8 DEF IInv

\* Delivering callbacks keeps the invariant (:331).
LEMMA UpdateStep == IInv /\ Update => IInv'
<1> SUFFICES ASSUME IInv, Update
             PROVE  IInv'
  OBVIOUS
<1>0. m \in Client
  BY QueueFacts
<1>1. UNCHANGED <<pc, in_queue, relink_vec, connects, closed>> /\ updating' \in BOOLEAN
  BY DEF Update, UpdateBegin, UpdateDeliver, UpdateEnd, IInv, TypeOK
<1>2. Goes(m, m') /\ m'.frames = m.frames
  <2>1. CASE UpdateDeliver
    <3>1. Tail(m.out) \in Seq(Callback)
      BY <1>0, <2>1 DEF UpdateDeliver, Client
    <3>2. m' = [m EXCEPT !.out = Tail(m.out)]
      BY <2>1 DEF UpdateDeliver
    <3> QED
      BY <1>0, <3>1, <3>2 DEF Goes, Client
  <2>2. CASE m' = m
    BY <1>0, <2>2, SameGoes
  <2> QED
    BY <2>1, <2>2 DEF Update, UpdateBegin, UpdateEnd
<1>3. pc' \in {"success", "reconnect"} => m'.frames > 0
  BY <1>1, <1>2 DEF IInv, AtStart
<1>4. ConnectWaits' <=> ConnectWaits
  BY <1>1 DEF ConnectWaits
<1> QED
  BY <1>1, <1>2, <1>3, <1>4, QueueFacts, GoesStep
-----------------------------------------------------------------------------
(* The theorems *)

\* A new client satisfies the invariant.
LEMMA InitIInv == Init => IInv
<1> SUFFICES ASSUME Init
             PROVE  IInv
  OBVIOUS
<1>1. /\ m = NewClient /\ pc = "none" /\ in_queue = <<>> /\ relink_vec = <<>>
      /\ connects = 0 /\ closed = FALSE /\ updating = FALSE
  BY DEF Init
<1>2. NewClient \in Client
  <2>1. 0 \in 0 .. AgeCap /\ 0 \in 0 .. MaxFrames /\ DefaultTimeout \in Nat
    BY AgeCapAssumption, BoundsAssumption, DefaultTimeoutAssumption
  <2>2. CS_INIT \in ConnState /\ <<>> \in Seq(Callback)
    BY DEF CS_INIT, ConnState, CS_LOGIC_CONNECTED
  <2> QED
    BY <2>1, <2>2 DEF NewClient, Client
<1>3. /\ ~ m.running /\ m.conn_state = CS_INIT /\ Empty(m)
      /\ m.kcp = "null" /\ m.lost = 0 /\ m.frames = 0
  BY <1>1 DEF NewClient, Empty
<1>4. TypeOK
  <2>1. /\ in_queue \in Seq(Request) /\ relink_vec \in Seq(Int) /\ Len(relink_vec) = 0
        /\ connects \in Nat /\ closed \in BOOLEAN /\ updating \in BOOLEAN
    <3>1. <<>> \in Seq(Request) /\ <<>> \in Seq(Int) /\ Len(<<>>) = 0
      BY EmptySeq
    <3> QED
      BY <1>1, <3>1
  <2>2. pc \in NetPc /\ m \in Client
    BY <1>1, <1>2 DEF NetPc
  <2> QED
    BY <2>1, <2>2, MaxIntervalsAssumption DEF TypeOK
<1>5. SocketsMatchState /\ NoLimbo /\ StopIsClean /\ NoLostSocket
  BY <1>3 DEF Empty, SocketsMatchState, NoLimbo, StopIsClean, NoLostSocket
<1>6. AtStart
  BY <1>1, <1>3 DEF AtStart, Started
<1>7. FirstConnect
  BY <1>1 DEF FirstConnect, Started, ConnectWaits
<1> QED
  BY <1>4, <1>5, <1>6, <1>7 DEF IInv

\* Every step of the two threads keeps the invariant.
LEMMA NextIInv == IInv /\ [Next]_vars => IInv'
<1> SUFFICES ASSUME IInv, [Next]_vars
             PROVE  IInv'
  OBVIOUS
<1>1. CASE NetThreadLoop
  BY <1>1, NetThreadStep
<1>2. CASE MainThread
  BY <1>2, ConnectStep, CloseStep, SendMsgStep, AddRelinkIntervalStep, UpdateStep
     DEF MainThread
<1>3. CASE UNCHANGED vars
  BY <1>3 DEF vars, IInv, TypeOK, SocketsMatchState, NoLimbo, AtStart, FirstConnect,
              StopIsClean, NoLostSocket, Started, ConnectWaits
<1> QED
  BY <1>1, <1>2, <1>3 DEF Next

\* The inductive invariant holds of every state the two threads can reach.
THEOREM Invariant == Spec => []IInv
  BY InitIInv, NextIInv, PTL DEF Spec

\* No field, queue or counter ever leaves its type: in particular an age stays
\* under its cap and the relink vector under its size (conn_client.cpp:1033).
THEOREM TypeCorrect == Spec => []TypeOK
<1>1. IInv => TypeOK
  BY DEF IInv
<1> QED
  BY <1>1, Invariant, PTL

\* Sockets, state and buffers agree: a closed client holds no socket and no byte
\* of the old connection, an open one both sockets (InnerClose, InnerConnect).
THEOREM Sockets == Spec => []SocketsMatchState
<1>1. IInv => SocketsMatchState
  BY DEF IInv
<1> QED
  BY <1>1, Invariant, PTL

\* A running client without a connection always has an attempt ahead of it
\* (InnerClose and CheckRelink agree on when the relink vector is used up).
THEOREM Limbo == Spec => []NoLimbo
<1>1. IInv => NoLimbo
  BY DEF IInv
<1> QED
  BY <1>1, Invariant, PTL

\* A net loop that gave up left nothing open behind it.
THEOREM CleanStop == Spec => []StopIsClean
<1>1. IInv => StopIsClean
  BY DEF IInv
<1> QED
  BY <1>1, Invariant, PTL

\* With one connect, no relink ever overwrites an open descriptor.
THEOREM NoLost == Spec => []NoLostSocket
<1>1. IInv => NoLostSocket
  BY DEF IInv
<1> QED
  BY <1>1, Invariant, PTL

-----------------------------------------------------------------------------
(* What a handler says: how the queue of callbacks grows *)

\* Queue q is p with only disconnects added.
Goodbyes(p, q) ==
    /\ Len(p) <= Len(q)
    /\ \A i \in 1 .. Len(p) : q[i] = p[i]
    /\ \A i \in Len(p) + 1 .. Len(q) : q[i].kind = "disconnect"

\* Behind the first callback added to p there are disconnects, and one callback
\* of a relink or a connection at the end of q.
GoodbyesThenOne(p, q) ==
    \A i \in Len(p) + 2 .. Len(q) :
        \/ q[i].kind = "disconnect"
        \/ i = Len(q) /\ q[i].kind \in {"relink", "success", "reconnect"}

\* An object's queue is a sequence of callbacks.
LEMMA OutType ==
    ASSUME NEW c \in Client
    PROVE  c.out \in Seq(Callback) /\ Len(c.out) \in Nat
  BY DEF Client

\* Goodbyes after nothing, and after goodbyes, are goodbyes.
LEMMA GoodbyesTrans ==
    ASSUME NEW p \in Seq(Callback), NEW q \in Seq(Callback), NEW r \in Seq(Callback)
    PROVE  /\ Goodbyes(p, p)
           /\ Goodbyes(p, q) /\ Goodbyes(q, r) => Goodbyes(p, r)
<1>1. Goodbyes(p, p)
  BY DEF Goodbyes
<1>2. ASSUME Goodbyes(p, q), Goodbyes(q, r)
      PROVE  Goodbyes(p, r)
  <2>1. Len(p) \in Nat /\ Len(q) \in Nat /\ Len(r) \in Nat /\ Len(p) <= Len(q) /\ Len(q) <= Len(r)
    BY <1>2 DEF Goodbyes
  <2>2. \A i \in 1 .. Len(p) : r[i] = p[i]
    BY <1>2, <2>1 DEF Goodbyes
  <2>3. ASSUME NEW i \in Len(p) + 1 .. Len(r)
        PROVE  r[i].kind = "disconnect"
    <3>1. CASE i \in Len(p) + 1 .. Len(q)
      <4>1. r[i] = q[i] /\ q[i].kind = "disconnect"
        BY <1>2, <2>1, <3>1 DEF Goodbyes
      <4> QED BY <4>1
    <3>2. CASE i \in Len(q) + 1 .. Len(r)
      BY <1>2, <3>2 DEF Goodbyes
    <3> QED BY <2>1, <3>1, <3>2
  <2> QED
    BY <2>1, <2>2, <2>3 DEF Goodbyes
<1> QED
  BY <1>1, <1>2

\* Disconnects behind a queue are goodbyes.
LEMMA GoodbyesAdded ==
    ASSUME NEW p \in Seq(Callback), NEW w \in Seq(Callback),
           \A i \in 1 .. Len(w) : w[i].kind = "disconnect"
    PROVE  Goodbyes(p, p \o w)
<1> DEFINE q == p \o w
<1>1. /\ Len(q) = Len(p) + Len(w)
      /\ \A i \in 1 .. Len(p) + Len(w) :
            q[i] = IF i <= Len(p) THEN p[i] ELSE w[i - Len(p)]
  BY ConcatProperties
<1>2. Len(p) \in Nat /\ Len(w) \in Nat
  OBVIOUS
<1> HIDE DEF q
<1>3. ASSUME NEW i \in Len(p) + 1 .. Len(q)
      PROVE  q[i].kind = "disconnect"
  <2>1. i - Len(p) \in 1 .. Len(w) /\ q[i] = w[i - Len(p)]
    BY <1>1, <1>2
  <2> QED
    BY <2>1
<1>4. \A i \in 1 .. Len(p) : q[i] = p[i]
  BY <1>1, <1>2
<1>5. Goodbyes(p, q)
  BY <1>1, <1>2, <1>3, <1>4 DEF Goodbyes
<1> QED
  BY <1>5 DEF q

\* CloseWith adds n goodbyes, or none if the user closed (:455).
LEMMA CloseWithSays ==
    ASSUME NEW c \in Client, NEW r \in Reason, NEW cause \in Reason, NEW n \in Nat,
           NEW d, d = CloseWith(c, r, cause, n)
    PROVE  Goodbyes(c.out, d.out)
<1> DEFINE told == [kind |-> "disconnect", arg |-> r, cause |-> cause]
           s == SetConnState(c, CS_INIT)
           w == [i \in 1 .. n |-> told]
           out == IF r >= 0 THEN s.out \o w ELSE s.out
<1>1. told \in Callback /\ told.kind = "disconnect"
  BY DEF Callback
<1>2. w \in Seq(Callback) /\ Len(w) = n /\ \A i \in 1 .. n : w[i].kind = "disconnect"
  BY <1>1, CallbacksType
<1>3. s \in Client /\ s.out = c.out
  <2>1. CS_INIT \in ConnState
    BY DEF ConnState, CS_INIT, CS_LOGIC_CONNECTED
  <2> QED BY <2>1, SetConnStateLemma
<1>4. d.out = out
  <2>1. d = [s EXCEPT !.running = s.running /\ ~ IsFinal(r),
                      !.kcp = IF IsFinal(r) THEN "null" ELSE s.kcp,
                      !.tcp_sock = "none", !.udp_sock = "none",
                      !.write_pending = FALSE, !.frames = 0, !.partial = FALSE,
                      !.out = out]
    BY DEF CloseWith
  <2> HIDE DEF s, out
  <2> QED BY <1>3, <2>1 DEF Client
<1>5. CASE r >= 0
  <2>1. d.out = c.out \o w
    BY <1>3, <1>4, <1>5
  <2>2. c.out \in Seq(Callback) /\ Len(c.out) \in Nat
    BY OutType
  <2> HIDE DEF w
  <2> QED
    BY <1>2, <2>1, <2>2, GoodbyesAdded
<1>6. CASE ~ (r >= 0)
  BY <1>3, <1>4, <1>6, OutType DEF Goodbyes
<1> QED
  BY <1>5, <1>6

\* Failed segments say goodbye, each.
LEMMA FailedSendsSays ==
    ASSUME NEW c \in Client, relink_vec \in Seq(Int), NEW n \in Nat
    PROVE  Goodbyes(c.out, FailedSends(c, n).out)
<1>1. CASE n = 0
  BY <1>1, OutType, GoodbyesTrans DEF FailedSends
<1>2. CASE n # 0
  <2>1. CLIENT_CONNECT_ERROR \in Reason /\ Reported(c, CLIENT_CONNECT_ERROR) \in Reason
    BY ReasonFacts, ReportedLemma
  <2> QED
    BY <1>2, <2>1, CloseWithSays DEF FailedSends
<1> QED
  BY <1>1, <1>2

\* InnerClose says nothing but goodbyes, its flush included (:443-461).
LEMMA InnerCloseSays ==
    ASSUME NEW c \in Client, relink_vec \in Seq(Int), NEW reason \in Reason,
           NEW d \in InnerClose(c, reason)
    PROVE  Goodbyes(c.out, d.out)
<1> DEFINE r == Reported(c, reason)
<1>1. r \in Reason
  BY ReportedLemma
<1>2. PICK n \in Nat : \/ d = CloseWith(FailedSends(c, n), r, reason, 1)
                       \/ d = CloseWith(c, r, reason, 1)
  BY MaxFailuresType DEF InnerClose
<1> HIDE DEF r
<1>3. CASE d = CloseWith(c, r, reason, 1)
  BY <1>1, <1>3, CloseWithSays
<1>4. CASE d = CloseWith(FailedSends(c, n), r, reason, 1)
  <2> DEFINE e == FailedSends(c, n)
  <2>1. e \in Client
    BY FailedSendsLemma DEF Closes
  <2>2. Goodbyes(c.out, e.out)
    BY FailedSendsSays
  <2>3. d = CloseWith(e, r, reason, 1)
    BY <1>4
  <2> HIDE DEF e
  <2>4. Goodbyes(e.out, d.out) /\ d \in Client
    BY <1>1, <2>1, <2>3, CloseWithSays, CloseWithLemma
  <2> QED
    BY <2>1, <2>2, <2>4, OutType, GoodbyesTrans
<1> QED
  BY <1>2, <1>3, <1>4

\* Writing the stream says nothing or goodbye (:788).
LEMMA OnTcpWriteSays ==
    ASSUME NEW c \in Client, relink_vec \in Seq(Int), NEW d \in OnTcpWrite(c)
    PROVE  Goodbyes(c.out, d.out)
<1>1. CASE d \in InnerClose(c, CLIENT_CONNECT_ERROR)
  BY <1>1, InnerCloseSays, ReasonFacts
<1>2. CASE d \in {c, [c EXCEPT !.write_pending = FALSE], [c EXCEPT !.tcp_writable = TRUE]}
  <2>1. d.out = c.out
    BY <1>2 DEF Client
  <2> QED
    BY <2>1, OutType, GoodbyesTrans
<1> QED
  BY <1>1, <1>2 DEF OnTcpWrite

\* The pings say nothing or goodbye (:812).
LEMMA PingsSay ==
    ASSUME NEW c \in Client, relink_vec \in Seq(Int), NEW d,
           \/ \E now, expired \in BOOLEAN : d \in SendTcpPing(c, now, expired)
           \/ \E expired \in BOOLEAN : d \in SendUdpPing(c, expired)
    PROVE  Goodbyes(c.out, d.out)
<1> DEFINE e == [c EXCEPT !.write_pending = TRUE]
<1>1. e \in Client /\ e.out = c.out
  BY DEF Client
<1>2. CASE d \in OnTcpWrite(e)
  <2> HIDE DEF e
  <2> QED BY <1>1, <1>2, OnTcpWriteSays
<1>3. CASE d \in InnerClose(c, CLIENT_CONNECT_ERROR)
  BY <1>3, InnerCloseSays, ReasonFacts
<1>4. CASE d = c
  BY <1>4, OutType, GoodbyesTrans
<1> QED
  BY <1>2, <1>3, <1>4 DEF SendTcpPing, SendTCPBuf, SendUdpPing, UdpWrite

\* A flush of kcp says nothing or goodbye.
LEMMA KcpFlushSays ==
    ASSUME NEW c \in Client, relink_vec \in Seq(Int), NEW d \in KcpFlush(c)
    PROVE  Goodbyes(c.out, d.out)
<1>1. CASE \E n \in 0 .. MaxFailures(c) : d = FailedSends(c, n)
  BY <1>1, MaxFailuresType, FailedSendsSays
<1>2. CASE d \in {c, [c EXCEPT !.write_pending = FALSE],
                  [c EXCEPT !.write_pending = TRUE, !.tcp_writable = TRUE]}
  <2>1. d.out = c.out
    BY <1>2 DEF Client
  <2> QED
    BY <2>1, OutType, GoodbyesTrans
<1> QED
  BY <1>1, <1>2 DEF KcpFlush

\* An attempt to connect says nothing or goodbye (:351).
LEMMA InnerConnectSays ==
    ASSUME NEW c \in Client, relink_vec \in Seq(Int), NEW t \in Int,
           NEW d \in InnerConnect(c, t)
    PROVE  Goodbyes(c.out, d.out)
<1> DEFINE b == WithTimeout(c, t)
           lt == IF b.tcp_sock = "open" THEN b.lost + 1 ELSE b.lost
           n == NewSock(b)
           lu == IF n.udp_sock = "open" THEN n.lost + 1 ELSE n.lost
<1>1. b \in Client /\ b.out = c.out
  <2>1. b \in Client
    BY WithTimeoutLemma DEF Keeps
  <2>2. b.out = c.out
    BY TimeoutCapAssumption DEF WithTimeout, Client
  <2> QED BY <2>1, <2>2
<1>2. lt \in Nat
  BY <1>1 DEF Client
<1>3. n \in Client /\ n.out = c.out
  <2>1. n = [b EXCEPT !.tcp_sock = "open", !.lost = lt]
    BY DEF NewSock
  <2> HIDE DEF b, lt, n
  <2> QED BY <1>1, <1>2, <2>1 DEF Client
<1>4. lu \in Nat
  BY <1>3 DEF Client
<1>5. ASSUME NEW sock \in {"none", "open"}
      PROVE  WithUdp(n, sock) \in Client /\ WithUdp(n, sock).out = c.out
  <2>1. WithUdp(n, sock) = [n EXCEPT !.udp_sock = sock, !.lost = lu]
    BY DEF WithUdp
  <2> HIDE DEF n, lu
  <2> QED BY <1>3, <1>4, <2>1 DEF Client
<1>6. NoTcp(b) \in Client /\ NoTcp(b).out = c.out
  <2>1. NoTcp(b) = [b EXCEPT !.tcp_sock = "none", !.lost = lt]
    BY DEF NoTcp
  <2> HIDE DEF b, lt
  <2> QED BY <1>1, <1>2, <2>1 DEF Client
<1>7. PICK e \in Client : /\ e.out = c.out
                          /\ \/ d \in InnerClose(e, CLIENT_CONNECT_ERROR)
                             \/ d = SetConnState(e, CS_CONNECTING)
  BY <1>5, <1>6 DEF InnerConnect
<1>8. CS_CONNECTING \in ConnState
  BY DEF ConnState, CS_INIT, CS_CONNECTING, CS_LOGIC_CONNECTED
<1>9. CASE d \in InnerClose(e, CLIENT_CONNECT_ERROR)
  BY <1>7, <1>9, InnerCloseSays, ReasonFacts
<1>10. CASE d = SetConnState(e, CS_CONNECTING)
  <2>1. d.out = e.out
    BY <1>7, <1>8, <1>10, SetConnStateLemma
  <2> QED
    BY <1>7, <2>1, OutType, GoodbyesTrans
<1> QED
  BY <1>7, <1>9, <1>10

\* A timeout says nothing or goodbye (:845).
LEMMA CheckTimeoutSays ==
    ASSUME NEW c \in Client, relink_vec \in Seq(Int), NEW d \in CheckTimeout(c)
    PROVE  Goodbyes(c.out, d.out)
  BY InnerCloseSays, ReasonFacts, OutType, GoodbyesTrans DEF CheckTimeout

\* Goodbyes are a fitting end; so is one callback behind them, and goodbyes
\* behind the first callback, whatever it is.
LEMMA ThenOneLemma ==
    ASSUME NEW p \in Seq(Callback), NEW q \in Seq(Callback), NEW cb \in Callback
    PROVE  /\ Goodbyes(p, q) => GoodbyesThenOne(p, q)
           /\ /\ Goodbyes(p, q)
              /\ cb.kind \in {"relink", "success", "reconnect"}
              => GoodbyesThenOne(p, Append(q, cb))
           /\ Goodbyes(Append(p, cb), q) => GoodbyesThenOne(p, q)
<1>1. Len(p) \in Nat /\ Len(q) \in Nat
  OBVIOUS
<1>2. Goodbyes(p, q) => GoodbyesThenOne(p, q)
  BY <1>1 DEF Goodbyes, GoodbyesThenOne
<1>3. ASSUME Goodbyes(p, q), cb.kind \in {"relink", "success", "reconnect"}
      PROVE  GoodbyesThenOne(p, Append(q, cb))
  <2> DEFINE r == Append(q, cb)
  <2>1. /\ Len(r) = Len(q) + 1 /\ r[Len(q) + 1] = cb
        /\ \A i \in 1 .. Len(q) : r[i] = q[i]
    OBVIOUS
  <2> HIDE DEF r
  <2>2. ASSUME NEW i \in Len(p) + 2 .. Len(r)
        PROVE  \/ r[i].kind = "disconnect"
               \/ i = Len(r) /\ r[i].kind \in {"relink", "success", "reconnect"}
    <3>1. CASE i = Len(r)
      BY <1>3, <2>1, <3>1
    <3>2. CASE i # Len(r)
      <4>1. i \in Len(p) + 1 .. Len(q) /\ i \in 1 .. Len(q)
        BY <1>1, <2>1, <3>2
      <4>2. q[i].kind = "disconnect"
        BY <1>3, <4>1 DEF Goodbyes
      <4> QED
        BY <2>1, <4>1, <4>2
    <3> QED
      BY <3>1, <3>2
  <2>3. GoodbyesThenOne(p, r)
    BY <2>2, Zenon DEF GoodbyesThenOne
  <2> QED
    BY <2>3 DEF r
<1>4. ASSUME Goodbyes(Append(p, cb), q)
      PROVE  GoodbyesThenOne(p, q)
  <2>1. Len(Append(p, cb)) = Len(p) + 1
    OBVIOUS
  <2>2. \A i \in Len(p) + 2 .. Len(q) : q[i].kind = "disconnect"
    BY <1>1, <1>4, <2>1 DEF Goodbyes
  <2> QED
    BY <2>2 DEF GoodbyesThenOne
<1> QED
  BY <1>2, <1>3, <1>4

\* Dropping a frame says nothing.
LEMMA SkipSays == ASSUME NEW c \in Client PROVE Skip(c).out = c.out
  BY DEF Skip, Client

\* A message is one callback more.
LEMMA OutputSays ==
    ASSUME NEW c \in Client
    PROVE  \E cb \in Callback : Output(c).out = Append(c.out, cb)
<1> DEFINE cb == [kind |-> "output", arg |-> 0, cause |-> 0]
<1>1. cb \in Callback
  BY DEF Callback
<1>2. Output(c).out = Append(c.out, cb)
  BY DEF Output, Enqueue, Client
<1> QED
  BY <1>1, <1>2

\* A segment for kcp says its message first, and goodbye if it says that (:883).
LEMMA InputToKcpSays ==
    ASSUME NEW c \in Client, relink_vec \in Seq(Int), NEW d \in InputToKcp(c)
    PROVE  d \in Client /\ GoodbyesThenOne(c.out, d.out)
<1>1. d \in Client
  BY InputToKcpLemma DEF Closes, Keeps
<1>2. PICK e \in {c, Output(c)} : \/ d = e
                                  \/ d \in InnerClose(e, CONTROL_SERVER_CLOSE)
                                  \/ d \in InnerClose(e, CLIENT_CONNECT_ERROR)
  BY DEF InputToKcp
<1>3. e \in Client
  BY <1>2, OutputLemma DEF Keeps
<1>4. Goodbyes(e.out, d.out)
  <2>1. CASE d = e
    BY <1>3, <2>1, OutType, GoodbyesTrans
  <2> QED
    BY <1>2, <1>3, <2>1, InnerCloseSays, ReasonFacts
<1>5. PICK cb \in Callback : e.out = c.out \/ e.out = Append(c.out, cb)
  BY <1>2, OutputSays
<1>6. c.out \in Seq(Callback) /\ d.out \in Seq(Callback)
  BY <1>1, OutType
<1> QED
  BY <1>1, <1>4, <1>5, <1>6, ThenOneLemma

\* An object that says nothing new says it in a fitting order.
LEMMA SameSays ==
    ASSUME NEW c \in Client, NEW d, d.out = c.out
    PROVE  GoodbyesThenOne(c.out, d.out)
  BY OutType DEF GoodbyesThenOne

\* Goodbyes of one object after another with the same queue.
LEMMA GoodbyesFit ==
    ASSUME NEW c \in Client, NEW d \in Client, Goodbyes(c.out, d.out)
    PROVE  GoodbyesThenOne(c.out, d.out)
  BY OutType DEF Goodbyes, GoodbyesThenOne

\* What the handling of a frame says, dropping the frame included.
LEMMA ReadFrameSays ==
    ASSUME NEW outcomes, ReadFrame(outcomes),
           \A e \in outcomes : e \in Client /\ GoodbyesThenOne(m.out, e.out)
    PROVE  GoodbyesThenOne(m.out, m'.out)
<1>1. PICK e \in outcomes : m' = Skip(e)
  BY DEF ReadFrame
<1> QED
  BY <1>1, SkipSays

\* Every close says goodbye.
LEMMA CloseFits ==
    ASSUME m \in Client, relink_vec \in Seq(Int), NEW reason \in Reason,
           NEW d \in InnerClose(m, reason)
    PROVE  d \in Client /\ GoodbyesThenOne(m.out, d.out)
<1>1. d \in Client
  BY InnerCloseLemma DEF Closes
<1> QED
  BY <1>1, InnerCloseSays, GoodbyesFit

\* What select and the TCP socket bring (:300-317).
LEMMA SelectSays ==
    ASSUME m \in Client, relink_vec \in Seq(Int), Select
    PROVE  GoodbyesThenOne(m.out, m'.out)
<1>1. CASE TcpIdle \/ TcpBytes
  <2>1. CASE TcpIdle
    BY <2>1, SameSays DEF TcpIdle
  <2>2. CASE TcpBytes
    <3>1. PICK k \in 0 .. MaxFrames, partial \in BOOLEAN :
             m' = [m EXCEPT !.frames = k, !.partial = partial]
      BY <2>2 DEF TcpBytes
    <3>2. m'.out = m.out
      BY <3>1 DEF Client
    <3> QED
      BY <3>2, SameSays
  <2> QED
    BY <1>1, <2>1, <2>2
<1>2. CASE TcpBroken
  BY <1>2, CloseFits, ReasonFacts DEF TcpBroken
<1>3. CASE TcpOverflow
  <2>1. PICK c \in InnerClose(m, CLIENT_CONNECT_ERROR) : m' \in InnerClose(c, CLIENT_CONNECT_ERROR)
    BY <1>3 DEF TcpOverflow
  <2>2. c \in Client /\ m' \in Client
    BY <2>1, InnerCloseLemma, ReasonFacts DEF Closes
  <2>3. Goodbyes(m.out, c.out) /\ Goodbyes(c.out, m'.out)
    BY <2>1, <2>2, InnerCloseSays, ReasonFacts
  <2> QED
    BY <2>2, <2>3, OutType, GoodbyesTrans, GoodbyesFit
<1>4. CASE TcpWritable
  <2> DEFINE c == [m EXCEPT !.tcp_writable = FALSE]
  <2>1. c \in Client /\ c.out = m.out
    BY DEF Client
  <2>2. m' = SetConnState(c, CS_CONNECTED) \/ m' \in OnTcpWrite(c)
    BY <1>4 DEF TcpWritable
  <2> HIDE DEF c
  <2>3. CASE m' = SetConnState(c, CS_CONNECTED)
    <3>1. CS_CONNECTED \in ConnState
      BY DEF ConnState, CS_INIT, CS_CONNECTED, CS_LOGIC_CONNECTED
    <3>2. m'.out = m.out
      BY <2>1, <2>3, <3>1, SetConnStateLemma
    <3> QED
      BY <3>2, SameSays
  <2>4. CASE m' \in OnTcpWrite(c)
    <3>1. m' \in Client /\ Goodbyes(m.out, m'.out)
      BY <2>1, <2>4, OnTcpWriteLemma, OnTcpWriteSays DEF Closes, Keeps
    <3> QED
      BY <3>1, GoodbyesFit
  <2> QED
    BY <2>2, <2>3, <2>4
<1> QED
  BY <1>1, <1>2, <1>3, <1>4 DEF Select

\* What a frame brings: goodbyes, a message first, or a connection last (:602, :615).
LEMMA ReadStreamSays ==
    ASSUME m \in Client, relink_vec \in Seq(Int), ReadStream
    PROVE  GoodbyesThenOne(m.out, m'.out)
<1>1. GoodbyesThenOne(m.out, m.out)
  BY SameSays
<1>2. \A r \in Reason : \A e \in InnerClose(m, r) : e \in Client /\ GoodbyesThenOne(m.out, e.out)
  BY CloseFits
<1>3. CASE ReadIgnored
  BY <1>1, <1>3, ReadFrameSays DEF ReadIgnored
<1>4. CASE ReadMalformed
  <2>1. \A e \in InnerClose(m, CLIENT_CONNECT_ERROR) \cup InnerClose(m, CONTROL_SERVER_CLOSE) :
           e \in Client /\ GoodbyesThenOne(m.out, e.out)
    BY <1>2, ReasonFacts
  <2> QED
    BY <1>4, <2>1, ReadFrameSays DEF ReadMalformed
<1>5. CASE ReadReliable
  BY <1>5, InputToKcpSays, ReadFrameSays DEF ReadReliable
<1>6. CASE ReadUnreliable
  <2>1. \A e \in {Output(m)} : e \in Client /\ GoodbyesThenOne(m.out, e.out)
    <3>1. Output(m) \in Client
      BY OutputLemma DEF Keeps
    <3>2. PICK cb \in Callback : Output(m).out = Append(m.out, cb)
      BY OutputSays
    <3>3. Goodbyes(Append(m.out, cb), Output(m).out)
      BY <3>1, <3>2, OutType, GoodbyesTrans
    <3> QED
      BY <3>1, <3>2, <3>3, OutType, ThenOneLemma
  <2> QED
    BY <1>6, <2>1, ReadFrameSays DEF ReadUnreliable
<1>7. ASSUME NEW udp \in UdpModes, ReadKcpInfo(udp)
      PROVE  GoodbyesThenOne(m.out, m'.out)
  <2> DEFINE e == [m EXCEPT !.kcp = "live", !.enable_udp = udp]
             outcomes == IF m.kcp = "null" THEN {m, e}
                         ELSE InnerClose(m, CLIENT_CONNECT_ERROR)
  <2>1. e \in Client /\ e.out = m.out
    BY UdpModesAssumption DEF Client
  <2>2. ReadFrame(outcomes)
    BY <1>7 DEF ReadKcpInfo
  <2> HIDE DEF e
  <2>3. \A x \in outcomes : x \in Client /\ GoodbyesThenOne(m.out, x.out)
    BY <1>1, <1>2, <2>1, ReasonFacts
  <2> HIDE DEF outcomes
  <2> QED
    BY <2>2, <2>3, ReadFrameSays
<1>8. ASSUME NEW reason \in ServerReason, ReadDisconnect(reason)
      PROVE  GoodbyesThenOne(m.out, m'.out)
  <2> DEFINE outcomes == IF reason \in {CONTROL_SERVER_CLOSE, CONTROL_SERVER_FULL,
                                        CONTROL_FLOW_NOT_EXIST}
                         THEN InnerClose(m, reason)
                         ELSE {m}
  <2>1. ReadFrame(outcomes)
    BY <1>8 DEF ReadDisconnect
  <2>2. \A x \in outcomes : x \in Client /\ GoodbyesThenOne(m.out, x.out)
    BY <1>1, <1>2, ReasonFacts
  <2> HIDE DEF outcomes
  <2> QED
    BY <2>1, <2>2, ReadFrameSays
<1>9. CASE ReadSyncLabel
  <2> DEFINE c == SetConnState(m, CS_LOGIC_CONNECTED)
  <2>1. CS_LOGIC_CONNECTED \in ConnState
    BY DEF ConnState, CS_INIT, CS_LOGIC_CONNECTED
  <2>2. c \in Client /\ c.out = m.out
    BY <2>1, SetConnStateLemma
  <2>3. m' = [c EXCEPT !.is_first_connect = FALSE]
    BY <1>9 DEF ReadSyncLabel
  <2> HIDE DEF c
  <2>4. m'.out = m.out
    BY <2>2, <2>3 DEF Client
  <2> QED
    BY <2>4, SameSays
<1>10. ASSUME NEW kind \in {"success", "reconnect"}, TellConnected(kind)
       PROVE  GoodbyesThenOne(m.out, m'.out)
  <2> DEFINE cb == [kind |-> kind, arg |-> 0, cause |-> 0]
  <2>1. PICK c \in SendTcpPing(m, TRUE, FALSE) : m' = Skip(Enqueue(c, kind, 0, 0))
    BY <1>10 DEF TellConnected
  <2>2. c \in Client /\ Goodbyes(m.out, c.out)
    BY <2>1, SendTcpPingLemma, PingsSay DEF Closes, Keeps
  <2>3. cb \in Callback /\ cb.kind \in {"relink", "success", "reconnect"}
    BY DEF Callback
  <2>4. Enqueue(c, kind, 0, 0) \in Client
    BY <2>2, <2>3, EnqueueLemma DEF Keeps
  <2>5. Enqueue(c, kind, 0, 0).out = Append(c.out, cb)
    BY <2>2 DEF Enqueue, Client
  <2>6. m'.out = Append(c.out, cb)
    BY <2>1, <2>4, <2>5, SkipSays
  <2> HIDE DEF cb
  <2> QED
    BY <2>2, <2>3, <2>6, OutType, ThenOneLemma
<1>11. CASE ReadEnd
  BY <1>1, <1>11 DEF ReadEnd
<1> QED
  BY <1>3, <1>4, <1>5, <1>6, <1>7, <1>8, <1>9, <1>10, <1>11
  DEF ReadStream, ConnectSuccess, ReConnectSuccess

\* What a datagram brings (:657-696).
LEMMA OnUdpReadSays ==
    ASSUME m \in Client, relink_vec \in Seq(Int), OnUdpRead
    PROVE  GoodbyesThenOne(m.out, m'.out)
<1>1. CASE UdpIdle
  BY <1>1, SameSays DEF UdpIdle
<1>2. CASE UdpUnreliable
  <2>1. m' = Output(m)
    BY <1>2 DEF UdpUnreliable, UdpRead
  <2>2. m' \in Client
    BY <2>1, OutputLemma DEF Keeps
  <2>3. PICK cb \in Callback : m'.out = Append(m.out, cb)
    BY <2>1, OutputSays
  <2>4. Goodbyes(Append(m.out, cb), m'.out)
    BY <2>2, <2>3, OutType, GoodbyesTrans
  <2> QED
    BY <2>2, <2>4, OutType, ThenOneLemma
<1>3. CASE UdpReliable
  BY <1>3, InputToKcpSays DEF UdpReliable, UdpRead
<1>4. CASE UdpDisconnect
  BY <1>4, CloseFits, ReasonFacts DEF UdpDisconnect, UdpRead
<1>5. CASE UdpBroken
  BY <1>5, CloseFits, ReasonFacts DEF UdpBroken, UdpRead
<1> QED
  BY <1>1, <1>2, <1>3, <1>4, <1>5 DEF OnUdpRead

\* What a request brings (:319-321).
LEMMA DrainSays ==
    ASSUME IInv, Drain
    PROVE  GoodbyesThenOne(m.out, m'.out)
<1>0. m \in Client /\ relink_vec \in Seq(Int)
  BY QueueFacts
<1>1. CASE RunConnect
  <2>1. /\ in_queue # <<>> /\ in_queue \in Seq(Request) /\ Head(in_queue).kind = "connect"
        /\ m' \in InnerConnect(m, Head(in_queue).timeout)
    BY <1>1, QueueFacts DEF RunConnect, RunRequest
  <2>2. Head(in_queue) \in Request
    BY <2>1
  <2>3. Head(in_queue).timeout \in Int
    BY <2>1, <2>2, TimeoutsAssumption DEF Request
  <2>4. m' \in Client /\ Goodbyes(m.out, m'.out)
    BY <1>0, <2>1, <2>3, InnerConnectLemma, InnerConnectSays DEF Connects
  <2> QED
    BY <1>0, <2>4, GoodbyesFit
<1>2. CASE RunSend
  <2>1. m' = m \/ m' \in KcpFlush(m)
    BY <1>2 DEF RunSend, RunRequest, SendKCPBuf
  <2>2. CASE m' \in KcpFlush(m)
    BY <1>0, <2>2, KcpFlushLemma, KcpFlushSays, GoodbyesFit DEF Closes, Keeps
  <2> QED
    BY <1>0, <2>1, <2>2, SameSays
<1>3. CASE RunClose
  BY <1>0, <1>3, CloseFits, ReasonFacts DEF RunClose, RunRequest
<1> QED
  BY <1>1, <1>2, <1>3 DEF Drain

\* What the tick, the pings and CheckTimeout bring (:323-326).
LEMMA PeriodicSays ==
    ASSUME m \in Client, relink_vec \in Seq(Int),
           \/ \E d \in 0 .. 1 : KcpTick(d)
           \/ \E expired \in BOOLEAN : TcpPing(expired)
           \/ UdpPing \/ Timeout
    PROVE  GoodbyesThenOne(m.out, m'.out)
<1>1. ASSUME NEW d \in 0 .. 1, KcpTick(d)
      PROVE  GoodbyesThenOne(m.out, m'.out)
  <2> DEFINE age == IF m.age + d < AgeCap THEN m.age + d ELSE AgeCap
             c == [m EXCEPT !.age = age]
  <2>1. age \in 0 .. AgeCap
    BY AgeCapAssumption DEF Client
  <2>2. m' \in KcpFlush(c)
    BY <1>1 DEF KcpTick
  <2> HIDE DEF age
  <2>3. c \in Client /\ c.out = m.out
    BY <2>1 DEF Client
  <2> HIDE DEF c
  <2>4. m' \in Client /\ Goodbyes(m.out, m'.out)
    BY <2>2, <2>3, KcpFlushLemma, KcpFlushSays DEF Closes, Keeps
  <2> QED
    BY <2>4, GoodbyesFit
<1>2. CASE (\E expired \in BOOLEAN : TcpPing(expired)) \/ UdpPing
  <2>1. \/ \E expired \in BOOLEAN : m' \in SendTcpPing(m, FALSE, expired)
        \/ \E expired \in BOOLEAN : m' \in SendUdpPing(m, expired)
    BY <1>2 DEF TcpPing, UdpPing
  <2>2. m' \in Client
    BY <2>1, SendTcpPingLemma, UdpWriteLemma DEF SendUdpPing, Closes, Keeps
  <2>3. Goodbyes(m.out, m'.out)
    BY <2>1, PingsSay
  <2> QED
    BY <2>2, <2>3, GoodbyesFit
<1>3. CASE Timeout
  <2>1. m' \in CheckTimeout(m)
    BY <1>3 DEF Timeout
  <2>2. m' \in Client
    BY <2>1, CheckTimeoutLemma DEF Closes
  <2> QED
    BY <2>1, <2>2, CheckTimeoutSays, GoodbyesFit
<1> QED
  BY <1>1, <1>2, <1>3

\* CheckRelink says goodbye if the attempt fails, and then its relink (:865-872).
LEMMA RelinkSays ==
    ASSUME IInv, Relink
    PROVE  GoodbyesThenOne(m.out, m'.out)
<1>1. m \in Client /\ relink_vec \in Seq(Int) /\ Len(relink_vec) <= MaxIntervals
  BY DEF IInv, TypeOK
<1>2. CASE RelinkDue(m)
  <2> DEFINE n == m.relink_count + 1
             c == [m EXCEPT !.relink_count = n]
             cb == [kind |-> "relink", arg |-> 0, cause |-> n]
  <2>1. PICK d \in InnerConnect(c, 0) : m' = Enqueue(d, "relink", 0, n)
    BY <1>2 DEF Relink, CheckRelink
  <2>2. n \in 1 .. MaxIntervals
    BY <1>1, <1>2, MaxIntervalsAssumption DEF RelinkDue, Client
  <2>3. cb \in Callback /\ cb.kind \in {"relink", "success", "reconnect"}
    BY <2>2 DEF Callback
  <2>4. n \in Nat
    BY <1>1 DEF Client
  <2> HIDE DEF n
  <2>5. c \in Client /\ c.out = m.out
    BY <1>1, <2>4 DEF Client
  <2> HIDE DEF c
  <2>6. d \in Client /\ Goodbyes(m.out, d.out)
    BY <1>1, <2>1, <2>5, InnerConnectLemma, InnerConnectSays DEF Connects
  <2>7. m'.out = Append(d.out, cb)
    BY <2>1, <2>6 DEF Enqueue, Client
  <2> HIDE DEF cb
  <2> QED
    BY <1>1, <2>3, <2>6, <2>7, OutType, ThenOneLemma
<1>3. CASE ~ RelinkDue(m)
  <2>1. m'.out = m.out
    BY <1>3 DEF Relink, CheckRelink
  <2> QED
    BY <1>1, <2>1, SameSays
<1> QED
  BY <1>2, <1>3

\* What any step of the two threads brings.
LEMMA NextSays ==
    ASSUME IInv, Next
    PROVE  GoodbyesThenOne(m.out, m'.out)
<1>1. m \in Client /\ relink_vec \in Seq(Int)
  BY QueueFacts
<1>2. CASE NetStart \/ LoopEnd
  <2>1. m'.out = m.out
    BY <1>1, <1>2 DEF NetStart, LoopEnd, Client
  <2> QED
    BY <1>1, <2>1, SameSays
<1>3. CASE MainThread
  <2>1. CASE m' = m
    BY <1>1, <2>1, SameSays
  <2>2. CASE UpdateDeliver
    <3>1. m.out \in Seq(Callback) /\ m.out # <<>> /\ m'.out = Tail(m.out)
      BY <1>1, <2>2 DEF UpdateDeliver, Client
    <3>2. Len(m'.out) = Len(m.out) - 1 /\ Len(m.out) \in Nat
      BY <3>1
    <3> QED
      BY <3>2 DEF GoodbyesThenOne
  <2> QED
    BY <1>3, <2>1, <2>2
       DEF MainThread, Connect, Close, SendMsg, AddRelinkInterval, Update,
           UpdateBegin, UpdateEnd
<1> QED
  BY <1>1, <1>2, <1>3, SelectSays, ReadStreamSays, OnUdpReadSays, DrainSays,
     PeriodicSays, RelinkSays DEF Next, NetThreadLoop

\* What is left of a client whose net loop gave up before the script closed it.
LEMMA StoppedFacts ==
    ASSUME IInv, Started, ~ m.running, connects <= 1, ~ closed
    PROVE  /\ m \in Client /\ m.conn_state = CS_INIT /\ m.kcp = "null"
           /\ m.tcp_sock = "none" /\ m.udp_sock = "none" /\ m.frames = 0
           /\ pc \notin {"none", "start", "success", "reconnect"}
           /\ \A i \in 1 .. Len(in_queue) : in_queue[i].kind \notin {"connect", "close"}
<1>1. m.conn_state = CS_INIT /\ m.kcp = "null"
  BY DEF IInv, StopIsClean
<1>2. m.tcp_sock = "none" /\ m.udp_sock = "none" /\ m.frames = 0
  BY <1>1 DEF IInv, SocketsMatchState
<1>3. pc \notin {"none", "start", "success", "reconnect"}
  <2>1. ~ (m.frames > 0)
    BY <1>2
  <2> QED
    BY <2>1 DEF IInv, AtStart, Started
<1>4. connects = 1
  BY <1>3, QueueFacts DEF IInv, FirstConnect
<1>5. \A i \in 1 .. Len(in_queue) : in_queue[i].kind \notin {"connect", "close"}
  BY <1>4 DEF IInv, FirstConnect
<1> QED
  BY <1>1, <1>2, <1>3, <1>5, QueueFacts

\* A client whose net loop gave up before the script closed it says nothing more.
LEMMA StoppedSays ==
    ASSUME IInv, Next, Started, ~ m.running, connects <= 1, ~ closed
    PROVE  Len(m'.out) <= Len(m.out)
<1>1. /\ m \in Client /\ m.conn_state = CS_INIT /\ m.kcp = "null"
      /\ m.tcp_sock = "none" /\ m.udp_sock = "none" /\ m.frames = 0
      /\ pc \notin {"none", "start", "success", "reconnect"}
      /\ \A i \in 1 .. Len(in_queue) : in_queue[i].kind \notin {"connect", "close"}
  BY StoppedFacts
<1>2. in_queue \in Seq(Request) /\ Len(m.out) \in Nat /\ ~ m.running
  BY <1>1, QueueFacts DEF Client
<1>3. CASE m'.out = m.out
  BY <1>2, <1>3
<1>4. CASE NetStart \/ LoopEnd \/ Select
  BY <1>1, <1>2, <1>3, <1>4
     DEF NetStart, LoopEnd, Select, TcpIdle, TcpBytes, TcpBroken, TcpOverflow,
         TcpWritable, Goto
<1>5. CASE ReadStream
  <2>1. ~ (m.frames > 0)
    BY <1>1
  <2>2. ~ ReadIgnored /\ ~ ReadMalformed /\ ~ ReadReliable /\ ~ ReadUnreliable
    BY <2>1, Zenon DEF ReadIgnored, ReadMalformed, ReadReliable, ReadUnreliable, ReadFrame
  <2>3. \A udp : ~ ReadKcpInfo(udp)
    BY <2>1, Zenon DEF ReadKcpInfo, ReadFrame
  <2>4. \A reason : ~ ReadDisconnect(reason)
    BY <2>1, Zenon DEF ReadDisconnect, ReadFrame
  <2>5. ~ ReadSyncLabel /\ ~ ConnectSuccess /\ ~ ReConnectSuccess
    BY <1>1, <2>1 DEF ReadSyncLabel, ConnectSuccess, ReConnectSuccess, TellConnected, Goto
  <2>6. ReadEnd
    BY <1>5, <2>2, <2>3, <2>4, <2>5, Zenon DEF ReadStream
  <2> QED
    BY <1>3, <2>6 DEF ReadEnd
<1>6. CASE OnUdpRead
  BY <1>1, <1>3, <1>6
     DEF OnUdpRead, UdpIdle, UdpUnreliable, UdpReliable, UdpDisconnect, UdpBroken, UdpRead
<1>7. CASE Drain
  <2>1. in_queue # <<>> /\ Head(in_queue).kind \notin {"connect", "close"}
    BY <1>1, <1>2, <1>7 DEF Drain, RunConnect, RunSend, RunClose, RunRequest
  <2>2. m' \in SendKCPBuf(m)
    BY <1>7, <2>1 DEF Drain, RunConnect, RunSend, RunClose, RunRequest
  <2> QED
    BY <1>1, <1>3, <2>2 DEF SendKCPBuf, CS_INIT, CS_LOGIC_CONNECTED
<1>8. CASE \E d \in 0 .. 1 : KcpTick(d)
  <2>1. PICK d \in 0 .. 1 :
           m' \in KcpFlush([m EXCEPT !.age = IF @ + d < AgeCap THEN @ + d ELSE AgeCap])
    BY <1>8 DEF KcpTick
  <2> DEFINE age == IF m.age + d < AgeCap THEN m.age + d ELSE AgeCap
  <2>2. m' \in KcpFlush([m EXCEPT !.age = age])
    BY <2>1
  <2> HIDE DEF age
  <2> QED
    BY <1>1, <1>3, <2>2 DEF KcpFlush, Client
<1>9. CASE (\E expired \in BOOLEAN : TcpPing(expired)) \/ UdpPing \/ Timeout \/ Relink
  BY <1>1, <1>2, <1>3, <1>9
     DEF TcpPing, SendTcpPing, UdpPing, SendUdpPing, Timeout, CheckTimeout,
         Relink, CheckRelink, RelinkDue, CS_INIT, CS_CONNECTED
<1>10. CASE MainThread
  <2>1. CASE UpdateDeliver
    <3>1. m.out \in Seq(Callback) /\ m.out # <<>> /\ m'.out = Tail(m.out)
      BY <1>1, <2>1 DEF UpdateDeliver, Client
    <3> QED
      BY <3>1
  <2> QED
    BY <1>3, <1>10, <2>1
       DEF MainThread, Connect, Close, SendMsg, AddRelinkInterval, Update,
           UpdateBegin, UpdateEnd
<1> QED
  BY <1>4, <1>5, <1>6, <1>7, <1>8, <1>9, <1>10 DEF Next, NetThreadLoop

\* From the callback that says it is over on the script is told goodbyes and at
\* most one relink or connection, that of the handler that gave up, and never
\* anything of a later one: whatever the order of failures, and for any sizes.
THEOREM OverIsLast == Spec => LastWords
<1> DEFINE new == Len(m.out) + 1 .. Len(m'.out)
           Fits == /\ ~ m.running => new = {}
                   /\ \A i, j \in new :
                         i < j /\ Over(m'.out[i]) =>
                             \/ m'.out[j].kind = "disconnect"
                             \/ j = Len(m'.out) /\ m'.out[j].kind \in {"relink", "success", "reconnect"}
<1>1. ASSUME IInv, IInv', Next, Started, connects <= 1, ~ closed
      PROVE  Fits
  <2>1. Len(m.out) \in Nat /\ Len(m'.out) \in Nat
    BY <1>1, OutType DEF IInv, TypeOK
  <2>2. ~ m.running => new = {}
    BY <1>1, <2>1, StoppedSays
  <2>3. GoodbyesThenOne(m.out, m'.out)
    BY <1>1, NextSays
  <2>4. ASSUME NEW i \in new, NEW j \in new, i < j
        PROVE  \/ m'.out[j].kind = "disconnect"
               \/ j = Len(m'.out) /\ m'.out[j].kind \in {"relink", "success", "reconnect"}
    <3>1. j \in Len(m.out) + 2 .. Len(m'.out)
      BY <2>1, <2>4
    <3> QED
      BY <2>3, <3>1 DEF GoodbyesThenOne
  <2> HIDE DEF new
  <2> QED
    BY <2>2, <2>4
<1>2. IInv /\ IInv' /\ [Next]_vars => [Started /\ connects <= 1 /\ ~ closed => Fits]_vars
  BY <1>1
<1> QED
  BY <1>2, Invariant, PTL DEF Spec, LastWords
=============================================================================
