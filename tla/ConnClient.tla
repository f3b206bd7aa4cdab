----------------------------- MODULE ConnClient -----------------------------
(***************************************************************************)
(* One ConnClient object (conn_client.cpp) as the Lua binding uses it: the *)
(* main thread calls connect, send, add_relink_interval, close and, once a *)
(* frame, Update; the net thread runs NetThreadLoop.  The two threads talk *)
(* through in_queue_ (requests) and out_queue_ (callbacks).                *)
(*                                                                         *)
(* The object's fields that the net thread writes are one record, m (the   *)
(* name of the pointer to ConnClientPrivate).  A C++ method that changes   *)
(* the object is an operator from a record to the SET of records it may    *)
(* leave: the choice stands for the results of the system calls the method *)
(* makes.  A step of a thread is an action that picks one of them.         *)
(*                                                                         *)
(* Clocks are kept as ages: m.age is now_ms - conn_state_ts_, in units of  *)
(* the clock that are long enough to tell the timeouts apart.              *)
(***************************************************************************)
EXTENDS Integers, Sequences, FiniteSets

CONSTANTS
    Intervals,      \* values add_relink_interval may be given
    MaxIntervals,   \* size at which relink_interval_ms_vec_ stops growing (5)
    Timeouts,       \* values connect may be given as timeout_ms
    DefaultTimeout, \* initial connect_timeout_ms_ (3000)
    TimeoutCap,     \* largest timeout_ms that is honoured (10000)
    UdpModes,       \* values of enable_udp the server may announce
    AgeCap,         \* bound: an age saturates here
    MaxConnects,    \* bound: calls of connect
    MaxFrames,      \* bound: complete frames one recv may bring
    MaxBurst,       \* bound: segments of one flush that may fail to be sent
    MaxIn,          \* bound: requests waiting before send stops adding more
    MaxOut          \* bound: callbacks waiting before the world stops adding more

ASSUME IntervalsAssumption == Intervals \subseteq Int
ASSUME MaxIntervalsAssumption == MaxIntervals \in Nat \ {0}
ASSUME TimeoutsAssumption == Timeouts \subseteq Int
ASSUME DefaultTimeoutAssumption == DefaultTimeout \in Nat
ASSUME TimeoutCapAssumption == TimeoutCap \in Nat \ {0}
ASSUME UdpModesAssumption == UdpModes \subseteq BOOLEAN
ASSUME AgeCapAssumption == AgeCap \in Nat
ASSUME BoundsAssumption == 
    /\ MaxConnects \in Nat
    /\ MaxFrames \in Nat 
    /\ MaxBurst \in Nat
    /\ MaxIn \in Nat
    /\ MaxOut \in Nat

VARIABLES
    m,              \* the ConnClientPrivate object: what the net thread writes
    pc,             \* where the net thread is in NetThreadLoop
    in_queue,       \* requests of the main thread
    relink_vec,     \* relink_interval_ms_vec_
    connects,       \* calls of connect so far
    closed,         \* close was called: the client left g_connclients
    updating        \* the main thread is inside Update

vars == <<m, pc, in_queue, relink_vec, connects, closed, updating>>
main_vars == <<relink_vec, connects, closed, updating>>

-----------------------------------------------------------------------------
(* Constants of the program *)

CS_INIT == 0
CS_CONNECTING == 1
CS_CONNECTED == 2
CS_LOGIC_CONNECTED == 3
ConnState == CS_INIT .. CS_LOGIC_CONNECTED

CONTROL_SERVER_CLOSE == 0
CONTROL_SERVER_FULL == 1
CONTROL_FLOW_NOT_EXIST == 2
CONTROL_OVERPASS_LIMIT_PKG_PER_SEC == 3
CLIENT_CONNECT_TIMEOUT == 4
CLIENT_CONNECT_ERROR == 5
CLIENT_CONNECT_TIMEOUT_CONTINUE == 6
USER_CLOSE == -1        \* what Close passes to InnerClose: no callback
Reason == USER_CLOSE .. CLIENT_CONNECT_TIMEOUT_CONTINUE

ServerReason == CONTROL_SERVER_CLOSE .. CONTROL_OVERPASS_LIMIT_PKG_PER_SEC

\* A callback waiting in out_queue_.  "arg" is what was bound when it was
\* enqueued: the reason of a disconnect.  "cause" is a ghost: the argument of
\* the InnerClose that reports a disconnect, the attempt a relink announces.
Callback == [kind : {"disconnect"}, arg : Reason, cause : Reason]
            \cup [kind : {"relink"}, arg : {0}, cause : 1 .. MaxIntervals]
            \cup [kind : {"success", "reconnect", "output"}, arg : {0}, cause : {0}]

Request == [kind : {"connect"}, timeout : Timeouts]
           \cup [kind : {"send", "close"}, timeout : {0}]

Client == [running : BOOLEAN,
           conn_state : ConnState,
           age : 0 .. AgeCap,
           connect_timeout : Nat,
           tcp_sock : {"none", "open"}, \* "none" is the code's -1
           udp_sock : {"none", "open"},
           lost : Nat,                  \* ghost: open descriptors no field names
           tcp_writable : BOOLEAN,
           write_pending : BOOLEAN,     \* write_stream_ holds bytes
           frames : 0 .. MaxFrames,     \* complete frames in read_stream_
           partial : BOOLEAN,           \* and the beginning of another
           kcp : {"null", "live"},
           enable_udp : BOOLEAN,
           is_first_connect : BOOLEAN,
           relink_count : Nat,
           out : Seq(Callback)]

NetPc == {"none", "start", "loop", "parse", "success", "reconnect", "udp", "drain",
          "tick", "tcp_ping", "udp_ping", "timeout", "relink", "done"}

-----------------------------------------------------------------------------
(* Methods of ConnClientPrivate that run on the net thread *)

\* Mutant: a TCP connection, not the login, counts as success.
SetConnStateForgives(c, state) ==
    [c EXCEPT !.conn_state = state,
              !.age = 0,
              !.tcp_writable = IF state = CS_INIT THEN TRUE ELSE @,
              !.relink_count = IF state = CS_CONNECTED THEN 0 ELSE @]

SetConnState(c, state) ==
    [c EXCEPT !.conn_state = state,
              !.age = 0,
              !.tcp_writable = IF state = CS_INIT THEN TRUE ELSE @,
              !.relink_count = IF state = CS_LOGIC_CONNECTED THEN 0 ELSE @]

Enqueue(c, kind, arg, cause) ==
    [c EXCEPT !.out = Append(@, [kind |-> kind, arg |-> arg, cause |-> cause])]

\* Mutant: off by one, the vector counts as used up one attempt too late.
ReportedLate(c, reason) ==
    IF c.relink_count > Len(relink_vec) THEN CLIENT_CONNECT_TIMEOUT ELSE reason

\* A used up (or empty) relink vector turns every reason into a timeout.
Reported(c, reason) ==
    IF c.relink_count >= Len(relink_vec) THEN CLIENT_CONNECT_TIMEOUT ELSE reason

\* Mutants: a timeout is not final; the user's close, which has no reason, is not.
TimeoutNotFinal(reason) == reason < CLIENT_CONNECT_TIMEOUT
UserCloseNotFinal(reason) == reason \in CONTROL_SERVER_CLOSE .. CLIENT_CONNECT_TIMEOUT

IsFinal(reason) == reason < CLIENT_CONNECT_ERROR

\* Mutants: the read stream is not reset; kcp is not released.
CloseKeepsBytes(c, reason, cause, n) ==
    LET told == [kind |-> "disconnect", arg |-> reason, cause |-> cause]
    IN  [SetConnState(c, CS_INIT) EXCEPT
            !.running = @ /\ ~ IsFinal(reason),
            !.kcp = IF IsFinal(reason) THEN "null" ELSE @,
            !.tcp_sock = "none", !.udp_sock = "none", !.write_pending = FALSE,
            !.out = IF reason >= 0 THEN @ \o [i \in 1 .. n |-> told] ELSE @]
CloseKeepsKcp(c, reason, cause, n) ==
    LET told == [kind |-> "disconnect", arg |-> reason, cause |-> cause]
    IN  [SetConnState(c, CS_INIT) EXCEPT
            !.running = @ /\ ~ IsFinal(reason),
            !.tcp_sock = "none", !.udp_sock = "none", !.write_pending = FALSE,
            !.frames = 0, !.partial = FALSE,
            !.out = IF reason >= 0 THEN @ \o [i \in 1 .. n |-> told] ELSE @]

\* InnerClose below its flush, for the (already adjusted) reason; n of them in
\* a row differ from one only in the callbacks.
CloseWith(c, reason, cause, n) ==
    LET told == [kind |-> "disconnect", arg |-> reason, cause |-> cause]
    IN  [SetConnState(c, CS_INIT) EXCEPT
            !.running = @ /\ ~ IsFinal(reason),
            !.kcp = IF IsFinal(reason) THEN "null" ELSE @,
            !.tcp_sock = "none",
            !.udp_sock = "none",
            !.write_pending = FALSE,
            !.frames = 0,
            !.partial = FALSE,
            !.out = IF reason >= 0 THEN @ \o [i \in 1 .. n |-> told] ELSE @]

\* Segments of a flush whose sending fails call InnerClose(ERROR) from inside
\* the flush.  On TCP the closed socket makes the next one fail too; on UDP a
\* closed socket is noticed and nothing more is sent.
MaxFailures(c) ==
    IF c.kcp = "null" \/ Len(c.out) >= MaxOut THEN 0
    ELSE IF ~ c.enable_udp THEN MaxBurst
    ELSE IF c.udp_sock = "none" THEN 0 ELSE 1

FailedSends(c, n) ==
    IF n = 0 THEN c
    ELSE CloseWith(c, Reported(c, CLIENT_CONNECT_ERROR), CLIENT_CONNECT_ERROR, n)

InnerClose(c, reason) ==
    LET r == Reported(c, reason)
    IN  IF IsFinal(r)
        THEN {CloseWith(FailedSends(c, n), r, reason, 1) : n \in 0 .. MaxFailures(c)}
        ELSE {CloseWith(c, r, reason, 1)}

\* Mutant: after a partial write the socket is not watched again.
WriteNotResumed(c) ==
    IF ~ c.write_pending THEN {c}
    ELSE InnerClose(c, CLIENT_CONNECT_ERROR) \cup
         (IF c.tcp_sock = "none" THEN {} ELSE {[c EXCEPT !.write_pending = FALSE], c})

\* Sends write_stream_: nothing to send, all sent, not all sent, or an error.
OnTcpWrite(c) ==
    IF ~ c.write_pending THEN {c}
    ELSE InnerClose(c, CLIENT_CONNECT_ERROR) \cup
         (IF c.tcp_sock = "none" THEN {}
          ELSE {[c EXCEPT !.write_pending = FALSE], [c EXCEPT !.tcp_writable = TRUE]})

\* A stream that cannot grow closes the connection, as a failed write does.
SendTCPBuf(c) == OnTcpWrite([c EXCEPT !.write_pending = TRUE])

\* A short or failed datagram closes the connection.
UdpWrite(c) == {c} \cup InnerClose(c, CLIENT_CONNECT_ERROR)

\* A flush: no segment fails (there may have been none), or n of them do.
KcpFlush(c) ==
    IF c.kcp = "null" THEN {c}
    ELSE {FailedSends(c, n) : n \in 0 .. MaxFailures(c)} \cup
         (IF c.enable_udp \/ c.tcp_sock = "none" THEN {}
          ELSE {[c EXCEPT !.write_pending = FALSE],
                [c EXCEPT !.write_pending = TRUE, !.tcp_writable = TRUE]})

SendTcpPing(c, immediate, expired) ==
    IF c.conn_state >= CS_CONNECTED /\ (immediate \/ expired) THEN SendTCPBuf(c) ELSE {c}

SendUdpPing(c, expired) ==
    IF c.udp_sock # "none" /\ c.conn_state >= CS_CONNECTED /\ expired
    THEN UdpWrite(c) ELSE {c}

Output(c) == Enqueue(c, "output", 0, 0)

\* A segment for kcp: refused, or accepted and then any message it completes is
\* delivered, is the server's goodbye, or is too long to receive.
InputToKcp(c) ==
    IF c.kcp = "null" THEN InnerClose(c, CLIENT_CONNECT_ERROR)
    ELSE InnerClose(c, CLIENT_CONNECT_ERROR) \cup
         UNION {{d} \cup InnerClose(d, CONTROL_SERVER_CLOSE)
                    \cup InnerClose(d, CLIENT_CONNECT_ERROR) : d \in {c, Output(c)}}

\* CreateConnect overwrites the descriptor it is to hold.
NewSock(c) == [c EXCEPT !.tcp_sock = "open",
                        !.lost = IF c.tcp_sock = "open" THEN @ + 1 ELSE @]
NoTcp(c) == [c EXCEPT !.tcp_sock = "none",
                      !.lost = IF c.tcp_sock = "open" THEN @ + 1 ELSE @]
WithUdp(c, sock) == [c EXCEPT !.udp_sock = sock,
                              !.lost = IF c.udp_sock = "open" THEN @ + 1 ELSE @]

\* timeout 0 (a relink) or less keeps the timeout of the last connect.
WithTimeout(c, timeout) ==
    LET t == IF timeout > TimeoutCap THEN TimeoutCap ELSE timeout
    IN  IF t > 0 THEN [c EXCEPT !.connect_timeout = t] ELSE c

\* Mutant: a failure to set up the UDP socket leaves the TCP socket open.
InnerConnectNoCleanup(c0, timeout) ==
    LET c == WithTimeout(c0, timeout)
    IN  InnerClose(NoTcp(c), CLIENT_CONNECT_ERROR)
        \cup {WithUdp(NewSock(c), "none")}
        \cup {SetConnState(WithUdp(NewSock(c), "open"), CS_CONNECTING)}

InnerConnect(c0, timeout) ==
    LET c == WithTimeout(c0, timeout)
    IN  InnerClose(NoTcp(c), CLIENT_CONNECT_ERROR)
        \cup InnerClose(WithUdp(NewSock(c), "none"), CLIENT_CONNECT_ERROR)
        \cup {SetConnState(WithUdp(NewSock(c), "open"), CS_CONNECTING)}

\* Mutant: the wait for the login is not timed.
CheckTimeoutOfTcpOnly(c) ==
    IF c.conn_state = CS_CONNECTING /\ c.age > c.connect_timeout
    THEN InnerClose(c, IF c.relink_count < Len(relink_vec)
                       THEN CLIENT_CONNECT_TIMEOUT_CONTINUE
                       ELSE CLIENT_CONNECT_TIMEOUT)
    ELSE {c}

CheckTimeout(c) ==
    IF CS_INIT < c.conn_state /\ c.conn_state < CS_LOGIC_CONNECTED
       /\ c.age > c.connect_timeout
    THEN InnerClose(c, IF c.relink_count < Len(relink_vec)
                       THEN CLIENT_CONNECT_TIMEOUT_CONTINUE
                       ELSE CLIENT_CONNECT_TIMEOUT)
    ELSE {c}

\* Mutants: a relink does not ask for a closed connection, or for a running client.
RelinkWhileOpen(c) ==
    /\ c.running /\ c.relink_count < Len(relink_vec)
    /\ c.age > relink_vec[c.relink_count + 1]
RelinkWhenStopped(c) ==
    /\ c.relink_count < Len(relink_vec) /\ c.conn_state = CS_INIT
    /\ c.age > relink_vec[c.relink_count + 1]

RelinkDue(c) ==
    /\ c.running
    /\ c.relink_count < Len(relink_vec)
    /\ c.conn_state = CS_INIT
    /\ c.age > relink_vec[c.relink_count + 1]

CheckRelink(c) ==
    IF RelinkDue(c)
    THEN {Enqueue(d, "relink", 0, c.relink_count + 1) :
             d \in InnerConnect([c EXCEPT !.relink_count = @ + 1], 0)}
    ELSE {c}

SendKCPBuf(c) == IF c.conn_state < CS_LOGIC_CONNECTED THEN {c} ELSE KcpFlush(c)

-----------------------------------------------------------------------------
(* Initial state: a client just created *)

NewClient ==
    [running |-> FALSE, conn_state |-> CS_INIT, age |-> 0,
     connect_timeout |-> DefaultTimeout,
     tcp_sock |-> "none", udp_sock |-> "none", lost |-> 0,
     tcp_writable |-> TRUE, write_pending |-> FALSE, frames |-> 0, partial |-> FALSE,
     kcp |-> "null", enable_udp |-> FALSE, is_first_connect |-> TRUE,
     relink_count |-> 0, out |-> <<>>]

Init ==
    /\ m = NewClient
    /\ pc = "none"
    /\ in_queue = <<>>
    /\ relink_vec = <<>>
    /\ connects = 0
    /\ closed = FALSE
    /\ updating = FALSE

-----------------------------------------------------------------------------
(* The net thread: one iteration of NetThreadLoop is loop (select, TCP) ->  *)
(* [parse] -> udp -> drain -> tick -> tcp_ping -> udp_ping -> timeout ->     *)
(* relink -> loop                                                           *)

Goto(from, to) == pc = from /\ pc' = to

NetStart ==
    /\ Goto("start", "loop")
    /\ m' = [m EXCEPT !.running = TRUE, !.relink_count = 0]
    /\ UNCHANGED <<in_queue, main_vars>>

LoopEnd ==
    /\ ~ m.running
    /\ Goto("loop", "done")
    /\ UNCHANGED <<m, in_queue, main_vars>>

\* select: the TCP socket is not ready.
TcpIdle ==
    /\ m.running
    /\ Goto("loop", "udp")
    /\ UNCHANGED <<m, in_queue, main_vars>>

\* OnTcpRead brings bytes: k complete frames and perhaps part of another.
TcpBytes ==
    /\ m.running /\ m.tcp_sock # "none" /\ Len(m.out) < MaxOut
    /\ Goto("loop", "parse")
    /\ \E k \in 0 .. MaxFrames, partial \in BOOLEAN :
          /\ k > 0 \/ partial
          /\ m' = [m EXCEPT !.frames = k, !.partial = partial]
    /\ UNCHANGED <<in_queue, main_vars>>

\* recv fails or meets the end of the stream.
TcpBroken ==
    /\ m.running /\ m.tcp_sock # "none"
    /\ Goto("loop", "udp")
    /\ m' \in InnerClose(m, CLIENT_CONNECT_ERROR)
    /\ UNCHANGED <<in_queue, main_vars>>

\* No room for another recv: InnerClose, and again because recv then fails.
TcpOverflow ==
    /\ m.running /\ m.tcp_sock # "none" /\ m.partial
    /\ Goto("loop", "udp")
    /\ m' \in UNION {InnerClose(c, CLIENT_CONNECT_ERROR) :
                        c \in InnerClose(m, CLIENT_CONNECT_ERROR)}
    /\ UNCHANGED <<in_queue, main_vars>>

TcpWritable ==
    /\ m.running /\ m.tcp_sock # "none" /\ m.tcp_writable
    /\ Goto("loop", "udp")
    /\ LET c == [m EXCEPT !.tcp_writable = FALSE]
       IN  IF m.conn_state = CS_CONNECTING
           THEN m' = SetConnState(c, CS_CONNECTED)
           ELSE m' \in OnTcpWrite(c)
    /\ UNCHANGED <<in_queue, main_vars>>

-----------------------------------------------------------------------------
(* ReadStream: one action per kind of frame *)

\* Skip drops a frame; a stream that was reset meanwhile stays empty.
Skip(c) == [c EXCEPT !.frames = IF @ = 0 THEN 0 ELSE @ - 1]

\* The next frame leaves one of outcomes, and the loop goes on.
ReadFrame(outcomes) ==
    /\ m.frames > 0
    /\ Goto("parse", "parse")
    /\ m' \in {Skip(c) : c \in outcomes}
    /\ UNCHANGED <<in_queue, main_vars>>

\* A ping reply of the right length, or a command the client does not know.
ReadIgnored == ReadFrame({m})

\* A ping reply, a KCP_INFO or a goodbye of the wrong length.
ReadMalformed == ReadFrame(InnerClose(m, CLIENT_CONNECT_ERROR)
                           \cup InnerClose(m, CONTROL_SERVER_CLOSE))

ReadReliable == ReadFrame(InputToKcp(m))

ReadUnreliable == ReadFrame({Output(m)})

\* CreateKCP ends with an Update, whose flush has nothing to send yet; if there
\* is no memory for the session it is left as it was.
ReadKcpInfo(udp) ==
    ReadFrame(IF m.kcp = "null"
              THEN {m, [m EXCEPT !.kcp = "live", !.enable_udp = udp]}
              ELSE InnerClose(m, CLIENT_CONNECT_ERROR))

ReadDisconnect(reason) ==
    ReadFrame(IF reason \in {CONTROL_SERVER_CLOSE, CONTROL_SERVER_FULL,
                             CONTROL_FLOW_NOT_EXIST}
              THEN InnerClose(m, reason)
              ELSE {m})

\* The login is accepted: from here SendMsg takes messages.
ReadSyncLabel ==
    /\ m.frames > 0
    /\ Goto("parse", IF m.is_first_connect THEN "success" ELSE "reconnect")
    /\ m' = [SetConnState(m, CS_LOGIC_CONNECTED) EXCEPT !.is_first_connect = FALSE]
    /\ UNCHANGED <<in_queue, main_vars>>

\* The rest of ConnectSuccess and ReConnectSuccess: ping at once, then tell.
TellConnected(kind) ==
    /\ Goto(kind, "parse")
    /\ m' \in {Skip(Enqueue(c, kind, 0, 0)) : c \in SendTcpPing(m, TRUE, FALSE)}
    /\ UNCHANGED <<in_queue, main_vars>>

ConnectSuccess == TellConnected("success")
ReConnectSuccess == TellConnected("reconnect")

ReadEnd ==
    /\ m.frames = 0
    /\ Goto("parse", "udp")
    /\ UNCHANGED <<m, in_queue, main_vars>>

-----------------------------------------------------------------------------
(* OnUdpRead, the requests, and the periodic work *)

\* Nothing to read, or a route ping, or a datagram of another flow.
UdpIdle ==
    /\ Goto("udp", "drain")
    /\ UNCHANGED <<m, in_queue, main_vars>>

UdpRead(outcomes) ==
    /\ m.udp_sock # "none" /\ Len(m.out) < MaxOut
    /\ Goto("udp", "drain")
    /\ m' \in outcomes
    /\ UNCHANGED <<in_queue, main_vars>>

UdpUnreliable == UdpRead({Output(m)})
UdpReliable == UdpRead(InputToKcp(m))
UdpDisconnect == UdpRead(InnerClose(m, CONTROL_SERVER_CLOSE))
UdpBroken == UdpRead(InnerClose(m, CLIENT_CONNECT_ERROR))

\* The drain loop runs the oldest request.
RunRequest(kind, outcomes) ==
    /\ Goto("drain", "drain")
    /\ in_queue # <<>> /\ Head(in_queue).kind = kind
    /\ in_queue' = Tail(in_queue)
    /\ m' \in outcomes
    /\ UNCHANGED main_vars

RunConnect == RunRequest("connect", InnerConnect(m, Head(in_queue).timeout))
RunSend == RunRequest("send", SendKCPBuf(m))
RunClose == RunRequest("close", InnerClose(m, USER_CLOSE))

\* The queue is empty: take the time, d units after the last time, and run kcp.
KcpTick(d) ==
    /\ in_queue = <<>>
    /\ Goto("drain", "tcp_ping")
    /\ m' \in KcpFlush([m EXCEPT !.age = IF @ + d < AgeCap THEN @ + d ELSE AgeCap])
    /\ UNCHANGED <<in_queue, main_vars>>

TcpPing(expired) ==
    /\ Goto("tcp_ping", "udp_ping")
    /\ m' \in SendTcpPing(m, FALSE, expired)
    /\ UNCHANGED <<in_queue, main_vars>>

UdpPing ==
    /\ Goto("udp_ping", "timeout")
    /\ \E expired \in BOOLEAN : m' \in SendUdpPing(m, expired)
    /\ UNCHANGED <<in_queue, main_vars>>

Timeout ==
    /\ Goto("timeout", "relink")
    /\ m' \in CheckTimeout(m)
    /\ UNCHANGED <<in_queue, main_vars>>

Relink ==
    /\ Goto("relink", "loop")
    /\ m' \in CheckRelink(m)
    /\ UNCHANGED <<in_queue, main_vars>>

Select == TcpIdle \/ TcpBytes \/ TcpBroken \/ TcpOverflow \/ TcpWritable

ReadStream ==
    \/ ReadIgnored \/ ReadMalformed \/ ReadReliable \/ ReadUnreliable
    \/ \E udp \in UdpModes : ReadKcpInfo(udp)
    \/ \E reason \in ServerReason : ReadDisconnect(reason)
    \/ ReadSyncLabel \/ ConnectSuccess \/ ReConnectSuccess
    \/ ReadEnd

OnUdpRead == UdpIdle \/ UdpUnreliable \/ UdpReliable \/ UdpDisconnect \/ UdpBroken

Drain == RunConnect \/ RunSend \/ RunClose

NetThreadLoop ==
    \/ NetStart \/ LoopEnd
    \/ Select \/ ReadStream \/ OnUdpRead \/ Drain
    \/ \E d \in 0 .. 1 : KcpTick(d)
    \/ \E expired \in BOOLEAN : TcpPing(expired)
    \/ UdpPing \/ Timeout \/ Relink

-----------------------------------------------------------------------------
(* The main thread *)

StartNetThreadLoop == pc' = IF pc = "none" THEN "start" ELSE pc

Connect ==
    /\ ~ closed /\ connects < MaxConnects
    /\ connects' = connects + 1
    /\ \E t \in Timeouts :
          in_queue' = Append(in_queue, [kind |-> "connect", timeout |-> t])
    /\ StartNetThreadLoop
    /\ UNCHANGED <<m, relink_vec, closed, updating>>

\* lua_connclient_close: Close, then RemoveConnection.
Close ==
    /\ ~ closed
    /\ closed' = TRUE
    /\ in_queue' = Append(in_queue, [kind |-> "close", timeout |-> 0])
    /\ UNCHANGED <<m, pc, relink_vec, connects, updating>>

SendMsg ==
    /\ ~ closed /\ Len(in_queue) < MaxIn
    /\ m.conn_state >= CS_LOGIC_CONNECTED
    /\ in_queue' = Append(in_queue, [kind |-> "send", timeout |-> 0])
    /\ UNCHANGED <<m, pc, main_vars>>

InsertAt(v, i, x) == SubSeq(v, 1, i - 1) \o <<x>> \o SubSeq(v, i, Len(v))
Sorted(v) == \A i \in 1 .. Len(v) - 1 : v[i] <= v[i + 1]

\* Mutant: off by one at the size limit.
AddOneTooMany ==
    LET v == IF relink_vec = <<>> THEN <<0>> ELSE relink_vec
    IN  /\ ~ closed /\ Len(v) <= MaxIntervals
        /\ \E x \in Intervals, i \in 1 .. Len(v) + 1 : relink_vec' = InsertAt(v, i, x)
        /\ UNCHANGED <<m, pc, in_queue, connects, closed, updating>>

\* push_back and sort, after a first 0.
AddRelinkInterval ==
    LET v == IF relink_vec = <<>> THEN <<0>> ELSE relink_vec
    IN  /\ ~ closed /\ Len(v) < MaxIntervals
        /\ \E x \in Intervals, i \in 1 .. Len(v) + 1 :
              /\ Sorted(InsertAt(v, i, x))
              /\ relink_vec' = InsertAt(v, i, x)
        /\ UNCHANGED <<m, pc, in_queue, connects, closed, updating>>

\* OnUpdateMyExtension reaches this client.
UpdateBegin ==
    /\ ~ closed /\ ~ updating
    /\ updating' = TRUE
    /\ UNCHANGED <<m, pc, in_queue, relink_vec, connects, closed>>

\* What CallLuaCallback passes for callback cb: -1 stands for no argument.  A
\* relink passes relink_count_ as it is on delivery, less one if there is any.
Argument(cb) ==
    CASE cb.kind = "disconnect" -> cb.arg
      [] cb.kind = "relink" -> m.relink_count - 1
      [] OTHER -> -1

\* Update runs the oldest callback.
UpdateDeliver ==
    /\ updating /\ m.out # <<>>
    /\ m' = [m EXCEPT !.out = Tail(@)]
    /\ UNCHANGED <<pc, in_queue, relink_vec, connects, closed, updating>>

UpdateEnd ==
    /\ updating /\ m.out = <<>>
    /\ updating' = FALSE
    /\ UNCHANGED <<m, pc, in_queue, relink_vec, connects, closed>>

Update == UpdateBegin \/ UpdateDeliver \/ UpdateEnd

MainThread == Connect \/ Close \/ SendMsg \/ AddRelinkInterval \/ Update

-----------------------------------------------------------------------------
Next == NetThreadLoop \/ MainThread

\* The scheduler runs the net thread, the clock does not stand still and the
\* ping interval passes again and again, and the engine calls the update hook every frame.
Fairness ==
    /\ WF_vars(NetThreadLoop)
    /\ SF_vars(KcpTick(1))
    /\ SF_vars(TcpPing(TRUE))
    /\ WF_vars(Update)

Spec == Init /\ [][Next]_vars /\ Fairness

-----------------------------------------------------------------------------
(* Properties *)

\* The object and the queues hold values of their types.
TypeOK ==
    /\ m \in Client
    /\ pc \in NetPc
    /\ in_queue \in Seq(Request)
    /\ relink_vec \in Seq(Int) /\ Len(relink_vec) <= MaxIntervals
    /\ connects \in Nat
    /\ closed \in BOOLEAN
    /\ updating \in BOOLEAN

ConnectWaits == \E i \in 1 .. Len(in_queue) : in_queue[i].kind = "connect"
Started == pc \notin {"none", "start"}

\* Whatever order failures, goodbyes, timeouts, relinks and requests come in,
\* the client is in CS_INIT exactly when it holds neither socket, and then no
\* byte of the old connection is left for the next one (conn_client.cpp:443).
SocketsMatchState ==
    /\ (m.conn_state = CS_INIT) <=> (m.tcp_sock = "none")
    /\ m.tcp_sock = m.udp_sock
    /\ m.conn_state = CS_INIT =>
          ~ m.write_pending /\ m.frames = 0 /\ ~ m.partial /\ m.tcp_writable

\* A running net thread without a connection has something to wait for: a
\* connect not yet served, or a slot of the relink vector (:445, :861).
NoLimbo ==
    m.running /\ m.conn_state = CS_INIT =>
        ConnectWaits \/ m.relink_count < Len(relink_vec)

\* Once the net loop has given up, a client that was connected once holds no
\* socket and no kcp, and no descriptor was lost on the way (:448-461).
StopIsClean ==
    Started /\ ~ m.running /\ connects <= 1 =>
        m.conn_state = CS_INIT /\ m.kcp = "null" /\ m.lost = 0

\* No descriptor is ever overwritten while open, relinks included: a relink
\* starts only after a close (:454-461, :864).
NoLostSocket == connects <= 1 => m.lost = 0

\* A disconnect callback that says it is over: its InnerClose ended the net loop.
Over(cb) == cb.kind = "disconnect" /\ IsFinal(cb.arg)

\* What is queued from the first callback on that says it is over, while the
\* script has connected once and not closed.  The handler that queued it may add
\* goodbyes, since its other calls fail too (:643-653; of any reason, the vector
\* may have grown), and at the end one callback more: a relink whose attempt just
\* failed (:865-872), a connection whose ping just failed (:602-609).  It adds no
\* message, and no later handler adds anything: not a relink, not a timeout (:859).
LastWords ==
    [][Started /\ connects <= 1 /\ ~ closed =>
          LET new == Len(m.out) + 1 .. Len(m'.out)
          IN  /\ ~ m.running => new = {}
              /\ \A i, j \in new :
                    i < j /\ Over(m'.out[i]) =>
                        \/ m'.out[j].kind = "disconnect"
                        \/ j = Len(m'.out) /\ m'.out[j].kind \in {"relink", "success", "reconnect"}]_vars

\* close ends the net thread, whatever it is doing (:438-453).
CloseStops == closed ~> pc \in {"none", "done"}

\* A connection being set up gets through, or fails, in bounded time: neither
\* the TCP handshake nor the wait for the login can hang (:845-855).
HandshakeEnds ==
    m.running /\ m.conn_state \in {CS_CONNECTING, CS_CONNECTED}
        ~> ~ m.running \/ m.conn_state \in {CS_INIT, CS_LOGIC_CONNECTED}

\* A client that is neither logged in nor told that it is over does not stay so:
\* failed attempts are repeated, as CLIENT_CONNECT_TIMEOUT_CONTINUE promises, and
\* repeated only as often as the vector says (:834-875, conn_protocol.h:57).  A
\* session over TCP ends its wait by kcp's own timers, which are not here.
LoginOrStop == m.running ~>
    ~ m.running \/ m.conn_state = CS_LOGIC_CONNECTED \/ (m.kcp # "null" /\ ~ m.enable_udp)

\* Bytes left in the write stream of a connection do not wait for ever without
\* the socket being watched for writing: what clears the watch with bytes still
\* queued (:288) is made good by a later write (:788-810).
WritesWakeUp ==
    m.write_pending ~> ~ m.write_pending \/ m.tcp_writable

-----------------------------------------------------------------------------
(* What comments and the example say, and the code does not do *)

\* CLIENT_CONNECT_TIMEOUT is "connect timed out" (conn_protocol.h:55): a script
\* is given it only when CheckTimeout found a timeout.
TimeoutMeansTimeout ==
    \A i \in 1 .. Len(m.out) :
        m.out[i].kind = "disconnect" /\ m.out[i].arg = CLIENT_CONNECT_TIMEOUT =>
            m.out[i].cause = CLIENT_CONNECT_TIMEOUT

\* Each of the server's reasons is a reason for a disconnect (conn_protocol.h:
\* 51-54): after the frame that gives one, the client is not connected.
GoodbyeDisconnects ==
    [][\A reason \in ServerReason :
          ReadDisconnect(reason) => m'.conn_state = CS_INIT]_vars

\* A relink callback is given the count of the attempt (example.script:23-25).
RelinkCountPassed ==
    [][UpdateDeliver /\ Head(m.out).kind = "relink" => Argument(Head(m.out)) >= 0]_vars
=============================================================================
