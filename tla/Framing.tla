------------------------------- MODULE Framing -------------------------------
(***************************************************************************)
(* The TCP side of ConnClientPrivate as bytes: frames cut anywhere by      *)
(* send and recv, the two Streams they are put together in, and closes     *)
(* that come between.  The server and the kernel are external.             *)
(*                                                                         *)
(* A byte says which frame of which connection it belongs to, at which     *)
(* place, and what the head of that frame announces: the code reads the    *)
(* announcement from the first bytes of the stream, whatever they are.     *)
(***************************************************************************)
EXTENDS StreamOps, SequencesExt

CONSTANTS
    HeadLen,        \* cs_conn_head_size
    RecvSize,       \* recv_one_time_size
    Frames,         \* what the server may send: [kind, len]
    OutLens,        \* lengths of what the client may send
    PingLen,        \* length of a ping
    MaxConns,       \* bound: connections
    MaxGiven,       \* bound: frames the server sends on a connection
    MaxAsked        \* bound: frames the client sends on a connection

Kinds == {"data", "label", "bye"}
AnyByte == [conn : Nat, id : Nat, pos : Nat, kind : Kinds \cup {"out"}, len : Nat]

ASSUME FramesAssumption ==
    /\ Junk \notin AnyByte
    /\ HeadLen \in Nat \ {0} /\ RecvSize \in 1 .. MaxSize
    /\ Frames \subseteq [kind : Kinds, len : Nat]
    /\ \A f \in Frames : f.len >= HeadLen
    /\ OutLens \cup {PingLen} \subseteq HeadLen .. MaxSize

VARIABLES
    m,          \* what the net thread keeps of the connection
    phase,      \* "loop", or "parse": inside ReadStream
    conn,       \* ghost: number of this connection
    down,       \* bytes on the way to the client
    given,      \* ghost: the frames the server has sent
    handled     \* ghost: the bytes of each frame the client has handled

vars == <<m, phase, conn, down, given, handled>>

FrameBytes(c, i, f) ==
    [p \in 1 .. f.len |-> [conn |-> c, id |-> i, pos |-> p, kind |-> f.kind, len |-> f.len]]

\* The frames of one direction of this connection, as one sequence of bytes.
AllBytes(frames) == FlattenSeq([i \in 1 .. Len(frames) |-> FrameBytes(conn, i, frames[i])])

-----------------------------------------------------------------------------
(* Methods of ConnClientPrivate                                            *)

SetConnState(c, state) ==
    [c EXCEPT !.state = state, !.writable = IF state = "init" THEN TRUE ELSE @]

\* Mutant: the write stream keeps its bytes.
CloseKeepsOut(c) == [SetConnState(c, "init") EXCEPT !.rd = Reset(@)]

\* What InnerClose does to the socket and the streams.
InnerClose(c) == [SetConnState(c, "init") EXCEPT !.wr = Reset(@), !.rd = Reset(@)]

\* The kernel took k bytes.
Sent(c, k) ==
    [c EXCEPT !.up = @ \o SubSeq(Contents(c.wr), 1, k),
              !.wr = Skip(@, k),
              !.writable = IF k < StreamLen(c.wr) THEN TRUE ELSE @]

\* Some bytes sent, none for now, or an error; a closed socket is one.
OnTcpWrite(c) ==
    IF StreamLen(c.wr) <= 0 THEN {c}
    ELSE {InnerClose(c)} \cup
         (IF c.state = "init" THEN {}
          ELSE {Sent(c, k) : k \in 1 .. StreamLen(c.wr)} \cup {[c EXCEPT !.writable = TRUE]})

SendTCPBuf(c, len) ==
    LET frame == [kind |-> "out", len |-> len]
        bytes == FrameBytes(conn, Len(c.asked) + 1, frame)
    IN  IF ~ Writable(c.wr, len) THEN {InnerClose(c)}
        ELSE OnTcpWrite([c EXCEPT !.wr = Write(@, len, bytes), !.asked = Append(@, frame)])

\* ConnectSuccess, ReConnectSuccess: logged in, and a ping at once.
LoggedIn(c) == SendTCPBuf(SetConnState(c, "logic"), PingLen)

\* What the handler of a frame does before it returns to the loop of ReadStream.
Handled(c, kind) ==
    CASE kind = "data" -> {c, InnerClose(c)}     \* a message, a ping, KCP_INFO
      [] kind = "label" -> LoggedIn(c)
      [] kind = "bye" -> {InnerClose(c)}

-----------------------------------------------------------------------------
Init ==
    /\ m = [state |-> "init", writable |-> TRUE, rd |-> NewStream, wr |-> NewStream,
            up |-> <<>>,        \* ghost: bytes the kernel has taken
            asked |-> <<>>]     \* ghost: frames put into write_stream_
    /\ phase = "loop"
    /\ conn = 0
    /\ down = <<>>
    /\ given = <<>>
    /\ handled = <<>>

(* The server and the network                                              *)

\* The kernel's end may be up before the client has noticed.
ServerSends(f) ==
    /\ m.state # "init" /\ Len(given) < MaxGiven
    /\ given' = Append(given, f)
    /\ down' = down \o FrameBytes(conn, Len(given) + 1, f)
    /\ UNCHANGED <<m, phase, conn, handled>>

(* The net thread                                                          *)

InLoop == phase = "loop" /\ phase' = "loop"

\* InnerConnect, for a first connect or a relink.
InnerConnect ==
    /\ InLoop /\ m.state = "init" /\ conn < MaxConns
    /\ m' = [SetConnState(m, "connecting") EXCEPT !.up = <<>>, !.asked = <<>>]
    /\ conn' = conn + 1
    /\ down' = <<>> /\ given' = <<>> /\ handled' = <<>>
    /\ UNCHANGED phase

\* OnTcpRead: n bytes come.
TcpBytes(n) ==
    /\ phase = "loop" /\ phase' = "parse"
    /\ m.state # "init" /\ Writable(m.rd, RecvSize)
    /\ n \in 1 .. Len(down) /\ n <= RecvSize
    /\ m' = [m EXCEPT !.rd = Write(@, RecvSize, SubSeq(down, 1, n))]
    /\ down' = SubSeq(down, n + 1, Len(down))
    /\ UNCHANGED <<conn, given, handled>>

\* OnTcpRead: no room for another recv; the second close finds nothing to do.
TcpOverflow ==
    /\ InLoop
    /\ m.state # "init" /\ down # <<>> /\ ~ Writable(m.rd, RecvSize)
    /\ m' = InnerClose([m EXCEPT !.rd = EnsureWritable(@, RecvSize)])
    /\ UNCHANGED <<conn, down, given, handled>>

\* recv meets the end of the stream or an error; or a timeout, a close, a switch.
Broken ==
    /\ InLoop
    /\ m.state # "init"
    /\ m' = InnerClose(m)
    /\ UNCHANGED <<conn, down, given, handled>>

\* The socket is writable, and not readable: the connect is complete, or
\* write_stream_ goes on.
TcpWritable ==
    /\ InLoop
    /\ m.state # "init" /\ m.writable /\ down = <<>>
    /\ LET c == [m EXCEPT !.writable = FALSE]
       IN  m' \in IF m.state = "connecting" THEN {SetConnState(c, "connected")}
                  ELSE OnTcpWrite(c)
    /\ UNCHANGED <<conn, down, given, handled>>

\* A message of the script, a retransmission of kcp (in any state), a ping.
ClientSends(len) ==
    /\ InLoop
    /\ Len(m.asked) < MaxAsked
    /\ m' \in SendTCPBuf(m, len)
    /\ UNCHANGED <<conn, down, given, handled>>

-----------------------------------------------------------------------------
(* ReadStream, one frame at a time                                         *)

First == Contents(m.rd)[1]

\* Mutant: a head is enough.
HeadComplete == StreamLen(m.rd) >= HeadLen

\* A whole frame is there.
Complete == StreamLen(m.rd) >= HeadLen /\ StreamLen(m.rd) >= First.len

\* Mutant: one frame is handled for each recv.
ParseOnce == "loop"

\* The loop of ReadStream goes on after a frame.
ParseOn == "parse"

ReadFrame ==
    /\ phase = "parse" /\ phase' = ParseOn
    /\ Complete
    /\ handled' = Append(handled, SubSeq(Contents(m.rd), 1, Min({First.len, StreamLen(m.rd)})))
    /\ m' \in {[c EXCEPT !.rd = Skip(@, First.len)] : c \in Handled(m, First.kind)}
    /\ UNCHANGED <<conn, down, given>>

ReadEnd ==
    /\ phase = "parse" /\ phase' = "loop"
    /\ ~ Complete
    /\ UNCHANGED <<m, conn, down, given, handled>>

Receive == \E n \in 1 .. RecvSize : TcpBytes(n)

NetThread ==
    \/ InnerConnect \/ Receive \/ TcpOverflow \/ Broken \/ TcpWritable
    \/ \E len \in OutLens : ClientSends(len)
    \/ ReadFrame \/ ReadEnd

Next == NetThread \/ \E f \in Frames : ServerSends(f)

CanReceive == phase = "loop" /\ m.state # "init" /\ down # <<>>

\* The net thread reads what is there and parses it: weak fairness, spelled out
\* because ENABLED is slow to evaluate.
Fairness ==
    /\ []<>~ CanReceive \/ []<><<Receive \/ TcpOverflow>>_vars
    /\ []<>(phase = "loop") \/ []<><<ReadFrame \/ ReadEnd>>_vars

Spec == Init /\ [][Next]_vars /\ Fairness

-----------------------------------------------------------------------------
(* Properties                                                              *)

\* Each frame the server sent on this connection is handled at most once, in
\* order and whole, however recv cut it; nothing of an earlier connection is
\* handled, whatever was left when it closed (conn_client.cpp:463-464, 708-786).
HandledWhole ==
    /\ Len(handled) <= Len(given)
    /\ \A i \in 1 .. Len(handled) : handled[i] = FrameBytes(conn, i, given[i])

\* What the kernel takes on this connection is the frames of this connection in
\* order, without a gap or a byte of another one (:495-515, 788-810).
SentWhole == IsPrefix(m.up, AllBytes(m.asked))

\* Every frame that was sent is handled, unless the connection ends; one that is
\* too long for the stream ends it (:641-655, 708-719).
FramesHandled ==
    \A i \in 1 .. MaxGiven :
        Len(given) >= i ~> Len(handled) >= i \/ m.state = "init" \/ Len(given) < i
=============================================================================
